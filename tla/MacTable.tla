------------------------------ MODULE MacTable -------------------------------
(****************************************************************************)
(* The operations on a switch's MAC table (l2_switch.go).  A table maps an  *)
(* address and a VLAN to the name of the port it was heard on and to the    *)
(* time since the entry was last stamped.  A name is the sequence of its    *)
(* characters: an entry stores it in a fixed array of bytes, and that array *)
(* is what an update writes into.                                           *)
(****************************************************************************)
EXTENDS Naturals, Sequences, Functions

CONSTANTS EntryTimeout,       \* MAC_TABLE_ENTRY_TIMEOUT
          RefreshThreshold    \* MAC_TABLE_REFRESH_THRESHOLD

ASSUME MacTableAssumption ==
  EntryTimeout \in Nat /\ RefreshThreshold \in 1..EntryTimeout

\* The table after init_mac_table and after flush_mac_table.
EmptyTable == << >>

Older(table) == [k \in DOMAIN table |-> [table[k] EXCEPT !.age = @ + 1]]

\* mac_table_lookup_vlan: the stored name, empty if there is no entry.
Lookup(table, mac, vlan) ==
  IF <<mac, vlan>> \in DOMAIN table THEN table[<<mac, vlan>>].oif ELSE << >>

\* copy(current.oif_name[:], []byte(oif_name)): what is left of the old name
\* behind the new one stays.
Overwrite(old, new) == new \o SubSeq(old, Len(new) + 1, Len(old))

\* mac_table_add_or_update_vlan, for an address that has an entry.
KeepsPort(entry, name) ==   \* faulty variant: a move only stamps the entry
  [entry EXCEPT !.age = 0]

NeverStamps(entry, name) ==   \* faulty variant: a known station is not refreshed
  IF entry.oif # name THEN [oif |-> Overwrite(entry.oif, name), age |-> 0] ELSE entry

Updated(entry, name) ==
  CASE entry.oif # name -> [oif |-> Overwrite(entry.oif, name), age |-> 0]
    [] entry.oif = name /\ entry.age >= RefreshThreshold -> [entry EXCEPT !.age = 0]
    [] OTHER -> entry

AddOrUpdate(table, mac, vlan, name) ==
  LET k == <<mac, vlan>> IN
  [j \in DOMAIN table \cup {k} |->
     IF j # k THEN table[j]
     ELSE IF k \in DOMAIN table THEN Updated(table[k], name)
     ELSE [oif |-> name, age |-> 0]]

\* mac_table_cleanup_expired.
CleanedUp(table) ==
  Restrict(table, {k \in DOMAIN table : table[k].age <= EntryTimeout})

\* flush_mac_table_for_interface.
FlushedFor(table, name) ==
  Restrict(table, {k \in DOMAIN table : table[k].oif # name})
==============================================================================
