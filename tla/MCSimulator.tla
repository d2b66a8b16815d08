----------------------------- MODULE MCSimulator -----------------------------
(* A ring h - r - s - h with d behind s; link 00 joins h and r, 01 r and s,   *)
(* 10 s and h, 11 s and d.                                                   *)
EXTENDS Simulator

CONSTANTS h, r, s, d

MCOwner ==
  <<0, 0, 0>> :> h @@ <<0, 0, 1>> :> r @@ <<0, 1, 0>> :> r @@ <<0, 1, 1>> :> s
  @@ <<1, 0, 0>> :> s @@ <<1, 0, 1>> :> h @@ <<1, 1, 0>> :> s @@ <<1, 1, 1>> :> d

Route(dest, mask, gateway, source, ad, metric) ==
  [add |-> TRUE, route |-> [dest |-> dest, mask |-> mask, gateway |-> gateway,
                            source |-> source, ad |-> ad, metric |-> metric]]

Without(edit) == [edit EXCEPT !.add = FALSE]

Connected(dest) == Route(dest, 2, None, "connected", 0, 0)

Static(dest, mask, gateway) == Route(dest, mask, gateway, "static", 1, 1)

Learned(dest, mask, gateway, metric) == Route(dest, mask, gateway, "rip", 120, metric)

D == <<1, 1, 1>>

\* Default routes on the hosts; between h and d packets go by r.  r does not know
\* the link of s and h.
Plain ==
  h :> <<Connected(<<0, 0, 0>>), Connected(<<1, 0, 1>>), Static(<<0, 0, 0>>, 0, <<0, 0, 1>>)>>
  @@ r :> <<Connected(<<0, 0, 1>>), Connected(<<0, 1, 0>>), Static(<<1, 1, 0>>, 2, <<0, 1, 1>>)>>
  @@ s :> <<Connected(<<0, 1, 1>>), Connected(<<1, 0, 0>>), Connected(<<1, 1, 0>>),
            Static(<<0, 0, 0>>, 2, <<0, 1, 0>>)>>
  @@ d :> <<Connected(D), Static(<<0, 0, 0>>, 0, <<1, 1, 0>>)>>

\* Adds the edits of extra at one node.
With(tables, n, extra) == [tables EXCEPT ![n] = @ \o extra]

\* s returns what is for d to r.
Looping == With(Plain, s, <<Static(D, 3, <<0, 1, 0>>)>>)

\* s has lost the way back to h.
OneWay == With(Plain, s, <<Without(Static(<<0, 0, 0>>, 2, <<0, 1, 0>>))>>)

\* r sends what is for h itself away from h: packets for h go in circles.
Misdirected == With(Plain, r, <<Learned(<<0, 0, 0>>, 3, <<0, 1, 1>>, 2)>>)

\* r returns what is for d to h, which sends it to r again.
Bounced == With(Plain, r, <<Static(D, 3, <<0, 0, 0>>)>>)

\* h reaches r's far side by s, and s reaches h directly.
Shortcut ==
  With(With(Plain, h, <<Static(<<0, 1, 0>>, 2, <<1, 0, 0>>)>>),
       s, <<Without(Static(<<0, 0, 0>>, 2, <<0, 1, 0>>)), Static(<<0, 0, 0>>, 2, <<1, 0, 1>>)>>)

Ping(src, dst, trace) == [do |-> "ping", src |-> src, dst |-> dst, trace |-> trace]

Traceroute(src, dst, max, trace) ==
  [do |-> "traceroute", src |-> src, dst |-> dst, max |-> max, trace |-> trace]

Link(link, isUp) == [do |-> "link", link |-> link, up |-> isUp]

Case(tables, down, calls) == [edits |-> tables, up |-> Links \ down, script |-> calls]

\* Tables that a few edits make, for LookupLPM only.
Edits ==
  {Connected(<<0, 1, 0>>), Static(<<0, 1, 0>>, 1, <<0, 1, 1>>), Static(<<0, 1, 0>>, 2, <<0, 0, 0>>),
   Learned(<<0, 1, 1>>, 3, <<0, 0, 0>>, 2), Learned(<<0, 1, 0>>, 2, <<0, 1, 1>>, 3),
   Learned(<<0, 1, 0>>, 2, <<0, 1, 1>>, 1), Without(Learned(<<0, 1, 0>>, 2, <<0, 1, 1>>, 1)),
   Static(<<0, 0, 0>>, 0, <<0, 1, 1>>)}

Tables ==
  {Case([Plain EXCEPT ![r] = e], {}, << >>) : e \in UNION {[1 .. k -> Edits] : k \in 1 .. 4}}

\* Every node traces and pings every other address, whatever the tables: paths,
\* loops, missing and misdirected routes.
Paths ==
  {Case(tables, {}, <<Traceroute(src, dst, 3, TRUE), Ping(src, dst, FALSE)>>) :
     tables \in {Plain, Looping, OneWay, Misdirected, Shortcut}, src \in Node, dst \in [1 .. 3 -> {0, 1}]}

Others ==
  {c \in Paths : Owner[c.script[1].dst] # c.script[1].src}
  \cup {Case(Plain, {}, <<Traceroute(h, dst, 1, TRUE)>>) : dst \in {<<0, 0, 1>>, D}}

\* A probe waits at r for s.  When s asks for r during the ping of r, the probe is
\* released, and its TTL ends at s.
LateReport ==
  {Case(Shortcut, {<<0, 1>>},
        <<Traceroute(h, D, 2, FALSE), Link(<<0, 1>>, TRUE), Ping(h, <<0, 1, 0>>, FALSE)>>)}

\* Packets that wait for ARP while the user goes on: for an address of the node
\* itself, and behind a link that is down at first or goes down again.
Waits ==
  {Case(Plain, {}, <<Ping(h, <<0, 0, 0>>, FALSE), Ping(h, D, TRUE)>>),
   Case(Bounced, {}, <<Traceroute(h, D, 2, TRUE), Ping(h, D, TRUE)>>),
   Case(Plain, {<<0, 1>>},
        <<Traceroute(r, D, 1, FALSE), Link(<<0, 1>>, TRUE), Ping(r, <<1, 0, 0>>, TRUE)>>),
   Case(Plain, {<<1, 1>>}, <<Ping(h, D, FALSE), Link(<<1, 1>>, TRUE), Ping(h, D, TRUE)>>),
   Case(Plain, {<<1, 1>>},
        <<Ping(s, D, FALSE), Link(<<1, 1>>, TRUE), Link(<<1, 1>>, FALSE), Ping(s, D, TRUE)>>)}

MCScenarios == Others \cup Waits \cup LateReport \cup Tables
==============================================================================
