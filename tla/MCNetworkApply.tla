---------------------------- MODULE MCNetworkApply ----------------------------
(* One or two runs on one node; a render may be good or cut the node off.    *)
(* The first run's record is one of three layouts or two edits away from it: *)
(* a management bridge over a failover bond; over a port, with a data bond   *)
(* aside; over two ports, one of them flagged.  The node has two NICs, wired *)
(* at either, with or without bonds up; or a NIC is missing or doubled.      *)
EXTENDS HostNetwork, TLC

Plain(type) ==
  [type |-> type, lag |-> None, bridge |-> None, mac |-> None, mtu |-> 0, mode |-> "", vids |-> FALSE,
   lagMode |-> None, hash |-> FALSE, primaryMember |-> FALSE, address |-> FALSE]

Port(m) == [Plain("port") EXCEPT !.mac = m]
Bond(mode) == [Plain("lag") EXCEPT !.lagMode = mode]
Bridge == [Plain("bridge") EXCEPT !.mode = "tagged-all"]

Record(ifs) == [ifs |-> ifs, primary |-> {"vmbr0"}, gateway |-> TRUE, miimon |-> TRUE, lacp |-> TRUE]

Failover ==
  Record("vmbr0" :> Bridge
      @@ "bond0" :> [Bond("active-backup") EXCEPT !.bridge = "vmbr0"]
      @@ "p" :> [Port("m1") EXCEPT !.lag = "bond0"]
      @@ "q" :> [Port("m2") EXCEPT !.lag = "bond0", !.primaryMember = TRUE])

DataBond ==
  Record("vmbr0" :> Bridge @@ "vmbr1" :> Bridge
      @@ "bond0" :> [Bond("802.3ad") EXCEPT !.bridge = "vmbr1", !.hash = TRUE, !.mtu = 9000]
      @@ "p" :> [Port("m1") EXCEPT !.bridge = "vmbr0"]
      @@ "q" :> [Port("m2") EXCEPT !.lag = "bond0"])

TwoPorts ==
  Record("vmbr0" :> Bridge
      @@ "p" :> [Port("m1") EXCEPT !.bridge = "vmbr0"]
      @@ "q" :> [Port("m2") EXCEPT !.bridge = "vmbr0", !.primaryMember = TRUE])

Layouts == {Failover, DataBond, TwoPorts}

EditsOf(t, i) ==
  LET if == t.ifs[i] IN
    {[if EXCEPT !.mtu = m] : m \in {0, 100, 1500, 9000}}
      \union {[if EXCEPT !.address = ~@], [if EXCEPT !.primaryMember = ~@]}
      \union {[if EXCEPT !.bridge = b] : b \in {None} \union (OfType(t, "bridge") \ {i})}
      \union CASE if.type = "bridge" -> {[if EXCEPT !.mode = m] : m \in {"", "tagged", "access"}}
               [] if.type = "lag" -> {[if EXCEPT !.hash = ~@]} \union
                    {[if EXCEPT !.lagMode = m] : m \in {None, "active-backup", "802.3ad", "balance-alb", "broadcast"}}
               [] OTHER -> {[if EXCEPT !.type = "virtual"]}
                    \union {[if EXCEPT !.mac = m] : m \in {None, "m1", "m2"}}
                    \union {[if EXCEPT !.lag = l] : l \in {None} \union OfType(t, "lag")}

Edited(t) ==
  {t, [t EXCEPT !.gateway = FALSE], [t EXCEPT !.miimon = FALSE], [t EXCEPT !.lacp = FALSE]}
    \union {[t EXCEPT !.primary = ids] : ids \in {{}, {"p"}, {"q"}, {"vmbr0", "p"}}}
    \union UNION {{[t EXCEPT !.ifs[i] = e] : e \in EditsOf(t, i)} : i \in Ids(t)}

MCTopologies == UNION {Edited(e) : e \in UNION {Edited(t) : t \in Layouts}}

Nics(m, n) == "n1" :> m @@ "n2" :> n

Node(macs, slaves, bondMac, cable) == [macs |-> macs, slaves |-> slaves, bondMac |-> bondMac, cable |-> cable]

MCNodes ==
  {Node(Nics("m1", "m2"), {}, None, c) : c \in {"n1", "n2"}}
    \union {Node(Nics("m1", "m2"), {"n1", "n2"}, "m1", c) : c \in {"n1", "n2"}}
    \union {Node(Nics("m1", m), {}, None, "n1") : m \in {"m1", "m3"}}
=============================================================================
