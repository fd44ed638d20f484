---------------------------- MODULE NetworkModel ----------------------------
(***************************************************************************)
(* A node's network as the SoT records it, and the three things the code   *)
(* computes from it: the port that carries the installation (the answer    *)
(* service, bmc/answer_service/app.py, and its twin in                     *)
(* jobs/lib/host_baseline.py), whether the Host Baseline accepts the       *)
(* record (build_network_model, match_ports), and the node's interfaces    *)
(* file (render_interfaces).  No state: operators over a record            *)
(*                                                                         *)
(*   t.ifs      [interface -> Interface]                                   *)
(*   t.primary  the interfaces that primary_ip4 is assigned to             *)
(*   t.gateway, t.miimon, t.lacp   whether the SoT has (valid) ones        *)
(*                                                                         *)
(* and over what `ip -o link` shows of the node's physical NICs.  Names,   *)
(* descriptions and VLAN ids are left out; an interface is its id.         *)
(***************************************************************************)
EXTENDS Naturals, FiniteSets, FiniteSetsExt

CONSTANTS
  None,   \* a field that is not set
  Macs,   \* MAC addresses
  Xcc     \* the interface named "xcc": the BMC's, on no NIC of the node

LagModes == {"balance-rr", "active-backup", "balance-xor", "broadcast", "802.3ad",
             "balance-tlb", "balance-alb"}
HashModes == {"balance-xor", "802.3ad", "balance-tlb", "balance-alb"}
HashRequired == {"balance-xor", "802.3ad"}
PrimaryModes == {"active-backup", "balance-tlb", "balance-alb"}

NonPortTypes == {"bridge", "lag", "virtual"}

(* mtu 0: not set; address: it carries one that is not primary_ip4         *)
Interface(ids) ==
  [type : {"port"} \union NonPortTypes, lag : ids \union {None}, bridge : ids \union {None},
   mac : Macs \union {None}, mtu : Nat, mode : {"", "tagged-all", "tagged", "access"}, vids : BOOLEAN,
   lagMode : LagModes \union {None}, hash : BOOLEAN, primaryMember : BOOLEAN, address : BOOLEAN]

Ids(t) == DOMAIN t.ifs

(* lag and bridge name interfaces of the same node (foreign keys)          *)
WellFormed(t) ==
  /\ IsFiniteSet(Ids(t))
  /\ None \notin Ids(t)
  /\ t.ifs \in [Ids(t) -> Interface(Ids(t))]

OfType(t, type) == {i \in Ids(t) : t.ifs[i].type = type}
MembersOf(t, lag) == {i \in Ids(t) : t.ifs[i].lag = lag}
PortsOf(t, bridge) == {i \in Ids(t) : t.ifs[i].bridge = bridge}
Flagged(t, S) == {i \in S : t.ifs[i].primaryMember}

TheOnly(S) == CHOOSE x \in S : TRUE
Mine(t) == t.primary \intersect Ids(t)

-----------------------------------------------------------------------------
(* The install port: _pick_member, derive_install_interface.  None: the    *)
(* record does not name exactly one, and the installation is refused.      *)
(* mutant: of several members the flag does not matter *)
PickAnyMember(t, S) == IF S = {} THEN None ELSE TheOnly(S)

PickMember(t, S) ==
  IF S = {} \/ Cardinality(Flagged(t, S)) > 1 THEN None
  ELSE IF Cardinality(S) = 1 THEN TheOnly(S)
  ELSE IF Flagged(t, S) # {} THEN TheOnly(Flagged(t, S))
  ELSE None

InstallPort(t) ==
  LET type(i) == IF i = None THEN None ELSE t.ifs[i].type
      carrier == IF Cardinality(Mine(t)) = 1 THEN TheOnly(Mine(t)) ELSE None
      below == IF type(carrier) = "bridge" THEN PickMember(t, PortsOf(t, carrier)) ELSE carrier
      port == IF type(below) = "lag" THEN PickMember(t, MembersOf(t, below)) ELSE below
  IN IF type(port) \in {"bridge", "lag"} THEN None ELSE port

(* mgmt_interface_mac, install_nic_mac_problem: the NIC that the answer    *)
(* file configures; without a recorded MAC there is none                   *)
InstallMac(t) == IF InstallPort(t) = None THEN None ELSE t.ifs[InstallPort(t)].mac

-----------------------------------------------------------------------------
(* build_network_model: the job lists every problem and refuses if there   *)
(* is one, so that the record is accepted when each part is.               *)
MtuValid(t, i) == t.ifs[i].mtu = 0 \/ t.ifs[i].mtu \in 576..9216

(* add_port *)
PortValid(t, i) ==
  /\ t.ifs[i].type \notin NonPortTypes
  /\ t.ifs[i].lag = None \/ t.ifs[i].bridge = None
  /\ t.ifs[i].mac # None
  /\ MtuValid(t, i)

(* A bond without an MTU of its own takes the largest of its members. *)
BondMtu(t, l) ==
  IF t.ifs[l].mtu # 0 THEN t.ifs[l].mtu
  ELSE Max({0} \union {t.ifs[m].mtu : m \in MembersOf(t, l)})

BondValid(t, l) ==
  LET bond == t.ifs[l]
      members == MembersOf(t, l)
  IN /\ members # {}
     /\ MtuValid(t, l)
     /\ bond.lagMode \in LagModes
     /\ bond.lagMode \in HashRequired => bond.hash
     /\ bond.hash => bond.lagMode \in HashModes
     /\ t.miimon
     /\ bond.lagMode = "802.3ad" => t.lacp
     /\ Cardinality(Flagged(t, members)) <= 1
     /\ bond.lagMode = "active-backup" /\ Cardinality(members) > 1 => Flagged(t, members) # {}
     /\ \A m \in members :
          /\ PortValid(t, m)
          /\ bond.mtu # 0 /\ t.ifs[m].mtu # 0 => bond.mtu = t.ifs[m].mtu

PortMtu(t, p) == IF t.ifs[p].type = "lag" THEN BondMtu(t, p) ELSE t.ifs[p].mtu

BridgeValid(t, b) ==
  LET bridge == t.ifs[b] IN
    /\ MtuValid(t, b)
    /\ Cardinality(Flagged(t, PortsOf(t, b))) <= 1
    /\ \A p \in PortsOf(t, b) :
         /\ t.ifs[p].type # "lag" => PortValid(t, p)
         /\ bridge.mtu # 0 /\ PortMtu(t, p) # 0 => bridge.mtu <= PortMtu(t, p)
    /\ bridge.mode # "access"
    /\ bridge.mode = "tagged" => bridge.vids
    /\ ~bridge.address

ManagedByBridge(t) == Cardinality(Mine(t)) = 1 /\ Mine(t) \subseteq OfType(t, "bridge")

(* model_ports: the physical ports of the topology *)
ModelPorts(t) ==
  (UNION {MembersOf(t, l) : l \in OfType(t, "lag")})
    \union (UNION {PortsOf(t, b) \ OfType(t, "lag") : b \in OfType(t, "bridge")})

(* an address on an interface that the render would leave out *)
LeavesAddress(t, i) ==
  t.ifs[i].address /\ i \notin OfType(t, "bridge") \union OfType(t, "lag") \union ModelPorts(t) \union {Xcc}

Accepted(t) ==
  /\ ManagedByBridge(t)
  /\ t.gateway
  /\ \A l \in OfType(t, "lag") : BondValid(t, l)
  /\ \A b \in OfType(t, "bridge") : BridgeValid(t, b)
  /\ \A i \in Ids(t) : ~LeavesAddress(t, i)

-----------------------------------------------------------------------------
(* match_ports.  links: [NIC -> the MAC it shows, and the permanent one if *)
(* that differs].  Slaves of a bond show the bond's MAC.                   *)
(* mutant: the address that the NIC shows now *)
ShownMac(link) == link.mac

LinkMac(link) == IF link.permaddr # None THEN link.permaddr ELSE link.mac

(* external: `ip -o link` for NICs with these MACs, some in a bond that    *)
(* has taken the MAC of one of them                                        *)
LinksOf(macs, slaves, bondMac) ==
  [n \in DOMAIN macs |->
     IF n \in slaves /\ macs[n] # bondMac
       THEN [mac |-> bondMac, permaddr |-> macs[n]]
       ELSE [mac |-> macs[n], permaddr |-> None]]

NicsWith(links, mac) == {n \in DOMAIN links : LinkMac(links[n]) = mac}

Matched(t, links) ==
  /\ \A p \in ModelPorts(t) : Cardinality(NicsWith(links, t.ifs[p].mac)) = 1
  /\ \A p, q \in ModelPorts(t) : p # q => NicsWith(links, t.ifs[p].mac) # NicsWith(links, t.ifs[q].mac)

NicOf(t, links, p) == TheOnly(NicsWith(links, t.ifs[p].mac))

-----------------------------------------------------------------------------
(* render_interfaces, as far as it decides which NIC carries what. *)
BondPrimary(t, l) ==
  IF t.ifs[l].lagMode \in PrimaryModes /\ Flagged(t, MembersOf(t, l)) # {}
    THEN TheOnly(Flagged(t, MembersOf(t, l)))
    ELSE None

(* lname: a port has the name of its NIC, a bond its own *)
LinuxName(t, links, i) == IF i \in ModelPorts(t) THEN NicOf(t, links, i) ELSE i

Render(t, links) ==
  [bonds |-> [l \in OfType(t, "lag") |->
                [slaves |-> {LinuxName(t, links, m) : m \in MembersOf(t, l)},
                 mode |-> t.ifs[l].lagMode,
                 primary |-> IF BondPrimary(t, l) = None THEN None
                             ELSE LinuxName(t, links, BondPrimary(t, l))]],
   bridges |-> [b \in OfType(t, "bridge") |->
                [ports |-> {LinuxName(t, links, p) : p \in PortsOf(t, b)},
                 management |-> b \in Mine(t)]]]

(* The NICs over which a rendered bridge is connected. *)
Uplinks(render, b) ==
  (render.bridges[b].ports \ DOMAIN render.bonds)
    \union UNION {render.bonds[l].slaves : l \in DOMAIN render.bonds \intersect render.bridges[b].ports}

ManagementUplinks(render) ==
  UNION {Uplinks(render, b) : b \in {x \in DOMAIN render.bridges : render.bridges[x].management}}

(* The NIC carries management, and is preferred where a bond fails over.   *)
PrefersUplink(render, nic) ==
  /\ nic \in ManagementUplinks(render)
  /\ \A l \in DOMAIN render.bonds :
       nic \in render.bonds[l].slaves /\ render.bonds[l].mode = "active-backup" =>
         render.bonds[l].primary = nic \/ render.bonds[l].slaves = {nic}
=============================================================================
