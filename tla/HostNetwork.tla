----------------------------- MODULE HostNetwork -----------------------------
(***************************************************************************)
(* The network step of the Host Baseline job from the SoT to the node: a   *)
(* run of the job reads the record of the node's network, observes the     *)
(* NICs, refuses or renders (NetworkModel), and applies what it rendered   *)
(* (NetworkApply).  The node was installed over the NIC that the answer    *)
(* service derived from the same record.                                   *)
(*                                                                         *)
(* The first run's record is kept until the run has planned.  Then it is   *)
(* forgotten: the apply knows only whether the render reaches the node,    *)
(* and a later run's record may have been edited into any other.           *)
(***************************************************************************)
EXTENDS NetworkModel, NetworkApply

CONSTANTS
  Topologies,  \* records of a node's network
  Nodes,       \* [macs: NIC -> permanent MAC, slaves: NICs in a bond, bondMac, cable: the wired NIC]
  Forgotten

(* No NIC has a bond's Linux name (bond<N>, which build_network_model      *)
(* demands of every bond).                                                 *)
ASSUME HostNetworkAssumption ==
  /\ None \notin Macs \union {"bridge", "lag"}
  /\ \A t \in Topologies : WellFormed(t)
  /\ \A n \in Nodes :
       /\ IsFiniteSet(DOMAIN n.macs)
       /\ \A nic \in DOMAIN n.macs : n.macs[nic] \in Macs
       /\ \A t \in Topologies : DOMAIN n.macs \intersect OfType(t, "lag") = {}

VARIABLES
  sot,   \* the record
  node   \* the node's NICs

hvars == <<vars, sot, node>>

HInit ==
  /\ Init
  /\ sot \in Topologies
  /\ node \in Nodes

Links == LinksOf(node.macs, node.slaves, node.bondMac)

(* The node answers under a render that has the wired NIC below the        *)
(* management bridge.                                                      *)
ContentsFor(render) ==
  {c \in Contents \ {Factory} : c \in Reaches <=> node.cable \in ManagementUplinks(render)}

(* _gates builds the model, _plan matches it to the observed NICs *)
Planned(r) ==
  /\ Accepted(sot)
  /\ Matched(sot, Links)
  /\ \E content \in ContentsFor(Render(sot, Links)) : StartWith(r, content)

Refused(r) ==
  /\ ~Accepted(sot) \/ ~Matched(sot, Links)
  /\ Refuse(r)

Plan(r) ==
  /\ sot # Forgotten
  /\ Planned(r) \/ Refused(r)
  /\ sot' = Forgotten
  /\ node' = Forgotten

HNext ==
  \/ \E r \in Runs : Plan(r)
  \/ sot = Forgotten /\ Next /\ UNCHANGED <<sot, node>>

HSpec == HInit /\ [][HNext]_hvars

HFairSpec == HSpec /\ Fairness

-----------------------------------------------------------------------------
(* "the same port stays the bond's primary afterwards, so the cable that   *)
(* carried the install keeps carrying management"                          *)
(* (docs/sot-data-contract.md): if the answer service finds an install     *)
(* port in the record and the node is wired there, then a run that is not  *)
(* refused applies a file under which the node answers over that NIC, and  *)
(* a bond that fails over prefers it.                                      *)
InstallCableKept ==
  [][\A r \in Runs :
       /\ sot # Forgotten
       /\ Planned(r)
       /\ InstallMac(sot) # None
       /\ NicsWith(Links, InstallMac(sot)) = {node.cable}
       => job'[r].render \in Reaches /\ PrefersUplink(Render(sot, Links), node.cable)]_hvars

(* "Matched to the node's NICs by MAC (the permanent address when          *)
(* enslaved)" (docs/sot-data-contract.md): a run plans the same from the   *)
(* NICs of a node whose bonds are up, which all show one MAC, as it did    *)
(* before the first apply: a re-run neither refuses nor moves a port.      *)
BondsDoNotConfuse ==
  sot # Forgotten /\ Accepted(sot) =>
    LET fresh == LinksOf(node.macs, {}, None) IN
      /\ Matched(sot, Links) <=> Matched(sot, fresh)
      /\ Matched(sot, Links) => Render(sot, Links) = Render(sot, fresh)
=============================================================================
