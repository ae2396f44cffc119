------------------------------- MODULE MCMesh -------------------------------
(***************************************************************************)
(* Two gateways, each connected to the other, with one client each: alice  *)
(* of MessagingMeshLib at gw1, bob of MessagingMeshLib.NET at gw2.         *)
(***************************************************************************)
EXTENDS Mesh

CONSTANTS gw1, gw2, alice, bob

MCHome       == (alice :> gw1) @@ (bob :> gw2)
Bounds(m, n) == (alice :> m) @@ (bob :> n)
None         == Bounds(0, 0)
OneToAlice   == Bounds(1, 0)
OneToBob     == Bounds(0, 1)
OneEach      == Bounds(1, 1)
TwoToAlice   == Bounds(2, 0)
TwoToBob     == Bounds(0, 2)

OneSubject   == { <<"A">> }
TwoSubjects  == { <<"A">>, <<"B">> }

(* What the interest of bob and the messages of alice take over the mesh.  *)
MessagePath  == {<<gw2, gw1>>, bob}
-----------------------------------------------------------------------------
(* A file that all gateways share: two gateways on one host, a third on    *)
(* another, and a name that is looked up nowhere.                          *)
Startup == INSTANCE GatewayConfiguration

At(host, port) == [Hostname |-> host, Port |-> port]
Gateway(host, port) ==
  [Hostname |-> host, Port |-> port,
   lookup   |-> [h \in {"a", "b", "c"} |->
                   CASE h = "a" -> "10.0.0.1" [] h = "b" -> "10.0.0.2" [] OTHER -> ""]]

Listed == << At("a", 1), At("a", 2), At("b", 1) >>
File(last) ==
  [CoordinatorGateway |-> At("b", 1),
   StartupMeshes      |-> << [Name |-> "S", MeshGateways |-> << At("b", 1) >>],
                             [Name |-> "T", MeshGateways |-> << At("b", 1) >>],
                             [Name |-> "S", MeshGateways |-> Listed],
                             [Name |-> "U", MeshGateways |-> << last >>] >>]

(***************************************************************************)
(* The mesh of this module is what a shared file leads to: each gateway    *)
(* connects to all others that the last mesh of the name lists, once, and  *)
(* never to itself; and it starts the services it is listed for.           *)
(***************************************************************************)
ASSUME SharedFileGivesFullMesh ==
  \A i \in DOMAIN Listed :
    LET me == Gateway(Listed[i].Hostname, Listed[i].Port) IN
    /\ Startup!MeshGatewayConnections(File(At("b", 7)), me, "S")
         = {<<Listed[k].Hostname, Listed[k].Port>> : k \in DOMAIN Listed \ {i}}
    /\ Startup!initialize(File(At("b", 7)), me) = IF i = 3 THEN {"S", "T"} ELSE {"S"}

(***************************************************************************)
(* A name that cannot be looked up costs a gateway its services at the     *)
(* start, but not the peers it had read by then.                           *)
(***************************************************************************)
ASSUME UnknownHostStartsNothing ==
  \A i \in DOMAIN Listed, bad \in {At("c", 1), Startup!Malformed} :
    LET me == Gateway(Listed[i].Hostname, Listed[i].Port) IN
    /\ Startup!initialize(File(bad), me) = {}
    /\ Startup!Peers(File(bad), me, "S") = Startup!Peers(File(At("b", 7)), me, "S")
    /\ Startup!Peers(File(bad), me, "U") = {}
=============================================================================
