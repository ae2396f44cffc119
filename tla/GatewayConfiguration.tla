------------------------ MODULE GatewayConfiguration ------------------------
(***************************************************************************)
(* How a gateway gets from gateway-config.json, which all gateways of a    *)
(* mesh share, to the peers it connects to: GatewayConfig, MeshManager and *)
(* the start of Gateway and ServiceManager.                                *)
(*                                                                         *)
(* The file is [CoordinatorGateway, StartupMeshes], and a mesh in it is    *)
(* [Name, MeshGateways], a sequence of entries.  An entry is a             *)
(* "hostname:port" as [Hostname, Port], or Malformed; the coordinator's    *)
(* may also be NoEntry.  A gateway is [Hostname, Port, lookup], where      *)
(* lookup is what its host knows of the addresses of hostnames.            *)
(***************************************************************************)
EXTENDS Naturals, Sequences

Malformed == [Hostname |-> "malformed", Port |-> 0]
NoEntry   == [Hostname |-> "", Port |-> 0]
NoAddress == ""

(* No name is the name of the own host.                                    *)
getIPAddress(gateway, hostname) ==
  gateway.lookup[IF hostname = "" THEN gateway.Hostname ELSE hostname]

(* makeKey *)
Key(info) == << info.Hostname, info.Port >>

(* The process that listens there.                                         *)
Address(info) == [IPAddress |-> info.IPAddress, Port |-> info.Port]
Own(gateway)  == [IPAddress |-> getIPAddress(gateway, ""), Port |-> gateway.Port]

(* An entry that is not valid makes getGatewayInfo throw.                  *)
IsValid(entry, gateway) ==
  entry # Malformed /\ getIPAddress(gateway, entry.Hostname) # NoAddress

getGatewayInfo(entry, gateway) ==
  LET address == getIPAddress(gateway, entry.Hostname) IN
  [Hostname  |-> entry.Hostname,
   Port      |-> entry.Port,
   IPAddress |-> address,
   PeerType  |-> IF address = getIPAddress(gateway, "") /\ entry.Port = gateway.Port
                 THEN "SELF" ELSE "PEER"]
-----------------------------------------------------------------------------
CoordinatorIsValid(raw, gateway) ==
  raw.CoordinatorGateway = NoEntry \/ IsValid(raw.CoordinatorGateway, gateway)

(* The meshes of the file ahead of what makes parse throw; they are kept.  *)
MeshesRead(raw, gateway) ==
  {i \in DOMAIN raw.StartupMeshes :
     /\ CoordinatorIsValid(raw, gateway)
     /\ \A j \in 1 .. i : \A k \in DOMAIN raw.StartupMeshes[j].MeshGateways :
          IsValid(raw.StartupMeshes[j].MeshGateways[k], gateway)}

Throws(raw, gateway) ==
  ~CoordinatorIsValid(raw, gateway) \/ MeshesRead(raw, gateway) # DOMAIN raw.StartupMeshes

MeshGatewayInfos(mesh, gateway) ==
  {getGatewayInfo(mesh.MeshGateways[k], gateway) : k \in DOMAIN mesh.MeshGateways}

(* Of two meshes of one name the later one counts.                         *)
IsLast(raw, gateway, i) ==
  /\ i \in MeshesRead(raw, gateway)
  /\ \A j \in MeshesRead(raw, gateway) :
       raw.StartupMeshes[j].Name = raw.StartupMeshes[i].Name => j <= i

(* StartupMeshConfigs *)
parse(raw, gateway) ==
  [service \in {raw.StartupMeshes[i].Name : i \in MeshesRead(raw, gateway)} |->
     UNION {MeshGatewayInfos(raw.StartupMeshes[i], gateway) :
              i \in {j \in MeshesRead(raw, gateway) :
                       raw.StartupMeshes[j].Name = service /\ IsLast(raw, gateway, j)}}]

(* Also a gateway that the mesh does not list gets peers.                  *)
getPeerGatewayInfos(config, service) ==
  IF service \in DOMAIN config
  THEN {info \in config[service] : info.PeerType = "PEER"}
  ELSE {}

createServiceManagers(config) ==
  {service \in DOMAIN config : \E info \in config[service] : info.PeerType = "SELF"}

(* The services a gateway has when it starts; others come with their first *)
(* client.  If the file cannot be read to its end there are none.          *)
initialize(raw, gateway) ==
  IF Throws(raw, gateway) THEN {} ELSE createServiceManagers(parse(raw, gateway))

getOrCreateServiceManager(services, service) == services \cup {service}

(* The connections a ServiceManager makes: one for each key.               *)
MeshGatewayConnections(raw, gateway, service) ==
  {Key(info) : info \in getPeerGatewayInfos(parse(raw, gateway), service)}

(* The gateways at their other ends.                                       *)
Peers(raw, gateway, service) ==
  {Address(info) : info \in getPeerGatewayInfos(parse(raw, gateway), service)}
=============================================================================
