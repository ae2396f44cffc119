-------------------------- MODULE CoordinatorProofs --------------------------
(***************************************************************************)
(* Every subscription of a web client is undone, for any browsers, pages   *)
(* and services, and however often connections are lost; and the subjects  *)
(* a page shows never amount to more than the total, for any gateways,     *)
(* services and subjects.                                                  *)
(*                                                                         *)
(* NothingLeftBehind looks at a browser at rest, so by itself it says      *)
(* nothing of the states before.  IInv follows each group a browser is in  *)
(* back to what will undo it: the effect of a page that is open, or an     *)
(* invocation that the hub has not finished.                               *)
(*                                                                         *)
(* DetailsAddUp merges snapshots of any age.  Counting says that each is   *)
(* whole by itself, from the counters of a gateway on.  Sums are folds     *)
(* over sets in an unknown order: that they may be taken in any order, and *)
(* columns for rows, is shown first.                                       *)
(***************************************************************************)
EXTENDS Coordinator, WellFoundedInduction, FiniteSetTheorems, TLAPS

Invocations ==
  [method : {"Subscribe", "Unsubscribe"}, service : Services, effect : Nat,
   step : {"group", "register"}]

Effects == [service : Services, paused : BOOLEAN, phase : Phases, cleaned : BOOLEAN]

(* The types of what subscriptions are made of.                            *)
Types ==
  /\ hub \in [Clients -> Seq(Invocations)]
  /\ effects \in [Clients -> Seq(Effects)]
  /\ groups \in [Clients -> SUBSET Services]
  /\ connection \in [Clients -> {"none", "connecting", "connected", "reconnecting", "closed"}]

(* The hub forgets a connection that is lost, and nobody is connected yet  *)
(* who has invoked nothing.                                                *)
Forgotten(c) == connection[c] # "connected" => hub[c] = << >> /\ groups[c] = {}

(* An invocation is one of an effect of the browser, for its service.      *)
FromEffect(c, v) ==
  v.effect \in DOMAIN effects[c] /\ effects[c][v.effect].service = v.service

(* An effect waits for its Subscribe, of which there is one only.          *)
Awaited(c, i) ==
  hub[c][i].method = "Subscribe" =>
    /\ effects[c][hub[c][i].effect].phase = "subscribing"
    /\ \A j \in DOMAIN hub[c] \ {i} :
         hub[c][j].method = "Subscribe" => hub[c][j].effect # hub[c][i].effect

(* Why a browser may be in a group: an effect is subscribed, or an         *)
(* invocation is going to add it, or to remove it.                         *)
Owed(c, s) ==
  \/ \E e \in DOMAIN effects[c] : effects[c][e].phase = "active" /\ effects[c][e].service = s
  \/ \E i \in DOMAIN hub[c] :
       /\ hub[c][i].service = s
       /\ hub[c][i].method = "Subscribe" \/ hub[c][i].step = "group"

(* A browser whose subscriptions are all going to be undone.               *)
Orderly(c) ==
  /\ Forgotten(c)
  /\ \A i \in DOMAIN hub[c] : FromEffect(c, hub[c][i]) /\ Awaited(c, i)
  /\ \A s \in groups[c] : Owed(c, s)

IInv == Types /\ \A c \in Clients : Orderly(c)
-----------------------------------------------------------------------------
(* A browser is not touched by what leaves its state as it is.             *)
LEMMA Elsewhere ==
  ASSUME NEW c \in Clients, Orderly(c),
         hub'[c] = hub[c], effects'[c] = effects[c], groups'[c] = groups[c],
         connection'[c] = connection[c]
  PROVE  Orderly(c)'
BY DEF Orderly, Forgotten, FromEffect, Awaited, Owed

(* The same, for a step of one browser.                                    *)
LEMMA OneBrowser ==
  ASSUME IInv, NEW c \in Clients,
         \A d \in Clients \ {c} :
           /\ hub'[d] = hub[d] /\ effects'[d] = effects[d]
           /\ groups'[d] = groups[d] /\ connection'[d] = connection[d],
         Types', Orderly(c)'
  PROVE  IInv'
BY Elsewhere DEF IInv

(* What a browser has invoked, in the types.                               *)
LEMMA Invoked ==
  ASSUME Types, NEW c \in Clients, NEW i \in DOMAIN hub[c]
  PROVE  /\ hub[c] \in Seq(Invocations) /\ hub[c][i] \in Invocations
         /\ DOMAIN hub[c] = 1 .. Len(hub[c]) /\ Len(hub[c]) \in Nat
BY DEF Types

(* An effect of a browser, in the types.                                   *)
LEMMA EffectType ==
  ASSUME Types, NEW c \in Clients
  PROVE  /\ effects[c] \in Seq(Effects) /\ Len(effects[c]) \in Nat
         /\ DOMAIN effects[c] = 1 .. Len(effects[c])
         /\ \A e \in DOMAIN effects[c] : effects[c][e] \in Effects
BY DEF Types

(* The first invocation goes: the others move up.                          *)
LEMMA TailOfHub ==
  ASSUME NEW q \in Seq(Invocations), q # << >>
  PROVE  /\ Tail(q) \in Seq(Invocations)
         /\ \A i \in DOMAIN Tail(q) : i + 1 \in DOMAIN q /\ Tail(q)[i] = q[i + 1]
         /\ \A i \in DOMAIN q \ {1} : i - 1 \in DOMAIN Tail(q) /\ Tail(q)[i - 1] = q[i]
         /\ 1 \in DOMAIN q /\ Head(q) = q[1]
OBVIOUS

(* One more invocation: the others stay where they are.                    *)
LEMMA AppendToHub ==
  ASSUME NEW q \in Seq(Invocations), NEW v \in Invocations
  PROVE  /\ Append(q, v) \in Seq(Invocations)
         /\ DOMAIN Append(q, v) = DOMAIN q \cup {Len(q) + 1}
         /\ Len(q) + 1 \notin DOMAIN q
         /\ \A i \in DOMAIN q : Append(q, v)[i] = q[i]
         /\ Append(q, v)[Len(q) + 1] = v
OBVIOUS
-----------------------------------------------------------------------------
(* The hub begins to work on an invocation.                                *)
LEMMA NextStepKeepsTypes ==
  ASSUME Types, NEW c \in Clients, hub[c] # << >>, NextStep(c),
         UNCHANGED <<effects, connection>>, groups' \in [Clients -> SUBSET Services]
  PROVE  /\ Types'
         /\ \A d \in Clients \ {c} : hub'[d] = hub[d]
         /\ DOMAIN hub'[c] = DOMAIN hub[c] /\ 1 \in DOMAIN hub[c]
         /\ \A i \in DOMAIN hub[c] :
              /\ hub'[c][i].method = hub[c][i].method
              /\ hub'[c][i].service = hub[c][i].service
              /\ hub'[c][i].effect = hub[c][i].effect
              /\ i # 1 => hub'[c][i] = hub[c][i]
<1>1. hub[c] \in Seq(Invocations) /\ 1 \in DOMAIN hub[c] /\ hub[c][1] \in Invocations
  BY TailOfHub DEF Types
<1>2. [hub[c][1] EXCEPT !.step = "register"] \in Invocations
  BY <1>1 DEF Invocations
<1>3. hub' = [hub EXCEPT ![c] = [hub[c] EXCEPT ![1] = [hub[c][1] EXCEPT !.step = "register"]]]
  BY <1>1 DEF NextStep, Types
<1>4. [hub[c] EXCEPT ![1] = [hub[c][1] EXCEPT !.step = "register"]] \in Seq(Invocations)
  BY <1>1, <1>2
<1>5. hub' \in [Clients -> Seq(Invocations)]
  BY <1>3, <1>4 DEF Types
<1>6. hub'[c] = [hub[c] EXCEPT ![1] = [hub[c][1] EXCEPT !.step = "register"]]
  BY <1>3 DEF Types
<1>7. \A d \in Clients \ {c} : hub'[d] = hub[d]
  BY <1>3 DEF Types
<1>8. \A i \in DOMAIN hub[c] :
        hub'[c][i] = IF i = 1 THEN [hub[c][1] EXCEPT !.step = "register"] ELSE hub[c][i]
  BY <1>1, <1>6
<1>9. /\ [hub[c][1] EXCEPT !.step = "register"].method = hub[c][1].method
      /\ [hub[c][1] EXCEPT !.step = "register"].service = hub[c][1].service
      /\ [hub[c][1] EXCEPT !.step = "register"].effect = hub[c][1].effect
  BY <1>1 DEF Invocations
<1> QED BY <1>1, <1>5, <1>6, <1>7, <1>8, <1>9 DEF Types

(* Subscribe adds the browser to the group: the invocation goes on.        *)
LEMMA AddToGroupKeeps ==
  ASSUME IInv, NEW c \in Clients, AddToGroup(c)
  PROVE  IInv'
<1> DEFINE s == Invocation(c).service
<1>1. /\ hub[c] # << >> /\ hub[c] \in Seq(Invocations) /\ Invocation(c) = hub[c][1]
      /\ hub[c][1] \in Invocations /\ hub[c][1].method = "Subscribe"
  BY TailOfHub DEF AddToGroup, Asks, Invocation, IInv, Types
<1>2. s \in Services
  BY <1>1 DEF Invocations
<1>3. groups' = [groups EXCEPT ![c] = @ \cup {s}] /\ UNCHANGED <<effects, connection>> /\ NextStep(c)
  BY DEF AddToGroup, browserVars
<1>4. groups' \in [Clients -> SUBSET Services] /\ groups'[c] = groups[c] \cup {s}
      /\ \A d \in Clients \ {c} : groups'[d] = groups[d]
  BY <1>2, <1>3 DEF IInv, Types
<1> HIDE DEF s
<1>5. /\ Types'
      /\ \A d \in Clients \ {c} : hub'[d] = hub[d]
      /\ DOMAIN hub'[c] = DOMAIN hub[c] /\ 1 \in DOMAIN hub[c]
      /\ \A i \in DOMAIN hub[c] :
           /\ hub'[c][i].method = hub[c][i].method
           /\ hub'[c][i].service = hub[c][i].service
           /\ hub'[c][i].effect = hub[c][i].effect
           /\ i # 1 => hub'[c][i] = hub[c][i]
  BY <1>1, <1>3, <1>4, NextStepKeepsTypes DEF IInv
<1>6. Forgotten(c)'
  BY <1>1, <1>3 DEF IInv, Orderly, Forgotten
<1>7. ASSUME NEW i \in DOMAIN hub'[c] PROVE FromEffect(c, hub[c][i])' /\ Awaited(c, i)'
  BY <1>3, <1>5 DEF IInv, Orderly, FromEffect, Awaited
<1>8. ASSUME NEW t \in groups'[c] PROVE Owed(c, t)'
  <2>1. CASE t = s
    BY <2>1, <1>1, <1>5 DEF Owed, s
  <2>2. CASE t # s
    <3>1. Owed(c, t)
      BY <2>2, <1>4 DEF IInv, Orderly
    <3>2. hub[c][1].method = "Subscribe"
      BY <1>1
    <3> QED BY <3>1, <3>2, <1>3, <1>5 DEF Owed
  <2> QED BY <2>1, <2>2
<1>9. Orderly(c)'
  BY <1>6, <1>7, <1>8 DEF Orderly
<1> QED BY <1>3, <1>4, <1>5, <1>9, OneBrowser

(* Unsubscribe removes it, and has the service left to unregister.         *)
LEMMA RemoveFromGroupKeeps ==
  ASSUME IInv, NEW c \in Clients, RemoveFromGroup(c)
  PROVE  IInv'
<1> DEFINE s == Invocation(c).service
<1>1. /\ hub[c] # << >> /\ hub[c] \in Seq(Invocations) /\ Invocation(c) = hub[c][1]
      /\ hub[c][1] \in Invocations
  BY TailOfHub DEF RemoveFromGroup, Asks, Invocation, IInv, Types
<1>3. groups' = [groups EXCEPT ![c] = @ \ {s}] /\ UNCHANGED <<effects, connection>> /\ NextStep(c)
  BY DEF RemoveFromGroup, browserVars
<1>4. groups' \in [Clients -> SUBSET Services] /\ groups'[c] = groups[c] \ {s}
      /\ \A d \in Clients \ {c} : groups'[d] = groups[d]
  BY <1>3 DEF IInv, Types
<1>s. s = hub[c][1].service
  BY <1>1
<1> HIDE DEF s
<1>5. /\ Types'
      /\ \A d \in Clients \ {c} : hub'[d] = hub[d]
      /\ DOMAIN hub'[c] = DOMAIN hub[c] /\ 1 \in DOMAIN hub[c]
      /\ \A i \in DOMAIN hub[c] :
           /\ hub'[c][i].method = hub[c][i].method
           /\ hub'[c][i].service = hub[c][i].service
           /\ hub'[c][i].effect = hub[c][i].effect
           /\ i # 1 => hub'[c][i] = hub[c][i]
  BY <1>1, <1>3, <1>4, NextStepKeepsTypes DEF IInv
<1>6. Forgotten(c)'
  BY <1>1, <1>3 DEF IInv, Orderly, Forgotten
<1>7. ASSUME NEW i \in DOMAIN hub'[c] PROVE FromEffect(c, hub[c][i])' /\ Awaited(c, i)'
  BY <1>3, <1>5 DEF IInv, Orderly, FromEffect, Awaited
<1>8. ASSUME NEW t \in groups'[c] PROVE Owed(c, t)'
  <2>1. Owed(c, t) /\ t # s
    BY <1>4 DEF IInv, Orderly
  <2> QED BY <2>1, <1>s, <1>3, <1>5 DEF Owed
<1>9. Orderly(c)'
  BY <1>6, <1>7, <1>8 DEF Orderly
<1> QED BY <1>3, <1>4, <1>5, <1>9, OneBrowser

(* An effect in another phase is an effect still.                          *)
LEMMA PhaseType ==
  ASSUME NEW q \in Seq(Effects), NEW e \in DOMAIN q, NEW p \in Phases
  PROVE  /\ [q EXCEPT ![e].phase = p] \in Seq(Effects)
         /\ DOMAIN [q EXCEPT ![e].phase = p] = DOMAIN q
         /\ [q EXCEPT ![e].phase = p][e].phase = p
         /\ \A f \in DOMAIN q :
              /\ [q EXCEPT ![e].phase = p][f].service = q[f].service
              /\ f # e => [q EXCEPT ![e].phase = p][f] = q[f]
<1>1. q[e] \in Effects
  OBVIOUS
<1>2. [q[e] EXCEPT !.phase = p] \in Effects /\ [q[e] EXCEPT !.phase = p].phase = p
      /\ [q[e] EXCEPT !.phase = p].service = q[e].service
  BY <1>1 DEF Effects
<1> DEFINE r == [q[e] EXCEPT !.phase = p]
<1>3. [q EXCEPT ![e].phase = p] = [q EXCEPT ![e] = r]
  OBVIOUS
<1> HIDE DEF r
<1>4. r \in Effects /\ r.phase = p /\ r.service = q[e].service
  BY <1>2 DEF r
<1>5. [q EXCEPT ![e] = r] \in Seq(Effects)
  BY <1>4
<1> QED BY <1>3, <1>4, <1>5

(* One effect of a browser enters another phase.                           *)
LEMMA PhaseChange ==
  ASSUME Types, NEW c \in Clients, NEW e \in DOMAIN effects[c], NEW p \in Phases,
         effects' = [effects EXCEPT ![c][e].phase = p]
  PROVE  /\ effects' \in [Clients -> Seq(Effects)]
         /\ \A d \in Clients \ {c} : effects'[d] = effects[d]
         /\ DOMAIN effects'[c] = DOMAIN effects[c]
         /\ effects'[c][e].phase = p
         /\ \A f \in DOMAIN effects[c] :
              /\ effects'[c][f].service = effects[c][f].service
              /\ f # e => effects'[c][f] = effects[c][f]
<1> DEFINE q == [effects[c] EXCEPT ![e].phase = p]
<1>1. effects' = [effects EXCEPT ![c] = q]
  OBVIOUS
<1>2. /\ q \in Seq(Effects) /\ DOMAIN q = DOMAIN effects[c] /\ q[e].phase = p
      /\ \A f \in DOMAIN effects[c] :
           q[f].service = effects[c][f].service /\ (f # e => q[f] = effects[c][f])
  BY PhaseType, EffectType
<1> HIDE DEF q
<1> QED BY <1>1, <1>2 DEF Types

(* The invocation the hub is at is complete.                               *)
LEMMA HubMovesOn ==
  ASSUME Types, NEW c \in Clients, hub[c] # << >>, hub' = [hub EXCEPT ![c] = Tail(@)]
  PROVE  /\ hub' \in [Clients -> Seq(Invocations)]
         /\ \A d \in Clients \ {c} : hub'[d] = hub[d]
         /\ 1 \in DOMAIN hub[c] /\ Invocation(c) = hub[c][1]
         /\ \A i \in DOMAIN hub'[c] :
              i \in Nat /\ i + 1 \in DOMAIN hub[c] /\ i + 1 # 1 /\ hub'[c][i] = hub[c][i + 1]
         /\ \A i \in DOMAIN hub[c] \ {1} : i - 1 \in DOMAIN hub'[c] /\ hub'[c][i - 1] = hub[c][i]
<1>1. hub[c] \in Seq(Invocations) /\ hub'[c] = Tail(hub[c])
  BY DEF Types
<1>2. hub' \in [Clients -> Seq(Invocations)] /\ \A d \in Clients \ {c} : hub'[d] = hub[d]
  BY <1>1, TailOfHub DEF Types
<1>3. \A i \in DOMAIN hub'[c] : i \in Nat /\ i + 1 # 1
  BY <1>1
<1> QED BY <1>1, <1>2, <1>3, TailOfHub DEF Invocation

(* Unsubscribe is complete: it removed the browser in its first step.      *)
LEMMA UnregisterKeeps ==
  ASSUME IInv, NEW c \in Clients, Unregister(c)
  PROVE  IInv'
<1>1. /\ hub[c] # << >> /\ Invocation(c).method = "Unsubscribe" /\ Invocation(c).step = "register"
      /\ hub' = [hub EXCEPT ![c] = Tail(@)] /\ UNCHANGED <<effects, connection, groups>>
  BY DEF Unregister, Asks, browserVars
<1>2. Types
  BY DEF IInv
<1>3. /\ hub' \in [Clients -> Seq(Invocations)]
      /\ \A d \in Clients \ {c} : hub'[d] = hub[d]
      /\ 1 \in DOMAIN hub[c] /\ Invocation(c) = hub[c][1]
      /\ \A i \in DOMAIN hub'[c] :
           i \in Nat /\ i + 1 \in DOMAIN hub[c] /\ i + 1 # 1 /\ hub'[c][i] = hub[c][i + 1]
      /\ \A i \in DOMAIN hub[c] \ {1} : i - 1 \in DOMAIN hub'[c] /\ hub'[c][i - 1] = hub[c][i]
  BY <1>1, <1>2, HubMovesOn
<1>4. Forgotten(c)'
  BY <1>1 DEF IInv, Orderly, Forgotten
<1>5. ASSUME NEW i \in DOMAIN hub'[c] PROVE FromEffect(c, hub[c][i])' /\ Awaited(c, i)'
  <2>1. FromEffect(c, hub[c][i + 1]) /\ Awaited(c, i + 1)
    BY <1>3 DEF IInv, Orderly
  <2>2. FromEffect(c, hub[c][i])'
    BY <2>1, <1>1, <1>3 DEF FromEffect
  <2>3. \A j \in DOMAIN hub'[c] \ {i} : j + 1 \in DOMAIN hub[c] \ {i + 1} /\ hub'[c][j] = hub[c][j + 1]
    BY <1>3
  <2>4. hub'[c][i] = hub[c][i + 1]
    BY <1>3
  <2>5. Awaited(c, i)'
    BY <2>1, <2>3, <2>4, <1>1 DEF Awaited
  <2> QED BY <2>2, <2>5
<1>6. ASSUME NEW t \in groups'[c] PROVE Owed(c, t)'
  <2>1. Owed(c, t)
    BY <1>1 DEF IInv, Orderly
  <2>2. hub[c][1].method # "Subscribe" /\ hub[c][1].step # "group"
    BY <1>1, <1>3
  <2>3. CASE \E f \in DOMAIN effects[c] : effects[c][f].phase = "active" /\ effects[c][f].service = t
    BY <2>3, <1>1 DEF Owed
  <2>4. ASSUME NEW i \in DOMAIN hub[c], hub[c][i].service = t,
               hub[c][i].method = "Subscribe" \/ hub[c][i].step = "group"
        PROVE  Owed(c, t)'
    <3>1. i - 1 \in DOMAIN hub'[c] /\ hub'[c][i - 1] = hub[c][i]
      BY <2>2, <2>4, <1>3
    <3> QED BY <2>4, <3>1 DEF Owed
  <2> QED BY <2>1, <2>3, <2>4 DEF Owed
<1>7. Types' /\ Orderly(c)'
  BY <1>1, <1>2, <1>3, <1>4, <1>5, <1>6 DEF Types, Orderly
<1> QED BY <1>1, <1>3, <1>7, OneBrowser

(* Subscribe is complete: its effect is active from now on, and is what    *)
(* the browser's place in the group is owed to.                            *)
LEMMA RegisterAndReplyKeeps ==
  ASSUME IInv, NEW c \in Clients, RegisterAndReply(c)
  PROVE  IInv'
<1> DEFINE e == Invocation(c).effect
<1>1. /\ hub[c] # << >> /\ Invocation(c).method = "Subscribe"
      /\ hub' = [hub EXCEPT ![c] = Tail(@)] /\ UNCHANGED <<connection, groups>>
  BY DEF RegisterAndReply, Asks, Completed
<1>2. Types
  BY DEF IInv
<1>3. /\ hub' \in [Clients -> Seq(Invocations)]
      /\ \A d \in Clients \ {c} : hub'[d] = hub[d]
      /\ 1 \in DOMAIN hub[c] /\ Invocation(c) = hub[c][1]
      /\ \A i \in DOMAIN hub'[c] :
           i \in Nat /\ i + 1 \in DOMAIN hub[c] /\ i + 1 # 1 /\ hub'[c][i] = hub[c][i + 1]
      /\ \A i \in DOMAIN hub[c] \ {1} : i - 1 \in DOMAIN hub'[c] /\ hub'[c][i - 1] = hub[c][i]
  BY <1>1, <1>2, HubMovesOn
<1>4. /\ e \in DOMAIN effects[c] /\ effects[c][e].service = hub[c][1].service
      /\ effects[c][e].phase = "subscribing"
      /\ \A j \in DOMAIN hub[c] \ {1} : hub[c][j].method = "Subscribe" => hub[c][j].effect # e
  BY <1>1, <1>3 DEF IInv, Orderly, FromEffect, Awaited
<1>5. effects' = [effects EXCEPT ![c][e].phase = "active"]
  BY <1>4 DEF RegisterAndReply, Completed
<1> HIDE DEF e
<1>6. /\ effects' \in [Clients -> Seq(Effects)]
      /\ \A d \in Clients \ {c} : effects'[d] = effects[d]
      /\ DOMAIN effects'[c] = DOMAIN effects[c]
      /\ effects'[c][e].phase = "active"
      /\ \A f \in DOMAIN effects[c] :
           /\ effects'[c][f].service = effects[c][f].service
           /\ f # e => effects'[c][f] = effects[c][f]
  BY <1>2, <1>4, <1>5, PhaseChange DEF Phases
<1>7. Forgotten(c)'
  BY <1>1 DEF IInv, Orderly, Forgotten
<1>8. ASSUME NEW i \in DOMAIN hub'[c] PROVE FromEffect(c, hub[c][i])' /\ Awaited(c, i)'
  <2>1. FromEffect(c, hub[c][i + 1]) /\ Awaited(c, i + 1)
    BY <1>3 DEF IInv, Orderly
  <2>2. hub'[c][i] = hub[c][i + 1] /\ i + 1 \in DOMAIN hub[c] \ {1}
    BY <1>3
  <2>3. FromEffect(c, hub[c][i])'
    BY <2>1, <2>2, <1>6 DEF FromEffect
  <2>4. \A j \in DOMAIN hub'[c] \ {i} : j + 1 \in DOMAIN hub[c] \ {i + 1} /\ hub'[c][j] = hub[c][j + 1]
    BY <1>3
  <2>5. Awaited(c, i)'
    BY <2>1, <2>2, <2>4, <1>4, <1>6 DEF Awaited, FromEffect
  <2> QED BY <2>3, <2>5
<1>9. ASSUME NEW t \in groups'[c] PROVE Owed(c, t)'
  <2>1. Owed(c, t)
    BY <1>1 DEF IInv, Orderly
  <2>2. CASE t = hub[c][1].service
    BY <2>2, <1>4, <1>6 DEF Owed
  <2>3. CASE t # hub[c][1].service
    <3>1. ASSUME NEW f \in DOMAIN effects[c], effects[c][f].phase = "active", effects[c][f].service = t
          PROVE  Owed(c, t)'
      <4>1. effects'[c][f] = effects[c][f]
        BY <3>1, <1>4, <1>6
      <4> QED BY <3>1, <4>1, <1>6 DEF Owed
    <3>2. ASSUME NEW i \in DOMAIN hub[c], hub[c][i].service = t,
                 hub[c][i].method = "Subscribe" \/ hub[c][i].step = "group"
          PROVE  Owed(c, t)'
      <4>1. i - 1 \in DOMAIN hub'[c] /\ hub'[c][i - 1] = hub[c][i]
        BY <2>3, <3>2, <1>3
      <4> QED BY <3>2, <4>1 DEF Owed
    <3> QED BY <2>1, <3>1, <3>2 DEF Owed
  <2> QED BY <2>2, <2>3
<1>10. Types' /\ Orderly(c)'
  BY <1>1, <1>2, <1>3, <1>6, <1>7, <1>8, <1>9 DEF Types, Orderly
<1> QED BY <1>1, <1>3, <1>6, <1>10, OneBrowser
-----------------------------------------------------------------------------
(* A browser without invocations and groups is in order.                   *)
LEMMA NothingIsOrderly ==
  ASSUME NEW c \in Clients, hub'[c] = << >>, groups'[c] = {}
  PROVE  Orderly(c)'
BY DEF Orderly, Forgotten

(* One that is not connected has neither.                                  *)
LEMMA NotConnected ==
  ASSUME IInv, NEW c \in Clients, connection[c] # "connected"
  PROVE  hub[c] = << >> /\ groups[c] = {}
BY DEF IInv, Orderly, Forgotten

(* A browser invokes a method of the hub.                                  *)
LEMMA Invokes ==
  ASSUME Types, NEW c \in Clients, NEW m \in {"Subscribe", "Unsubscribe"},
         NEW e \in DOMAIN effects[c], invoke(c, m, effects[c][e].service, e)
  PROVE  LET n == Len(hub[c]) + 1 IN
         /\ hub' \in [Clients -> Seq(Invocations)]
         /\ \A d \in Clients \ {c} : hub'[d] = hub[d]
         /\ DOMAIN hub'[c] = DOMAIN hub[c] \cup {n} /\ n \notin DOMAIN hub[c]
         /\ \A i \in DOMAIN hub[c] : hub'[c][i] = hub[c][i]
         /\ hub'[c][n] = [method |-> m, service |-> effects[c][e].service, effect |-> e,
                          step |-> "group"]
<1> DEFINE v == [method |-> m, service |-> effects[c][e].service, effect |-> e, step |-> "group"]
<1>1. effects[c][e] \in Effects /\ e \in Nat
  BY EffectType
<1>2. v \in Invocations
  BY <1>1 DEF Effects, Invocations
<1>3. hub[c] \in Seq(Invocations) /\ hub' = [hub EXCEPT ![c] = Append(hub[c], v)]
  BY DEF Types, invoke
<1> HIDE DEF v
<1>4. Append(hub[c], v) \in Seq(Invocations) /\ hub'[c] = Append(hub[c], v)
  BY <1>2, <1>3, AppendToHub DEF Types
<1>5. hub' \in [Clients -> Seq(Invocations)] /\ \A d \in Clients \ {c} : hub'[d] = hub[d]
  BY <1>3, <1>4 DEF Types
<1> QED BY <1>2, <1>3, <1>4, <1>5, AppendToHub DEF v

(* An effect that was not subscribed invokes Subscribe.                    *)
LEMMA SubscribeKeeps ==
  ASSUME IInv, NEW c \in Clients, NEW e \in DOMAIN effects[c],
         effects[c][e].phase \in {"starting", "connecting"},
         effects' = [effects EXCEPT ![c][e].phase = "subscribing"],
         invoke(c, "Subscribe", effects[c][e].service, e),
         groups' = groups,
         connection' = [connection EXCEPT ![c] = "connected"]
  PROVE  IInv'
<1> DEFINE n == Len(hub[c]) + 1
           s == effects[c][e].service
<1>1. Types
  BY DEF IInv
<1>2. /\ hub' \in [Clients -> Seq(Invocations)]
      /\ \A d \in Clients \ {c} : hub'[d] = hub[d]
      /\ DOMAIN hub'[c] = DOMAIN hub[c] \cup {n} /\ n \notin DOMAIN hub[c]
      /\ \A i \in DOMAIN hub[c] : hub'[c][i] = hub[c][i]
      /\ hub'[c][n] = [method |-> "Subscribe", service |-> s, effect |-> e, step |-> "group"]
  BY SMTT(30), <1>1, Invokes
<1>3. /\ effects' \in [Clients -> Seq(Effects)]
      /\ \A d \in Clients \ {c} : effects'[d] = effects[d]
      /\ DOMAIN effects'[c] = DOMAIN effects[c]
      /\ effects'[c][e].phase = "subscribing"
      /\ \A f \in DOMAIN effects[c] :
           /\ effects'[c][f].service = effects[c][f].service
           /\ f # e => effects'[c][f] = effects[c][f]
  BY <1>1, PhaseChange DEF Phases
<1>4. connection' \in [Clients -> {"none", "connecting", "connected", "reconnecting", "closed"}]
      /\ connection'[c] = "connected" /\ \A d \in Clients \ {c} : connection'[d] = connection[d]
  BY <1>1 DEF Types
<1> HIDE DEF n, s
<1>5. \A i \in DOMAIN hub[c] :
        /\ FromEffect(c, hub[c][i]) /\ Awaited(c, i)
        /\ hub[c][i].method = "Subscribe" => hub[c][i].effect # e
  BY DEF IInv, Orderly, Awaited
<1>6. ASSUME NEW i \in DOMAIN hub'[c] PROVE FromEffect(c, hub[c][i])' /\ Awaited(c, i)'
  <2>1. CASE i = n
    BY <2>1, <1>2, <1>3, <1>5 DEF FromEffect, Awaited, s
  <2>2. CASE i \in DOMAIN hub[c]
    <3>1. FromEffect(c, hub[c][i])'
      BY <2>2, <1>2, <1>3, <1>5 DEF FromEffect
    <3>2. Awaited(c, i)'
      BY <2>2, <1>2, <1>3, <1>5 DEF FromEffect, Awaited
    <3> QED BY <3>1, <3>2
  <2> QED BY <2>1, <2>2, <1>2
<1>7. ASSUME NEW t \in groups'[c] PROVE Owed(c, t)'
  <2>1. Owed(c, t)
    BY DEF IInv, Orderly
  <2>2. ASSUME NEW f \in DOMAIN effects[c], effects[c][f].phase = "active", effects[c][f].service = t
        PROVE  Owed(c, t)'
    <3>1. effects'[c][f] = effects[c][f]
      BY <2>2, <1>3
    <3> QED BY <2>2, <3>1, <1>3 DEF Owed
  <2>3. ASSUME NEW i \in DOMAIN hub[c], hub[c][i].service = t,
               hub[c][i].method = "Subscribe" \/ hub[c][i].step = "group"
        PROVE  Owed(c, t)'
    BY <2>3, <1>2 DEF Owed
  <2> QED BY <2>1, <2>2, <2>3 DEF Owed
<1>8. Types' /\ Orderly(c)'
  BY <1>1, <1>2, <1>3, <1>4, <1>6, <1>7 DEF Types, Orderly, Forgotten
<1> QED BY <1>2, <1>3, <1>4, <1>8, OneBrowser

(* An active effect is cleaned up: it invokes Unsubscribe if it can.       *)
LEMMA CleanupKeeps ==
  ASSUME IInv, NEW c \in Clients, NEW e \in DOMAIN effects[c], cleanup(c, e)
  PROVE  IInv'
<1> DEFINE n == Len(hub[c]) + 1
           s == effects[c][e].service
<1>1. Types /\ UNCHANGED <<groups, connection>> /\ effects[c][e].phase = "active"
  BY DEF IInv, cleanup, hubVars
<1>2. effects' = [effects EXCEPT ![c][e].phase = "done"]
  BY SMTT(30) DEF cleanup
<1>3. /\ effects' \in [Clients -> Seq(Effects)]
      /\ \A d \in Clients \ {c} : effects'[d] = effects[d]
      /\ DOMAIN effects'[c] = DOMAIN effects[c]
      /\ \A f \in DOMAIN effects[c] :
           /\ effects'[c][f].service = effects[c][f].service
           /\ f # e => effects'[c][f] = effects[c][f]
  BY <1>1, <1>2, PhaseChange DEF Phases
<1>4. CASE connection[c] # "connected"
  <2>1. hub' = hub
    BY <1>4 DEF cleanup
  <2>2. Types' /\ Orderly(c)'
    BY <1>1, <1>3, <1>4, <2>1, NotConnected, NothingIsOrderly DEF Types
  <2> QED BY <1>1, <1>3, <2>1, <2>2, OneBrowser
<1>5. CASE connection[c] = "connected"
  <2>1. invoke(c, "Unsubscribe", effects[c][e].service, e)
    BY <1>5 DEF cleanup
  <2>2. /\ hub' \in [Clients -> Seq(Invocations)]
        /\ \A d \in Clients \ {c} : hub'[d] = hub[d]
        /\ DOMAIN hub'[c] = DOMAIN hub[c] \cup {n} /\ n \notin DOMAIN hub[c]
        /\ \A i \in DOMAIN hub[c] : hub'[c][i] = hub[c][i]
        /\ hub'[c][n] = [method |-> "Unsubscribe", service |-> s, effect |-> e, step |-> "group"]
    BY <1>1, <2>1, Invokes
  <2> HIDE DEF n, s
  <2>3. \A i \in DOMAIN hub[c] :
          /\ FromEffect(c, hub[c][i]) /\ Awaited(c, i)
          /\ hub[c][i].method = "Subscribe" => hub[c][i].effect # e
    BY <1>1 DEF IInv, Orderly, Awaited
  <2>4. ASSUME NEW i \in DOMAIN hub'[c] PROVE FromEffect(c, hub[c][i])' /\ Awaited(c, i)'
    <3>1. CASE i = n
      BY <3>1, <1>3, <2>2 DEF FromEffect, Awaited, s
    <3>2. CASE i \in DOMAIN hub[c]
      <4>1. FromEffect(c, hub[c][i])'
        <5>1. FromEffect(c, hub[c][i]) /\ hub'[c][i] = hub[c][i]
          BY <3>2, <2>2, <2>3
        <5> QED BY <5>1, <1>3 DEF FromEffect
      <4>2. Awaited(c, i)'
        BY <3>2, <1>3, <2>2, <2>3 DEF FromEffect, Awaited
      <4> QED BY <4>1, <4>2
    <3> QED BY <3>1, <3>2, <2>2
  <2>5. ASSUME NEW t \in groups'[c] PROVE Owed(c, t)'
    <3>1. Owed(c, t)
      BY <1>1 DEF IInv, Orderly
    <3>2. ASSUME NEW f \in DOMAIN effects[c], effects[c][f].phase = "active", effects[c][f].service = t
          PROVE  Owed(c, t)'
      <4>1. CASE f = e
        BY SMTT(30), <3>2, <4>1, <2>2 DEF Owed, s
      <4>2. CASE f # e
        <5>1. effects'[c][f] = effects[c][f]
          BY <4>2, <1>3
        <5> QED BY <3>2, <5>1, <1>3 DEF Owed
      <4> QED BY <4>1, <4>2
    <3>3. ASSUME NEW i \in DOMAIN hub[c], hub[c][i].service = t,
                 hub[c][i].method = "Subscribe" \/ hub[c][i].step = "group"
          PROVE  Owed(c, t)'
      BY <3>3, <2>2 DEF Owed
    <3> QED BY <3>1, <3>2, <3>3 DEF Owed
  <2>6. Types' /\ Orderly(c)'
    BY <1>1, <1>3, <1>5, <2>2, <2>4, <2>5 DEF Types, Orderly, Forgotten
  <2> QED BY <1>1, <1>3, <2>2, <2>6, OneBrowser
<1> QED BY <1>4, <1>5

(* The phases and services of the effects stay, there may be one more.     *)
LEMMA PagesKeep ==
  ASSUME IInv, NEW c \in Clients, effects' \in [Clients -> Seq(Effects)],
         UNCHANGED <<hub, groups, connection>>,
         \A d \in Clients \ {c} : effects'[d] = effects[d],
         \A e \in DOMAIN effects[c] :
           /\ e \in DOMAIN effects'[c]
           /\ effects'[c][e].phase = effects[c][e].phase
           /\ effects'[c][e].service = effects[c][e].service
  PROVE  IInv'
<1>1. Types'
  BY DEF IInv, Types
<1>2. Orderly(c)
  BY DEF IInv
<1>3. Forgotten(c)'
  BY <1>2 DEF Orderly, Forgotten
<1>4. ASSUME NEW i \in DOMAIN hub'[c] PROVE FromEffect(c, hub[c][i])' /\ Awaited(c, i)'
  BY <1>2 DEF Orderly, FromEffect, Awaited
<1>5. ASSUME NEW t \in groups'[c] PROVE Owed(c, t)'
  BY ZenonT(60), <1>2 DEF Orderly, Owed
<1>6. Orderly(c)'
  BY <1>3, <1>4, <1>5 DEF Orderly
<1> QED BY <1>1, <1>6, OneBrowser

(* What a browser that is not connected does to its connection.            *)
LEMMA ConnectionKeeps ==
  ASSUME IInv, NEW c \in Clients, connection[c] # "connected",
         NEW x \in {"none", "connecting", "connected", "reconnecting", "closed"},
         connection' = [connection EXCEPT ![c] = x],
         UNCHANGED <<hub, groups>>,
         effects' \in [Clients -> Seq(Effects)],
         \A d \in Clients \ {c} : effects'[d] = effects[d]
  PROVE  IInv'
<1>1. Types' /\ \A d \in Clients \ {c} : connection'[d] = connection[d]
  BY DEF IInv, Types
<1>2. Orderly(c)'
  BY NotConnected, NothingIsOrderly
<1> QED BY <1>1, <1>2, OneBrowser

(* A page whose effect is cleaned up.                                      *)
LEMMA CleanedType ==
  ASSUME Types, NEW c \in Clients, Open(c)
  PROVE  /\ Cleaned(c) \in Seq(Effects) /\ DOMAIN Cleaned(c) = DOMAIN effects[c]
         /\ \A e \in DOMAIN effects[c] :
              Cleaned(c)[e].phase = effects[c][e].phase /\ Cleaned(c)[e].service = effects[c][e].service
         /\ Current(c) \in Effects
<1> DEFINE n == Len(effects[c])
           r == [effects[c][n] EXCEPT !.cleaned = TRUE]
<1>1. effects[c] \in Seq(Effects) /\ effects[c] # << >>
  BY EffectType DEF Open
<1>2. n \in DOMAIN effects[c] /\ effects[c][n] \in Effects
  BY <1>1
<1>3. r \in Effects /\ r.phase = effects[c][n].phase /\ r.service = effects[c][n].service
  BY <1>2 DEF Effects
<1>4. Cleaned(c) = [effects[c] EXCEPT ![n] = r]
  BY DEF Cleaned
<1>5. Current(c) = effects[c][n]
  BY <1>1 DEF Current, Last
<1> HIDE DEF n, r
<1>6. Cleaned(c) \in Seq(Effects)
  BY <1>1, <1>2, <1>3, <1>4
<1> QED BY <1>1, <1>2, <1>3, <1>4, <1>5, <1>6

(* A page is left: its effect is going to be cleaned up.                   *)
LEMMA handleBackClickKeeps ==
  ASSUME IInv, NEW c \in Clients, handleBackClick(c)
  PROVE  IInv'
<1>1. Types /\ Open(c) /\ effects' = [effects EXCEPT ![c] = Cleaned(c)]
      /\ UNCHANGED <<hub, groups, connection>>
  BY DEF handleBackClick, hubVars, IInv
<1>2. effects' \in [Clients -> Seq(Effects)] /\ effects'[c] = Cleaned(c)
      /\ \A d \in Clients \ {c} : effects'[d] = effects[d]
  BY <1>1, CleanedType DEF Types
<1> QED BY <1>1, <1>2, CleanedType, PagesKeep

(* One more effect, in the types.                                          *)
LEMMA NewEffect ==
  ASSUME NEW q \in Seq(Effects), NEW x \in Effects
  PROVE  /\ Append(q, x) \in Seq(Effects)
         /\ \A e \in DOMAIN q : e \in DOMAIN Append(q, x) /\ Append(q, x)[e] = q[e]
OBVIOUS

(* A page is paused: its effect goes, and there is another.                *)
LEMMA handleTogglePauseKeeps ==
  ASSUME IInv, NEW c \in Clients, handleTogglePause(c)
  PROVE  IInv'
<1> DEFINE x == Effect(Current(c).service, ~Current(c).paused)
<1>1. Types /\ Open(c) /\ effects' = [effects EXCEPT ![c] = Append(Cleaned(c), x)]
      /\ UNCHANGED <<hub, groups, connection>>
  BY DEF handleTogglePause, hubVars, IInv
<1>2. x \in Effects
  BY <1>1, CleanedType DEF Effect, Effects, Phases
<1> HIDE DEF x
<1>3. Append(Cleaned(c), x) \in Seq(Effects)
      /\ \A e \in DOMAIN Cleaned(c) :
           e \in DOMAIN Append(Cleaned(c), x) /\ Append(Cleaned(c), x)[e] = Cleaned(c)[e]
  BY <1>1, <1>2, CleanedType, NewEffect
<1>4. effects' \in [Clients -> Seq(Effects)] /\ effects'[c] = Append(Cleaned(c), x)
      /\ \A d \in Clients \ {c} : effects'[d] = effects[d]
  BY <1>1, <1>3 DEF Types
<1>5. \A e \in DOMAIN effects[c] :
        /\ e \in DOMAIN effects'[c]
        /\ effects'[c][e].phase = effects[c][e].phase
        /\ effects'[c][e].service = effects[c][e].service
  BY <1>1, <1>3, <1>4, CleanedType
<1> QED BY <1>1, <1>4, <1>5, PagesKeep

(* A page is opened.                                                       *)
LEMMA openServiceDetailKeeps ==
  ASSUME IInv, NEW c \in Clients, NEW s \in Services, openServiceDetail(c, s)
  PROVE  IInv'
<1>1. Types /\ effects' = [effects EXCEPT ![c] = Append(effects[c], Effect(s, FALSE))]
      /\ UNCHANGED <<hub, groups, connection>>
  BY DEF openServiceDetail, hubVars, IInv
<1>2. Effect(s, FALSE) \in Effects
  BY DEF Effect, Effects, Phases
<1>3. effects[c] \in Seq(Effects)
  BY <1>1 DEF Types
<1>4. effects' \in [Clients -> Seq(Effects)] /\ effects'[c] = Append(effects[c], Effect(s, FALSE))
      /\ \A d \in Clients \ {c} : effects'[d] = effects[d]
  BY <1>1, <1>2, <1>3, NewEffect DEF Types
<1>5. \A e \in DOMAIN effects[c] :
        e \in DOMAIN effects'[c] /\ effects'[c][e] = effects[c][e]
  BY <1>2, <1>3, <1>4, NewEffect
<1> QED BY <1>1, <1>4, <1>5, PagesKeep

(* Effects that fail are effects still.                                    *)
LEMMA FailType ==
  ASSUME Types, NEW c \in Clients, NEW p, Fail(c, p)
  PROVE  effects' \in [Clients -> Seq(Effects)]
         /\ \A d \in Clients \ {c} : effects'[d] = effects[d]
<1> DEFINE failed(e) == IF effects[c][e].phase = p THEN [effects[c][e] EXCEPT !.phase = "failed"]
                        ELSE effects[c][e]
           q == [e \in DOMAIN effects[c] |-> failed(e)]
<1>1. \A e \in DOMAIN effects[c] : failed(e) \in Effects
  BY EffectType DEF Effects, Phases
<1>2. effects' = [effects EXCEPT ![c] = q]
  BY DEF Fail
<1> HIDE DEF failed
<1>3. q \in Seq(Effects)
  BY <1>1, EffectType
<1> HIDE DEF q
<1> QED BY <1>2, <1>3 DEF Types

(* A lost connection takes along the invocations and the groups.           *)
LEMMA connectionLostKeeps ==
  ASSUME IInv, NEW c \in Clients, connectionLost(c)
  PROVE  IInv'
<1>1. /\ Types /\ Fail(c, "subscribing")
      /\ connection' = [connection EXCEPT ![c] = "reconnecting"]
      /\ groups' = [groups EXCEPT ![c] = {}] /\ hub' = [hub EXCEPT ![c] = << >>]
  BY DEF connectionLost, IInv
<1>2. << >> \in Seq(Invocations)
  OBVIOUS
<1>3. Types' /\ hub'[c] = << >> /\ groups'[c] = {}
  BY <1>1, <1>2, FailType DEF Types
<1>4. \A d \in Clients \ {c} :
        hub'[d] = hub[d] /\ groups'[d] = groups[d] /\ connection'[d] = connection[d]
  BY <1>1 DEF Types
<1> QED BY <1>1, <1>3, <1>4, FailType, NothingIsOrderly, OneBrowser

(* A new connection begins with nothing.                                   *)
LEMMA connectionStartsKeeps ==
  ASSUME IInv, NEW c \in Clients, connectionStarts(c)
  PROVE  IInv'
<1>1. /\ Types /\ connection[c] = "connecting" /\ groups' = groups
      /\ connection' = [connection EXCEPT ![c] = "connected"]
  BY DEF connectionStarts, hubVars, IInv
<1>2. CASE Awaiting(c) = {}
  <2>1. UNCHANGED <<effects, hub>>
    BY <1>2 DEF connectionStarts
  <2> QED BY <1>1, <2>1, ConnectionKeeps DEF Types
<1>3. CASE Awaiting(c) # {}
  <2>1. PICK e \in Awaiting(c) :
          /\ effects' = [effects EXCEPT ![c][e].phase = "subscribing"]
          /\ invoke(c, "Subscribe", effects[c][e].service, e)
    BY <1>3 DEF connectionStarts
  <2>2. e \in DOMAIN effects[c] /\ effects[c][e].phase = "connecting"
    BY DEF Awaiting
  <2> QED BY <1>1, <2>1, <2>2, SubscribeKeeps
<1> QED BY <1>2, <1>3

(* An effect begins to subscribe, or finds no connection.                  *)
LEMMA setupSubscriptionKeeps ==
  ASSUME IInv, NEW c \in Clients, NEW e \in DOMAIN effects[c], setupSubscription(c, e)
  PROVE  IInv'
<1>1. Types /\ groups' = groups /\ effects[c][e].phase = "starting"
  BY DEF setupSubscription, hubVars, IInv
<1>2. CASE /\ connection[c] = "none"
           /\ connection' = [connection EXCEPT ![c] = "connecting"]
           /\ effects' = [effects EXCEPT ![c][e].phase = "connecting"]
           /\ UNCHANGED hub
  <2>1. effects' \in [Clients -> Seq(Effects)] /\ \A d \in Clients \ {c} : effects'[d] = effects[d]
    BY <1>1, <1>2, PhaseChange DEF Phases
  <2> QED BY <1>1, <1>2, <2>1, ConnectionKeeps
<1>3. CASE /\ connection[c] = "connected"
           /\ effects' = [effects EXCEPT ![c][e].phase = "subscribing"]
           /\ invoke(c, "Subscribe", effects[c][e].service, e)
           /\ UNCHANGED connection
  <2>1. connection' = [connection EXCEPT ![c] = "connected"]
    BY <1>1, <1>3 DEF Types
  <2> QED BY <1>1, <1>3, <2>1, SubscribeKeeps
<1>4. CASE /\ connection[c] \in {"connecting", "reconnecting", "closed"}
           /\ effects' = [effects EXCEPT ![c][e].phase = "failed"]
           /\ UNCHANGED <<connection, hub>>
  <2>1. effects' \in [Clients -> Seq(Effects)] /\ \A d \in Clients \ {c} : effects'[d] = effects[d]
    BY <1>1, <1>4, PhaseChange DEF Phases
  <2>2. connection' = [connection EXCEPT ![c] = connection[c]]
    BY <1>1, <1>4 DEF Types
  <2> QED BY <1>1, <1>4, <2>1, <2>2, ConnectionKeeps
<1> QED BY <1>2, <1>3, <1>4 DEF setupSubscription

(* Those that open, fail to open or reopen a connection.                   *)
LEMMA ConnectingKeeps ==
  ASSUME IInv, NEW c \in Clients, openDashboard(c) \/ connectionFails(c) \/ onreconnected(c)
  PROVE  IInv'
<1>1. Types
  BY DEF IInv
<1>2. CASE openDashboard(c)
  BY <1>1, <1>2, ConnectionKeeps DEF openDashboard, hubVars, Types
<1>3. CASE connectionFails(c)
  <2>1. effects' \in [Clients -> Seq(Effects)] /\ \A d \in Clients \ {c} : effects'[d] = effects[d]
    BY <1>1, <1>3, FailType DEF connectionFails
  <2> QED BY <1>3, <2>1, ConnectionKeeps DEF connectionFails, hubVars
<1>4. CASE onreconnected(c)
  <2>1. UNCHANGED <<hub, groups, effects>> /\ connection[c] # "connected"
        /\ \E x \in {"connected", "closed"} : connection' = [connection EXCEPT ![c] = x]
    BY <1>4 DEF onreconnected, hubVars
  <2> QED BY <1>1, <2>1, ConnectionKeeps DEF Types
<1> QED BY <1>2, <1>3, <1>4

(* What happens at the gateways and in the broadcast timer.                *)
LEMMA OthersKeep ==
  ASSUME IInv, UNCHANGED <<hub, groups, connection, effects>>
  PROVE  IInv'
BY Elsewhere DEF IInv, Types
-----------------------------------------------------------------------------
LEMMA Initially == Init => IInv
<1> SUFFICES ASSUME Init PROVE IInv
  OBVIOUS
<1>1. << >> \in Seq(Invocations) /\ << >> \in Seq(Effects)
  OBVIOUS
<1>2. Types
  BY <1>1 DEF Init, Types
<1>3. \A c \in Clients : Orderly(c)
  BY DEF Init, Orderly, Forgotten
<1> QED BY <1>2, <1>3 DEF IInv

(* Every step is one of those above.                                       *)
LEMMA Inductive == IInv /\ [Next]_vars => IInv'
<1> SUFFICES ASSUME IInv, [Next]_vars PROVE IInv'
  OBVIOUS
<1>1. CASE UNCHANGED vars
  BY <1>1, OthersKeep DEF vars, hubVars, browserVars
<1>2. CASE Event
  <2>1. CASE (\E r \in Reporters, x \in Subjects : add(r, x))
             \/ (\E g \in Gateways : onCoordinatorConnectionNotification(g))
    BY <2>1, OthersKeep DEF add, onCoordinatorConnectionNotification, hubVars, browserVars
  <2>2. ASSUME NEW c \in Clients,
               \/ openDashboard(c) \/ handleBackClick(c) \/ handleTogglePause(c)
               \/ connectionFails(c) \/ connectionLost(c)
               \/ \E s \in Services : openServiceDetail(c, s)
        PROVE  IInv'
    BY <2>2, ConnectingKeeps, handleBackClickKeeps, handleTogglePauseKeeps,
       connectionLostKeeps, openServiceDetailKeeps
  <2> QED BY <1>2, <2>1, <2>2 DEF Event
<1>3. ASSUME NEW g \in Gateways, GatewayStep(g)
      PROVE  IInv'
  BY <1>3, OthersKeep DEF GatewayStep, onStatsTimer, onStatsMessage, hubVars, browserVars
<1>4. ASSUME NEW s \in Services, Tick(s)
      PROVE  IInv'
  BY <1>4, OthersKeep DEF Tick, broadcastServiceOverviews, broadcastServiceDetails, hubVars,
                          browserVars
<1>5. ASSUME NEW c \in Clients, HubStep(c)
      PROVE  IInv'
  BY <1>5, AddToGroupKeeps, RegisterAndReplyKeeps, RemoveFromGroupKeeps, UnregisterKeeps
     DEF HubStep
<1>6. ASSUME NEW c \in Clients, BrowserStep(c)
      PROVE  IInv'
  BY <1>6, connectionStartsKeeps, setupSubscriptionKeeps, CleanupKeeps DEF BrowserStep
<1>7. ASSUME NEW c \in Clients, Reconnect(c)
      PROVE  IInv'
  BY <1>7, ConnectingKeeps DEF Reconnect
<1> QED BY <1>1, <1>2, <1>3, <1>4, <1>5, <1>6, <1>7 DEF Next

(***************************************************************************)
(* Whatever browsers, pages, services and losses of connections there are, *)
(* a browser that has nothing under way and no subscribed page is in no    *)
(* group of the hub.                                                       *)
(***************************************************************************)
THEOREM EverySubscriptionIsUndone == Spec => []NothingLeftBehind
<1>1. Init => IInv
  BY Initially
<1>2. IInv /\ [Next]_vars => IInv'
  BY Inductive
<1>3. IInv => NothingLeftBehind
  BY DEF IInv, Orderly, Owed, NothingLeftBehind
<1> QED BY <1>1, <1>2, <1>3, PTL DEF Spec
-----------------------------------------------------------------------------
(* A set of numbers that has no least element is empty.                    *)
LEMMA LeastNumber ==
  ASSUME NEW X, X \subseteq Nat, X # {}
  PROVE  \E k \in X : \A j \in X : k <= j
<1>1. PICK k \in X : \A j \in X : ~ (<<j, k>> \in OpToRel(<, Nat))
  BY WFMin, NatLessThanWellFounded
<1>2. \A j \in X : ~ (j < k)
  BY <1>1 DEF OpToRel
<1> QED BY <1>2

(* A fold over a finite set is defined, whatever order it takes.           *)
Folds(g, D, V, base, next, St) ==
  /\ g \in [SUBSET D -> V]
  /\ \A s \in SUBSET D : g[s] = IF s = {} THEN base ELSE St[<<next[s], g[s \ {next[s]}]>>]

LEMMA FoldIsDefined ==
  ASSUME NEW D, IsFiniteSet(D), NEW V, NEW base \in V,
         NEW next, \A s \in SUBSET D : s # {} => next[s] \in s,
         NEW St \in [D \X V -> V]
  PROVE  \E g : Folds(g, D, V, base, next, St)
<1> DEFINE Small(k) == {s \in SUBSET D : Cardinality(s) <= k}
           Rule(g, s) == IF s = {} THEN base ELSE St[<<next[s], g[s \ {next[s]}]>>]
           Works(g, k) == g \in [Small(k) -> V] /\ \A s \in Small(k) : g[s] = Rule(g, s)
           bad == {k \in Nat : ~ \E g : Works(g, k)}
<1>1. \A s \in SUBSET D : IsFiniteSet(s) /\ Cardinality(s) \in Nat
  BY FS_Subset, FS_CardinalityType
<1>2. bad = {}
  <2> SUFFICES ASSUME bad # {} PROVE FALSE
    OBVIOUS
  <2>1. PICK k \in bad : \A j \in bad : k <= j
    <3> bad \subseteq Nat
      OBVIOUS
    <3> HIDE DEF bad
    <3> QED BY LeastNumber
  <2>2. k \in Nat /\ ~ \E g : Works(g, k)
    OBVIOUS
  <2>3. CASE k = 0
    <3> DEFINE g == [s \in Small(0) |-> base]
    <3>1. Small(0) \subseteq {{}}
      BY <1>1, FS_EmptySet
    <3>2. Works(g, 0)
      BY <3>1
    <3> QED BY <2>2, <2>3, <3>2
  <2>4. CASE k # 0
    <3>1. k - 1 \in Nat /\ k - 1 \notin bad
      <4>1. k - 1 \in Nat /\ ~ (k <= k - 1)
        BY <2>2, <2>4
      <4> HIDE DEF bad
      <4> QED BY <2>1, <4>1
    <3>2. PICK f : Works(f, k - 1)
      BY <3>1
    <3> DEFINE g == [s \in Small(k) |-> Rule(f, s)]
    <3>3. \A s \in Small(k) : s # {} => s \ {next[s]} \in Small(k - 1) /\ s \ {next[s]} \in Small(k)
      <4> SUFFICES ASSUME NEW s \in Small(k), s # {}
                   PROVE  s \ {next[s]} \in Small(k - 1) /\ s \ {next[s]} \in Small(k)
        OBVIOUS
      <4>1. Cardinality(s \ {next[s]}) = Cardinality(s) - 1
        BY <1>1, FS_RemoveElement
      <4> QED BY <1>1, <2>2, <4>1
    <3>4. g \in [Small(k) -> V]
      <4> SUFFICES ASSUME NEW s \in Small(k) PROVE Rule(f, s) \in V
        OBVIOUS
      <4>1. CASE s = {}
        BY <4>1
      <4>2. CASE s # {}
        <5>1. next[s] \in D /\ f[s \ {next[s]}] \in V
          BY <3>2, <3>3, <4>2
        <5> QED BY <4>2, <5>1
      <4> QED BY <4>1, <4>2
    <3>5. \A s \in Small(k) : g[s] = Rule(g, s)
      <4> SUFFICES ASSUME NEW s \in Small(k), s # {} PROVE f[s \ {next[s]}] = g[s \ {next[s]}]
        OBVIOUS
      <4> DEFINE t == s \ {next[s]}
      <4>1. t \in Small(k - 1) /\ t \in Small(k)
        BY <3>3
      <4>2. f[t] = Rule(f, t)
        BY <3>2, <4>1
      <4>3. g[t] = Rule(f, t)
        BY <4>1
      <4> QED BY <4>2, <4>3
    <3> QED BY <2>2, <3>4, <3>5
  <2> QED BY <2>3, <2>4
<1>3. Cardinality(D) \in Nat /\ \A s \in SUBSET D : Cardinality(s) <= Cardinality(D)
  BY FS_Subset, FS_CardinalityType
<1>4. PICK g : Works(g, Cardinality(D))
  BY <1>2, <1>3
<1>5. Small(Cardinality(D)) = SUBSET D
  BY <1>3
<1> QED BY <1>4, <1>5 DEF Folds

(* Of some subsets of a finite set one is smallest: what holds of a set    *)
(* if it holds of those with one element less holds of all.                *)
LEMMA SmallestSet ==
  ASSUME NEW D, IsFiniteSet(D), NEW bad, bad \subseteq SUBSET D, bad # {}
  PROVE  \E s \in bad : \A x \in s : s \ {x} \notin bad
<1> DEFINE X == {Cardinality(s) : s \in bad}
<1>1. \A s \in bad : IsFiniteSet(s) /\ Cardinality(s) \in Nat
  BY FS_Subset, FS_CardinalityType
<1>2. X \subseteq Nat /\ X # {}
  BY <1>1
<1>3. PICK k \in X : \A j \in X : k <= j
  <2> HIDE DEF X
  <2> QED BY <1>2, LeastNumber
<1>4. PICK s \in bad : Cardinality(s) = k
  OBVIOUS
<1>5. ASSUME NEW x \in s, s \ {x} \in bad PROVE FALSE
  <2>1. Cardinality(s \ {x}) = Cardinality(s) - 1
    BY <1>1, FS_RemoveElement
  <2>2. Cardinality(s \ {x}) \in X /\ Cardinality(s) \in Nat
    BY <1>1, <1>5
  <2> QED BY <1>3, <1>4, <2>1, <2>2
<1> QED BY <1>5

(* Numbers that can be added up.                                           *)
Numbers(f, D) == IsFiniteSet(D) /\ \A x \in D : f[x] \in Nat

(* The sums over the subsets of D, as the fold takes them.                 *)
AddsUp(g, f, D) ==
  \A s \in SUBSET D :
    g[s] = IF s = {} THEN 0 ELSE f[CHOOSE x \in s : TRUE] + g[s \ {CHOOSE x \in s : TRUE}]

Sums(g, f, D) == g \in [SUBSET D -> Nat] /\ AddsUp(g, f, D)

LEMMA SumsExist ==
  ASSUME NEW f, NEW D, Numbers(f, D)
  PROVE  \E g : Sums(g, f, D)
<1> DEFINE next == [s \in SUBSET D |-> CHOOSE x \in s : TRUE]
           St == [p \in D \X Nat |-> f[p[1]] + p[2]]
<1>1. IsFiniteSet(D) /\ \A x \in D : f[x] \in Nat
  BY DEF Numbers
<1>2. \A s \in SUBSET D : s # {} => next[s] \in s /\ next[s] = CHOOSE x \in s : TRUE
  OBVIOUS
<1>3. St \in [D \X Nat -> Nat] /\ \A x \in D, n \in Nat : St[<<x, n>>] = f[x] + n
  BY <1>1
<1>4. PICK g : Folds(g, D, Nat, 0, next, St)
  <2> HIDE DEF next, St
  <2> QED BY <1>1, <1>2, <1>3, FoldIsDefined
<1>5. ASSUME NEW s \in SUBSET D, s # {}
      PROVE  g[s] = f[CHOOSE x \in s : TRUE] + g[s \ {CHOOSE x \in s : TRUE}]
  <2>1. g[s] = St[<<next[s], g[s \ {next[s]}]>>] /\ g[s \ {next[s]}] \in Nat
    BY <1>4, <1>5 DEF Folds
  <2>2. next[s] \in D /\ next[s] = CHOOSE x \in s : TRUE
    BY <1>2, <1>5
  <2> HIDE DEF St, next
  <2> QED BY <1>3, <2>1, <2>2
<1>6. g \in [SUBSET D -> Nat] /\ g[{}] = 0
  BY <1>4 DEF Folds
<1> QED BY <1>5, <1>6 DEF Sums, AddsUp

(* Two folds over the same numbers are the same.                           *)
LEMMA SumsAgree ==
  ASSUME NEW f, NEW D, Numbers(f, D), NEW S \in SUBSET D, NEW g, Sums(g, f, D), NEW h,
         AddsUp(h, f, S)
  PROVE  h[S] = g[S]
<1> DEFINE bad == {s \in SUBSET S : h[s] # g[s]}
<1> SUFFICES ASSUME bad # {} PROVE FALSE
  OBVIOUS
<1>1. PICK s \in bad : \A x \in s : s \ {x} \notin bad
  <2>1. IsFiniteSet(S) /\ bad \subseteq SUBSET S
    BY FS_Subset DEF Numbers
  <2> HIDE DEF bad
  <2> QED BY <2>1, SmallestSet
<1>2. s \in SUBSET S /\ h[s] # g[s] /\ s \in SUBSET D
  OBVIOUS
<1>3. CASE s = {}
  BY <1>2, <1>3 DEF Sums, AddsUp
<1>4. CASE s # {}
  <2> DEFINE c == CHOOSE x \in s : TRUE
  <2>1. c \in s
    BY <1>4
  <2>2. h[s] = f[c] + h[s \ {c}] /\ g[s] = f[c] + g[s \ {c}]
    BY <1>2, <1>4 DEF Sums, AddsUp
  <2>3. h[s \ {c}] = g[s \ {c}]
    BY <1>1, <1>2, <2>1
  <2> QED BY <1>2, <2>2, <2>3
<1> QED BY <1>3, <1>4

(* SumFunctionOnSet is that fold.                                          *)
LEMMA SumIsFold ==
  ASSUME NEW f, NEW D, Numbers(f, D), NEW S \in SUBSET D, NEW g, Sums(g, f, D)
  PROVE  SumFunctionOnSet(f, S) = g[S]
<1> DEFINE Body(h) == [s \in SUBSET S |->
                         IF s = {} THEN 0 ELSE f[CHOOSE x \in s : TRUE] + h[s \ {CHOOSE x \in s : TRUE}]]
           it == CHOOSE h : h = Body(h)
<1>1. SumFunctionOnSet(f, S) = it[S]
  BY DEF SumFunctionOnSet, FoldFunctionOnSet, MapThenFoldSet
<1>2. \E h : h = Body(h)
  <2> DEFINE h == [s \in SUBSET S |-> g[s]]
  <2>1. ASSUME NEW s \in SUBSET S
        PROVE  h[s] = IF s = {} THEN 0 ELSE f[CHOOSE x \in s : TRUE] + h[s \ {CHOOSE x \in s : TRUE}]
    <3>1. s \in SUBSET D /\ s \ {CHOOSE x \in s : TRUE} \in SUBSET S
      OBVIOUS
    <3> QED BY <3>1 DEF Sums, AddsUp
  <2>2. h = Body(h)
    BY <2>1
  <2> QED BY <2>2
<1>3. it = Body(it)
  <2> HIDE DEF Body
  <2> QED BY <1>2
<1>4. AddsUp(it, f, S)
  <2> HIDE DEF it
  <2> QED BY <1>3 DEF AddsUp
<1> HIDE DEF it
<1>5. it[S] = g[S]
  BY <1>4, SumsAgree
<1> QED BY <1>1, <1>5

(* A sum is a number.                                                      *)
LEMMA SumType ==
  ASSUME NEW f, NEW S, Numbers(f, S)
  PROVE  SumFunctionOnSet(f, S) \in Nat /\ SumFunctionOnSet(f, {}) = 0
<1>1. PICK g : Sums(g, f, S)
  BY SumsExist
<1>2. \A s \in SUBSET S : SumFunctionOnSet(f, s) = g[s]
  BY <1>1, SumIsFold
<1>3. g[S] \in Nat /\ g[{}] = 0
  BY <1>1 DEF Sums, AddsUp
<1> QED BY <1>2, <1>3

(* Any element may be taken out of a sum.                                  *)
LEMMA SumTakes ==
  ASSUME NEW f, NEW S, Numbers(f, S), NEW x \in S
  PROVE  /\ SumFunctionOnSet(f, S) = f[x] + SumFunctionOnSet(f, S \ {x})
         /\ SumFunctionOnSet(f, S \ {x}) \in Nat /\ f[x] \in Nat
<1>1. PICK g : Sums(g, f, S)
  BY SumsExist
<1>2. \A s \in SUBSET S : SumFunctionOnSet(f, s) = g[s] /\ g[s] \in Nat
  <2>1. \A s \in SUBSET S : SumFunctionOnSet(f, s) = g[s]
    BY <1>1, SumIsFold
  <2> QED BY <1>1, <2>1 DEF Sums
<1> DEFINE bad == {s \in SUBSET S : \E y \in s : g[s] # f[y] + g[s \ {y}]}
<1>3. bad = {}
  <2> SUFFICES ASSUME bad # {} PROVE FALSE
    OBVIOUS
  <2>1. PICK s \in bad : \A y \in s : s \ {y} \notin bad
    <3>1. IsFiniteSet(S) /\ bad \subseteq SUBSET S
      BY DEF Numbers
    <3> HIDE DEF bad
    <3> QED BY <3>1, SmallestSet
  <2>2. PICK y \in s : g[s] # f[y] + g[s \ {y}]
    OBVIOUS
  <2> DEFINE c == CHOOSE z \in s : TRUE
  <2>3. c \in s /\ s \in SUBSET S
    OBVIOUS
  <2>4. g[s] = f[c] + g[s \ {c}]
    BY <1>1, <2>3 DEF Sums, AddsUp
  <2>5. c # y
    BY <2>2, <2>4
  <2> HIDE DEF c
  <2>6. g[s \ {c}] = f[y] + g[(s \ {c}) \ {y}]
    BY <2>1, <2>3, <2>5
  <2>7. g[s \ {y}] = f[c] + g[(s \ {y}) \ {c}]
    BY <2>1, <2>3, <2>5
  <2>8. (s \ {y}) \ {c} = (s \ {c}) \ {y}
    OBVIOUS
  <2> DEFINE rest == g[(s \ {c}) \ {y}]
  <2>9. rest \in Nat /\ f[c] \in Nat /\ f[y] \in Nat
    BY <1>2, <2>3 DEF Numbers
  <2>10. g[s] = f[c] + (f[y] + rest) /\ g[s \ {y}] = f[c] + rest
    BY <2>4, <2>6, <2>7, <2>8
  <2> HIDE DEF rest
  <2>11. g[s] = f[y] + g[s \ {y}]
    BY <2>9, <2>10
  <2> QED BY <2>2, <2>11
<1>4. g[S] = f[x] + g[S \ {x}]
  BY <1>3
<1> QED BY <1>2, <1>4 DEF Numbers

(* Numbers that are added up, more of them or less.                        *)
LEMMA SumGrows ==
  ASSUME NEW f, NEW h, NEW S, Numbers(f, S), Numbers(h, S), \A x \in S : f[x] <= h[x]
  PROVE  SumFunctionOnSet(f, S) <= SumFunctionOnSet(h, S)
<1> DEFINE bad == {s \in SUBSET S : ~ (SumFunctionOnSet(f, s) <= SumFunctionOnSet(h, s))}
<1>1. \A s \in SUBSET S : Numbers(f, s) /\ Numbers(h, s)
  BY FS_Subset DEF Numbers
<1> SUFFICES ASSUME bad # {} PROVE FALSE
  OBVIOUS
<1>2. PICK s \in bad : \A x \in s : s \ {x} \notin bad
  <2>1. IsFiniteSet(S) /\ bad \subseteq SUBSET S
    BY DEF Numbers
  <2> HIDE DEF bad
  <2> QED BY <2>1, SmallestSet
<1>3. s \in SUBSET S /\ ~ (SumFunctionOnSet(f, s) <= SumFunctionOnSet(h, s))
  OBVIOUS
<1>4. CASE s = {}
  <2>1. SumFunctionOnSet(f, {}) = 0 /\ SumFunctionOnSet(h, {}) = 0
    BY SumType
  <2> QED BY <1>3, <1>4, <2>1
<1>5. ASSUME NEW x \in s PROVE FALSE
  <2>1. /\ SumFunctionOnSet(f, s) = f[x] + SumFunctionOnSet(f, s \ {x})
        /\ SumFunctionOnSet(f, s \ {x}) \in Nat /\ f[x] \in Nat
    BY <1>1, <1>3, SumTakes
  <2>2. /\ SumFunctionOnSet(h, s) = h[x] + SumFunctionOnSet(h, s \ {x})
        /\ SumFunctionOnSet(h, s \ {x}) \in Nat /\ h[x] \in Nat
    BY <1>1, <1>3, SumTakes
  <2>3. SumFunctionOnSet(f, s \ {x}) <= SumFunctionOnSet(h, s \ {x}) /\ f[x] <= h[x]
    BY <1>2, <1>3
  <2> QED BY <1>3, <2>1, <2>2, <2>3
<1> QED BY <1>4, <1>5

(* The numbers themselves matter only.                                     *)
LEMMA SumSame ==
  ASSUME NEW f, NEW h, NEW S, Numbers(f, S), \A x \in S : f[x] = h[x]
  PROVE  SumFunctionOnSet(f, S) = SumFunctionOnSet(h, S)
<1>1. Numbers(h, S) /\ \A x \in S : f[x] <= h[x] /\ h[x] <= f[x]
  BY DEF Numbers
<1>2. SumFunctionOnSet(f, S) <= SumFunctionOnSet(h, S)
  BY <1>1, SumGrows
<1>3. SumFunctionOnSet(h, S) <= SumFunctionOnSet(f, S)
  BY <1>1, SumGrows
<1> QED BY <1>1, <1>2, <1>3, SumType

(* Sums of sums.                                                           *)
LEMMA SumOfBoth ==
  ASSUME NEW f, NEW h, NEW b, NEW S, Numbers(f, S), Numbers(h, S),
         \A x \in S : b[x] = f[x] + h[x]
  PROVE  SumFunctionOnSet(b, S) = SumFunctionOnSet(f, S) + SumFunctionOnSet(h, S)
<1> DEFINE bad == {s \in SUBSET S :
                     SumFunctionOnSet(b, s) # SumFunctionOnSet(f, s) + SumFunctionOnSet(h, s)}
<1>1. \A s \in SUBSET S : Numbers(f, s) /\ Numbers(h, s) /\ Numbers(b, s)
  BY FS_Subset DEF Numbers
<1> SUFFICES ASSUME bad # {} PROVE FALSE
  OBVIOUS
<1>2. PICK s \in bad : \A x \in s : s \ {x} \notin bad
  <2>1. IsFiniteSet(S) /\ bad \subseteq SUBSET S
    BY DEF Numbers
  <2> HIDE DEF bad
  <2> QED BY <2>1, SmallestSet
<1>3. s \in SUBSET S /\ SumFunctionOnSet(b, s) # SumFunctionOnSet(f, s) + SumFunctionOnSet(h, s)
  OBVIOUS
<1>4. CASE s = {}
  <2>1. SumFunctionOnSet(f, {}) = 0 /\ SumFunctionOnSet(h, {}) = 0 /\ SumFunctionOnSet(b, {}) = 0
    BY <1>1, SumType
  <2> QED BY <1>3, <1>4, <2>1
<1>5. ASSUME NEW x \in s PROVE FALSE
  <2>1. /\ SumFunctionOnSet(f, s) = f[x] + SumFunctionOnSet(f, s \ {x})
        /\ SumFunctionOnSet(f, s \ {x}) \in Nat /\ f[x] \in Nat
    BY <1>1, <1>3, SumTakes
  <2>2. /\ SumFunctionOnSet(h, s) = h[x] + SumFunctionOnSet(h, s \ {x})
        /\ SumFunctionOnSet(h, s \ {x}) \in Nat /\ h[x] \in Nat
    BY <1>1, <1>3, SumTakes
  <2>3. SumFunctionOnSet(b, s) = b[x] + SumFunctionOnSet(b, s \ {x})
    BY <1>1, <1>3, SumTakes
  <2>4. /\ SumFunctionOnSet(b, s \ {x}) = SumFunctionOnSet(f, s \ {x}) + SumFunctionOnSet(h, s \ {x})
        /\ b[x] = f[x] + h[x]
    BY <1>2, <1>3
  <2> QED BY <1>3, <2>1, <2>2, <2>3, <2>4
<1> QED BY <1>4, <1>5

(* One of the numbers counts up.                                           *)
LEMMA SumAddsOne ==
  ASSUME NEW f, NEW h, NEW S, Numbers(f, S), NEW y \in S, h[y] = f[y] + 1,
         \A x \in S \ {y} : h[x] = f[x]
  PROVE  SumFunctionOnSet(h, S) = SumFunctionOnSet(f, S) + 1
<1>1. Numbers(h, S) /\ Numbers(f, S \ {y})
  BY FS_Subset DEF Numbers
<1>2. SumFunctionOnSet(f, S \ {y}) = SumFunctionOnSet(h, S \ {y})
  BY <1>1, SumSame
<1>3. /\ SumFunctionOnSet(f, S) = f[y] + SumFunctionOnSet(f, S \ {y})
      /\ SumFunctionOnSet(f, S \ {y}) \in Nat /\ f[y] \in Nat
  BY SumTakes
<1>4. SumFunctionOnSet(h, S) = h[y] + SumFunctionOnSet(h, S \ {y})
  BY <1>1, SumTakes
<1> QED BY <1>2, <1>3, <1>4

(* Nothing adds up to nothing.                                             *)
LEMMA SumOfZeros ==
  ASSUME NEW f, NEW S, IsFiniteSet(S), \A x \in S : f[x] = 0
  PROVE  SumFunctionOnSet(f, S) = 0
<1>1. Numbers(f, S) /\ \A x \in S : f[x] = f[x] + f[x]
  BY DEF Numbers
<1>2. SumFunctionOnSet(f, S) = SumFunctionOnSet(f, S) + SumFunctionOnSet(f, S)
  BY <1>1, SumOfBoth
<1> QED BY <1>1, <1>2, SumType

(* Columns whose own sums have bounds: the sums of the rows, added up, are *)
(* within the sum of the bounds.                                           *)
LEMMA MergedSums ==
  ASSUME NEW X, IsFiniteSet(X), NEW K, IsFiniteSet(K), NEW bound, NEW count,
         \A k \in K : /\ bound[k] \in Nat
                      /\ \A x \in X : count[x][k] \in Nat
                      /\ SumFunctionOnSet([x \in X |-> count[x][k]], X) <= bound[k]
  PROVE  SumFunctionOnSet([x \in X |-> SumFunctionOnSet(count[x], K)], X)
           <= SumFunctionOnSet(bound, K)
<1> DEFINE Row(s) == [x \in X |-> SumFunctionOnSet(count[x], s)]
           Column(k) == [x \in X |-> count[x][k]]
           bad == {s \in SUBSET K : ~ (SumFunctionOnSet(Row(s), X) <= SumFunctionOnSet(bound, s))}
<1>1. \A s \in SUBSET K : Numbers(bound, s) /\ \A x \in X : Numbers(count[x], s)
  BY FS_Subset DEF Numbers
<1> SUFFICES ASSUME bad # {} PROVE FALSE
  <2>1. K \in SUBSET K
    OBVIOUS
  <2> QED BY <2>1
<1>2. PICK s \in bad : \A x \in s : s \ {x} \notin bad
  <2>1. bad \subseteq SUBSET K
    OBVIOUS
  <2> HIDE DEF bad
  <2> QED BY <2>1, SmallestSet
<1>3. s \in SUBSET K /\ ~ (SumFunctionOnSet(Row(s), X) <= SumFunctionOnSet(bound, s))
  OBVIOUS
<1>4. CASE s = {}
  <2>1. SumFunctionOnSet(bound, {}) = 0 /\ \A x \in X : SumFunctionOnSet(count[x], {}) = 0
    BY <1>1, <1>3, SumType
  <2>2. \A x \in X : Row({})[x] = 0
    BY <2>1
  <2>3. SumFunctionOnSet(Row({}), X) = 0
    <3> HIDE DEF Row
    <3> QED BY <2>2, SumOfZeros
  <2> QED BY <1>3, <1>4, <2>1, <2>3
<1>5. ASSUME NEW k \in s PROVE FALSE
  <2>1. k \in K /\ s \ {k} \in SUBSET K
    BY <1>3
  <2>2. ASSUME NEW x \in X
        PROVE  /\ SumFunctionOnSet(count[x], s) = count[x][k] + SumFunctionOnSet(count[x], s \ {k})
               /\ SumFunctionOnSet(count[x], s \ {k}) \in Nat
    <3>1. Numbers(count[x], s)
      BY <1>1, <1>3
    <3> QED BY <3>1, SumTakes
  <2>3. /\ Numbers(Column(k), X) /\ Numbers(Row(s \ {k}), X)
        /\ \A x \in X : Row(s)[x] = Column(k)[x] + Row(s \ {k})[x]
    BY <2>1, <2>2 DEF Numbers
  <2>4. SumFunctionOnSet(Column(k), X) <= bound[k] /\ bound[k] \in Nat
    BY <2>1
  <2>5. ~ (SumFunctionOnSet(Row(s), X) <= SumFunctionOnSet(bound, s))
    BY <1>3
  <2>6. SumFunctionOnSet(Row(s \ {k}), X) <= SumFunctionOnSet(bound, s \ {k})
    BY <1>2, <2>1
  <2> HIDE DEF Row, Column, bad
  <2>7. SumFunctionOnSet(Row(s), X) = SumFunctionOnSet(Column(k), X) + SumFunctionOnSet(Row(s \ {k}), X)
    <3> DEFINE f == Column(k)
               h == Row(s \ {k})
               b == Row(s)
    <3>1. Numbers(f, X) /\ Numbers(h, X) /\ \A x \in X : b[x] = f[x] + h[x]
      BY <2>3
    <3> HIDE DEF f, h, b
    <3>2. SumFunctionOnSet(b, X) = SumFunctionOnSet(f, X) + SumFunctionOnSet(h, X)
      BY <3>1, SumOfBoth
    <3> QED BY <3>2 DEF f, h, b
  <2>8. /\ SumFunctionOnSet(bound, s) = bound[k] + SumFunctionOnSet(bound, s \ {k})
        /\ SumFunctionOnSet(bound, s \ {k}) \in Nat
    BY <1>1, <1>3, SumTakes
  <2>9. SumFunctionOnSet(Column(k), X) \in Nat /\ SumFunctionOnSet(Row(s \ {k}), X) \in Nat
    BY <2>3, SumType
  <2> QED BY <2>4, <2>5, <2>6, <2>7, <2>8, <2>9
<1> QED BY <1>4, <1>5
-----------------------------------------------------------------------------
(* A snapshot whose numbers count events that there were.                  *)
Counted == [service : Services, total : 0 .. events, top : [Subjects -> 0 .. events]]

(* Counts per subject that leave no less than nothing for the others.      *)
Whole(counts, total) == SumFunctionOnSet(counts, Subjects) <= total

(* What a gateway counts, sends and has sent: the subjects never amount to *)
(* more than the total, and a total never to more than there was.          *)
Counting ==
  /\ events \in 0 .. MaxEvents
  /\ m_total \in [Reporters -> 0 .. events]
  /\ m_statsPerSubject \in [Reporters -> [Subjects -> 0 .. events]]
  /\ \A r \in Reporters : Whole(m_statsPerSubject[r], m_total[r])
  /\ inTransit \in [Gateways -> Seq(Counted)]
  /\ \A g \in Gateways : \A i \in DOMAIN inTransit[g] : Whole(inTransit[g][i].top, inTransit[g][i].total)
  /\ DOMAIN m_statsSnapshots \subseteq {Key(r[1], r[2]) : r \in Reporters}
  /\ \A k \in DOMAIN m_statsSnapshots :
       m_statsSnapshots[k] \in Counted /\ Whole(m_statsSnapshots[k].top, m_statsSnapshots[k].total)

(* There is more room for what is counted as there are more events.        *)
LEMMA MoreEvents ==
  ASSUME events \in Nat, events' \in Nat, events <= events'
  PROVE  /\ 0 .. events \subseteq 0 .. events' /\ Counted \subseteq Counted'
         /\ \A q \in Seq(Counted) : q \in Seq(Counted')
<1>1. 0 .. events \subseteq 0 .. events'
  OBVIOUS
<1>2. Counted \subseteq Counted'
  BY <1>1 DEF Counted
<1> HIDE DEF Counted
<1> QED BY <1>1, <1>2

(* Nothing is counted.                                                     *)
LEMMA NothingCounted ==
  /\ NoCounts \in [Subjects -> {0}]
  /\ Whole(NoCounts, 0)
<1>1. \A x \in Subjects : NoCounts[x] = 0
  BY DEF NoCounts
<1>2. SumFunctionOnSet(NoCounts, Subjects) = 0
  BY <1>1, SumOfZeros, CoordinatorAssumption
<1> QED BY <1>2 DEF NoCounts, Whole

(* Other steps leave the counts as they are.                               *)
LEMMA CountingKept ==
  ASSUME Counting, events' \in 0 .. MaxEvents, events <= events',
         UNCHANGED <<m_total, m_statsPerSubject, inTransit, m_statsSnapshots>>
  PROVE  Counting'
<1>0. MaxEvents \in Nat
  BY CoordinatorAssumption
<1>1. /\ 0 .. events \subseteq 0 .. events' /\ Counted \subseteq Counted'
      /\ \A q \in Seq(Counted) : q \in Seq(Counted')
  BY <1>0, MoreEvents DEF Counting
<1>2. inTransit' \in [Gateways -> Seq(Counted')]
  BY <1>1 DEF Counting
<1>3. m_total' \in [Reporters -> 0 .. events'] /\ m_statsPerSubject' \in [Reporters -> [Subjects -> 0 .. events']]
  BY <1>1 DEF Counting
<1>4. \A k \in DOMAIN m_statsSnapshots : m_statsSnapshots'[k] \in Counted'
  BY <1>1 DEF Counting
<1> QED BY <1>2, <1>3, <1>4 DEF Counting, Whole

(* A message counts for its subject and for the total.                     *)
LEMMA addKeeps ==
  ASSUME Counting, NEW r \in Reporters, NEW x \in Subjects, add(r, x),
         events < MaxEvents, events' = events + 1
  PROVE  Counting'
<1>0. MaxEvents \in Nat /\ events \in Nat /\ IsFiniteSet(Subjects)
  BY CoordinatorAssumption DEF Counting
<1>1. /\ 0 .. events \subseteq 0 .. events' /\ Counted \subseteq Counted'
      /\ \A q \in Seq(Counted) : q \in Seq(Counted')
  BY <1>0, MoreEvents
<1> DEFINE f == m_statsPerSubject[r]
           h == m_statsPerSubject'[r]
<1>2. /\ m_total' = [m_total EXCEPT ![r] = m_total[r] + 1]
      /\ m_statsPerSubject' = [m_statsPerSubject EXCEPT ![r] = [f EXCEPT ![x] = f[x] + 1]]
      /\ UNCHANGED <<inTransit, m_statsSnapshots>>
  BY DEF add
<1>3. /\ f \in [Subjects -> 0 .. events] /\ m_total[r] \in 0 .. events
      /\ h = [f EXCEPT ![x] = f[x] + 1]
      /\ m_total'[r] = m_total[r] + 1
  BY <1>2 DEF Counting
<1>4. \A q \in Reporters \ {r} : m_statsPerSubject'[q] = m_statsPerSubject[q] /\ m_total'[q] = m_total[q]
  BY <1>2 DEF Counting
<1> HIDE DEF f, h
<1>5. h \in [Subjects -> 0 .. events'] /\ m_total'[r] \in 0 .. events'
  BY <1>0, <1>3
<1>6. SumFunctionOnSet(h, Subjects) = SumFunctionOnSet(f, Subjects) + 1
  <2>1. Numbers(f, Subjects) /\ h[x] = f[x] + 1 /\ \A y \in Subjects \ {x} : h[y] = f[y]
    BY <1>0, <1>3 DEF Numbers
  <2> QED BY <2>1, SumAddsOne
<1>7. SumFunctionOnSet(f, Subjects) \in Nat /\ SumFunctionOnSet(f, Subjects) <= m_total[r]
  <2>1. Numbers(f, Subjects)
    BY <1>0, <1>3 DEF Numbers
  <2> QED BY <2>1, SumType DEF Counting, Whole, f
<1>8. Whole(h, m_total'[r])
  BY <1>3, <1>6, <1>7 DEF Whole
<1>9. m_total' \in [Reporters -> 0 .. events']
  BY <1>1, <1>2, <1>5 DEF Counting
<1>10. m_statsPerSubject' \in [Reporters -> [Subjects -> 0 .. events']]
  <2>1. m_statsPerSubject' = [m_statsPerSubject EXCEPT ![r] = h]
    BY <1>2, <1>3
  <2>2. \A q \in Reporters : m_statsPerSubject[q] \in [Subjects -> 0 .. events']
    BY <1>1 DEF Counting
  <2> QED BY <1>5, <2>1, <2>2 DEF Counting
<1>11. \A q \in Reporters : Whole(m_statsPerSubject'[q], m_total'[q])
  BY <1>4, <1>8 DEF Counting, h
<1>12. inTransit' \in [Gateways -> Seq(Counted')]
  BY <1>1, <1>2 DEF Counting
<1>13. \A k \in DOMAIN m_statsSnapshots' : m_statsSnapshots'[k] \in Counted'
  BY <1>1, <1>2 DEF Counting
<1>14. events' \in 0 .. MaxEvents
  BY <1>0
<1>15. /\ \A g \in Gateways : \A i \in DOMAIN inTransit'[g] : Whole(inTransit'[g][i].top, inTransit'[g][i].total)
       /\ DOMAIN m_statsSnapshots' \subseteq {Key(q[1], q[2]) : q \in Reporters}
       /\ \A k \in DOMAIN m_statsSnapshots' : Whole(m_statsSnapshots'[k].top, m_statsSnapshots'[k].total)
  BY <1>2 DEF Counting
<1> QED BY <1>9, <1>10, <1>11, <1>12, <1>13, <1>14, <1>15 DEF Counting, Whole

(* The top list is a part of what was counted.                             *)
LEMMA SnapshotIsWhole ==
  ASSUME Counting, NEW r \in Reporters, NEW top
  PROVE  /\ getSnapshot(r, top) \in Counted
         /\ Whole(getSnapshot(r, top).top, getSnapshot(r, top).total)
<1> DEFINE f == m_statsPerSubject[r]
           h == [x \in Subjects |-> IF x \in top THEN f[x] ELSE 0]
<1>1. events \in Nat /\ IsFiniteSet(Subjects) /\ r[2] \in Services
  BY CoordinatorAssumption DEF Counting, Reporters
<1>2. f \in [Subjects -> 0 .. events] /\ m_total[r] \in 0 .. events /\ Whole(f, m_total[r])
  BY DEF Counting
<1>3. getSnapshot(r, top) = [service |-> r[2], total |-> m_total[r], top |-> h]
  BY DEF getSnapshot
<1> HIDE DEF f
<1>4. h \in [Subjects -> 0 .. events] /\ \A x \in Subjects : h[x] <= f[x]
  BY <1>1, <1>2
<1> HIDE DEF h
<1>5. Numbers(f, Subjects) /\ Numbers(h, Subjects)
  BY <1>1, <1>2, <1>4 DEF Numbers
<1>6. SumFunctionOnSet(h, Subjects) <= SumFunctionOnSet(f, Subjects)
  BY <1>4, <1>5, SumGrows
<1>7. SumFunctionOnSet(h, Subjects) \in Nat /\ SumFunctionOnSet(f, Subjects) \in Nat
  BY <1>5, SumType
<1>8. Whole(h, m_total[r])
  BY <1>1, <1>2, <1>6, <1>7 DEF Whole
<1> QED BY <1>1, <1>2, <1>3, <1>4, <1>8 DEF Counted

(* One more snapshot is on its way.                                        *)
LEMMA SnapshotSent ==
  ASSUME NEW S, NEW q \in Seq(S), NEW z \in S
  PROVE  /\ Append(q, z) \in Seq(S)
         /\ \A i \in DOMAIN Append(q, z) : Append(q, z)[i] = z \/ (i \in DOMAIN q /\ Append(q, z)[i] = q[i])
OBVIOUS

(* The timer begins to count anew, and sends what it has.                  *)
LEMMA onStatsTimerKeeps ==
  ASSUME Counting, NEW g \in Gateways, NEW s \in Services, onStatsTimer(<<g, s>>), UNCHANGED events
  PROVE  Counting'
<1> DEFINE r == <<g, s>>
<1>0. r \in Reporters /\ r[1] = g
  BY DEF Reporters
<1>1. m_total' = [m_total EXCEPT ![r] = 0] /\ m_statsPerSubject' = [m_statsPerSubject EXCEPT ![r] = NoCounts]
  BY DEF onStatsTimer, reset
<1>2. UNCHANGED m_statsSnapshots
  BY DEF onStatsTimer
<1>3. events \in Nat /\ 0 \in 0 .. events
  BY CoordinatorAssumption DEF Counting
<1>4. NoCounts \in [Subjects -> 0 .. events]
  BY <1>3, NothingCounted
<1>5. m_total' \in [Reporters -> 0 .. events]
  BY <1>1, <1>3 DEF Counting
<1>6. m_statsPerSubject' \in [Reporters -> [Subjects -> 0 .. events]]
  BY <1>1, <1>4 DEF Counting
<1>7. ASSUME NEW q \in Reporters PROVE Whole(m_statsPerSubject'[q], m_total'[q])
  <2>1. CASE q = r
    <3>1. m_statsPerSubject'[q] = NoCounts /\ m_total'[q] = 0
      BY <1>1, <2>1 DEF Counting
    <3> QED BY <3>1, NothingCounted
  <2>2. CASE q # r
    <3>1. m_statsPerSubject'[q] = m_statsPerSubject[q] /\ m_total'[q] = m_total[q]
      BY <1>1, <2>2 DEF Counting
    <3> QED BY <3>1 DEF Counting
  <2> QED BY <2>1, <2>2
<1>8. PICK top : \/ UNCHANGED inTransit
                 \/ inTransit' = [inTransit EXCEPT ![g] = Append(@, getSnapshot(r, top))]
  BY <1>0 DEF onStatsTimer
<1> DEFINE z == getSnapshot(r, top)
<1>9. z \in Counted /\ Whole(z.top, z.total)
  BY <1>0, SnapshotIsWhole
<1> HIDE DEF z, r
<1>10. /\ inTransit' \in [Gateways -> Seq(Counted)]
       /\ \A h \in Gateways : \A i \in DOMAIN inTransit'[h] : Whole(inTransit'[h][i].top, inTransit'[h][i].total)
  <2>1. CASE UNCHANGED inTransit
    BY <2>1 DEF Counting
  <2>2. CASE inTransit' = [inTransit EXCEPT ![g] = Append(@, z)]
    <3>1. inTransit[g] \in Seq(Counted)
      BY DEF Counting
    <3>2. /\ Append(inTransit[g], z) \in Seq(Counted)
          /\ \A i \in DOMAIN Append(inTransit[g], z) :
               Append(inTransit[g], z)[i] = z \/ (i \in DOMAIN inTransit[g] /\ Append(inTransit[g], z)[i] = inTransit[g][i])
      BY <1>9, <3>1, SnapshotSent
    <3>3. inTransit'[g] = Append(inTransit[g], z) /\ \A h \in Gateways \ {g} : inTransit'[h] = inTransit[h]
      BY <2>2 DEF Counting
    <3>4. inTransit' \in [Gateways -> Seq(Counted)]
      BY <2>2, <3>2 DEF Counting
    <3>5. \A i \in DOMAIN inTransit'[g] : Whole(inTransit'[g][i].top, inTransit'[g][i].total)
      BY <1>9, <3>2, <3>3 DEF Counting
    <3>6. \A h \in Gateways \ {g} : \A i \in DOMAIN inTransit'[h] : Whole(inTransit'[h][i].top, inTransit'[h][i].total)
      BY <3>3 DEF Counting
    <3> QED BY <3>4, <3>5, <3>6
  <2> QED BY <1>8, <2>1, <2>2 DEF z
<1>11. Counted' = Counted
  BY DEF Counted
<1>12. /\ DOMAIN m_statsSnapshots' \subseteq {Key(q[1], q[2]) : q \in Reporters}
       /\ \A k \in DOMAIN m_statsSnapshots' :
            m_statsSnapshots'[k] \in Counted /\ Whole(m_statsSnapshots'[k].top, m_statsSnapshots'[k].total)
  BY <1>2 DEF Counting
<1>13. events' \in 0 .. MaxEvents
  BY DEF Counting
<1> QED BY <1>5, <1>6, <1>7, <1>10, <1>11, <1>12, <1>13 DEF Counting, Whole

(* The first snapshot is taken.                                            *)
LEMMA SnapshotTaken ==
  ASSUME NEW S, NEW q \in Seq(S), q # << >>
  PROVE  /\ Head(q) \in S /\ 1 \in DOMAIN q /\ Head(q) = q[1] /\ Tail(q) \in Seq(S)
         /\ \A i \in DOMAIN Tail(q) : i + 1 \in DOMAIN q /\ Tail(q)[i] = q[i + 1]
OBVIOUS

(* The coordinator stores it in place of the one it had.                   *)
LEMMA onStatsMessageKeeps ==
  ASSUME Counting, NEW g \in Gateways, onStatsMessage(g), UNCHANGED events
  PROVE  Counting'
<1> DEFINE z == Head(inTransit[g])
           key == Key(g, z.service)
<1>1. /\ inTransit[g] # << >> /\ inTransit' = [inTransit EXCEPT ![g] = Tail(@)]
      /\ m_statsSnapshots' = [k \in DOMAIN m_statsSnapshots \cup {key} |->
                                IF k = key THEN z ELSE m_statsSnapshots[k]]
      /\ UNCHANGED <<m_total, m_statsPerSubject>>
  BY DEF onStatsMessage, gatewayVars
<1>2. inTransit[g] \in Seq(Counted)
  BY DEF Counting
<1>3. /\ z \in Counted /\ z = inTransit[g][1] /\ 1 \in DOMAIN inTransit[g]
      /\ Tail(inTransit[g]) \in Seq(Counted)
      /\ \A i \in DOMAIN Tail(inTransit[g]) :
           i + 1 \in DOMAIN inTransit[g] /\ Tail(inTransit[g])[i] = inTransit[g][i + 1]
  BY <1>1, <1>2, SnapshotTaken
<1> HIDE DEF z
<1>4. Whole(z.top, z.total)
  BY <1>3 DEF Counting
<1>5. z.service \in Services
  BY <1>3 DEF Counted
<1>6. key \in {Key(q[1], q[2]) : q \in Reporters}
  <2>1. <<g, z.service>> \in Reporters /\ <<g, z.service>>[1] = g /\ <<g, z.service>>[2] = z.service
    BY <1>5 DEF Reporters
  <2> QED BY <2>1
<1> HIDE DEF key
<1>7. DOMAIN m_statsSnapshots' = DOMAIN m_statsSnapshots \cup {key}
      /\ \A k \in DOMAIN m_statsSnapshots' : m_statsSnapshots'[k] = IF k = key THEN z ELSE m_statsSnapshots[k]
  BY <1>1
<1>8. DOMAIN m_statsSnapshots' \subseteq {Key(q[1], q[2]) : q \in Reporters}
  BY <1>6, <1>7 DEF Counting
<1>9. \A k \in DOMAIN m_statsSnapshots' :
        m_statsSnapshots'[k] \in Counted /\ Whole(m_statsSnapshots'[k].top, m_statsSnapshots'[k].total)
  BY <1>3, <1>4, <1>7 DEF Counting
<1>10. inTransit'[g] = Tail(inTransit[g]) /\ \A h \in Gateways \ {g} : inTransit'[h] = inTransit[h]
  BY <1>1 DEF Counting
<1>11. inTransit' \in [Gateways -> Seq(Counted)]
  BY <1>1, <1>3 DEF Counting
<1>12. ASSUME NEW h \in Gateways, NEW i \in DOMAIN inTransit'[h]
       PROVE  Whole(inTransit'[h][i].top, inTransit'[h][i].total)
  <2>1. CASE h = g
    <3>1. i + 1 \in DOMAIN inTransit[g] /\ inTransit'[h][i] = inTransit[g][i + 1]
      BY <1>3, <1>10, <2>1
    <3> QED BY <3>1 DEF Counting
  <2>2. CASE h # g
    BY <1>10, <2>2 DEF Counting
  <2> QED BY <2>1, <2>2
<1>13. Counted' = Counted
  BY DEF Counted
<1>14. /\ events' \in 0 .. MaxEvents /\ m_total' \in [Reporters -> 0 .. events']
       /\ m_statsPerSubject' \in [Reporters -> [Subjects -> 0 .. events']]
       /\ \A q \in Reporters : Whole(m_statsPerSubject'[q], m_total'[q])
  BY <1>1 DEF Counting
<1> QED BY <1>8, <1>9, <1>11, <1>12, <1>13, <1>14 DEF Counting, Whole

LEMMA CountingInitially == Init => Counting
<1> SUFFICES ASSUME Init PROVE Counting
  OBVIOUS
<1>1. MaxEvents \in Nat
  BY CoordinatorAssumption
<1>2. events = 0 /\ 0 \in 0 .. MaxEvents /\ 0 \in 0 .. 0
  BY <1>1 DEF Init
<1>3. m_total \in [Reporters -> 0 .. events] /\ \A r \in Reporters : m_total[r] = 0
  BY <1>2 DEF Init
<1>4. m_statsPerSubject \in [Reporters -> [Subjects -> 0 .. events]] /\ \A r \in Reporters : m_statsPerSubject[r] = NoCounts
  BY <1>2, NothingCounted DEF Init
<1>5. \A r \in Reporters : Whole(m_statsPerSubject[r], m_total[r])
  BY <1>3, <1>4, NothingCounted
<1>6. inTransit \in [Gateways -> Seq(Counted)] /\ \A g \in Gateways : DOMAIN inTransit[g] = {}
  BY DEF Init
<1>7. DOMAIN m_statsSnapshots = {}
  BY DEF Init
<1> QED BY <1>2, <1>3, <1>4, <1>5, <1>6, <1>7 DEF Counting

LEMMA CountingInductive == Counting /\ [Next]_vars => Counting'
<1> SUFFICES ASSUME Counting, [Next]_vars PROVE Counting'
  OBVIOUS
<1>0. MaxEvents \in Nat /\ events \in 0 .. MaxEvents /\ events <= events
  BY CoordinatorAssumption DEF Counting
<1>1. CASE UNCHANGED vars
  BY <1>0, <1>1, CountingKept DEF vars, statsVars, gatewayVars
<1>2. CASE Event
  <2>0. events < MaxEvents /\ events' = events + 1
    BY <1>2 DEF Event
  <2>1. events' \in 0 .. MaxEvents /\ events <= events'
    BY <1>0, <2>0
  <2>2. CASE \E r \in Reporters, x \in Subjects : add(r, x)
    BY <2>0, <2>2, addKeeps
  <2>3. CASE \E g \in Gateways : onCoordinatorConnectionNotification(g)
    BY <2>1, <2>3, CountingKept DEF onCoordinatorConnectionNotification
  <2>4. ASSUME NEW c \in Clients,
               \/ openDashboard(c) \/ handleBackClick(c) \/ handleTogglePause(c)
               \/ connectionFails(c) \/ connectionLost(c)
               \/ \E s \in Services : openServiceDetail(c, s)
        PROVE  Counting'
    BY <2>1, <2>4, CountingKept DEF openDashboard, handleBackClick, handleTogglePause,
       connectionFails, connectionLost, openServiceDetail, statsVars, gatewayVars
  <2> QED BY <1>2, <2>2, <2>3, <2>4 DEF Event
<1>3. ASSUME NEW g \in Gateways, GatewayStep(g)
      PROVE  Counting'
  BY <1>3, onStatsTimerKeeps, onStatsMessageKeeps DEF GatewayStep
<1>4. ASSUME NEW s \in Services, Tick(s)
      PROVE  Counting'
  BY <1>0, <1>4, CountingKept DEF Tick, broadcastServiceOverviews, broadcastServiceDetails, statsVars, gatewayVars
<1>5. ASSUME NEW c \in Clients, HubStep(c)
      PROVE  Counting'
  BY <1>0, <1>5, CountingKept DEF HubStep, AddToGroup, RegisterAndReply, RemoveFromGroup, Unregister,
     statsVars, gatewayVars
<1>6. ASSUME NEW c \in Clients, BrowserStep(c)
      PROVE  Counting'
  BY <1>0, <1>6, CountingKept DEF BrowserStep, connectionStarts, setupSubscription, cleanup, statsVars, gatewayVars
<1>7. ASSUME NEW c \in Clients, Reconnect(c)
      PROVE  Counting'
  BY <1>0, <1>7, CountingKept DEF Reconnect, onreconnected, statsVars, gatewayVars
<1> QED BY <1>1, <1>2, <1>3, <1>4, <1>5, <1>6, <1>7 DEF Next

(* The snapshots of a service are finitely many, so they can be added up.  *)
LEMMA OverviewType ==
  ASSUME Counting, NEW s
  PROVE  IsFiniteSet(KeysOf(s)) /\ getServiceOverview(s) \in Nat
<1>1. IsFiniteSet(Reporters)
  BY CoordinatorAssumption, FS_Product DEF Reporters
<1>2. IsFiniteSet({Key(r[1], r[2]) : r \in Reporters})
  <2> DEFINE keys == [r \in Reporters |-> Key(r[1], r[2])]
             Keys == {Key(r[1], r[2]) : r \in Reporters}
  <2>1. keys \in [Reporters -> Keys] /\ \A k \in Keys : \E r \in Reporters : keys[r] = k
    OBVIOUS
  <2> HIDE DEF keys, Keys
  <2>2. keys \in Surjection(Reporters, Keys)
    BY <2>1 DEF Surjection
  <2>3. IsFiniteSet(Keys)
    BY <1>1, <2>2, FS_Surjection
  <2> QED BY <2>3 DEF Keys
<1>3. IsFiniteSet(KeysOf(s))
  BY <1>2, FS_Subset DEF Counting, KeysOf
<1> DEFINE f == [k \in DOMAIN m_statsSnapshots |-> m_statsSnapshots[k].total]
<1>4. \A k \in KeysOf(s) : f[k] \in Nat
  BY CoordinatorAssumption DEF KeysOf, Counting, Counted
<1> HIDE DEF f
<1>5. Numbers(f, KeysOf(s))
  BY <1>3, <1>4 DEF Numbers
<1> QED BY <1>3, <1>5, SumType DEF getServiceOverview, f

(***************************************************************************)
(* Whatever snapshots of however many gateways the coordinator has merged, *)
(* old or new, the subjects of a service never amount to more than its     *)
(* total, so "Other" in the chart is never less than nothing.              *)
(***************************************************************************)
THEOREM DetailsAddUpHolds == Spec => []DetailsAddUp
<1>1. Counting => DetailsAddUp
  <2> SUFFICES ASSUME Counting, NEW s \in Services
               PROVE  SumFunctionOnSet(mergeTopSubjects(s), Subjects) <= getServiceOverview(s)
    BY DEF DetailsAddUp
  <2> DEFINE K == KeysOf(s)
             bound == [k \in DOMAIN m_statsSnapshots |-> m_statsSnapshots[k].total]
             count == [x \in Subjects |-> [k \in DOMAIN m_statsSnapshots |-> m_statsSnapshots[k].top[x]]]
  <2>1. IsFiniteSet(K) /\ IsFiniteSet(Subjects)
    BY OverviewType, CoordinatorAssumption
  <2>2. mergeTopSubjects(s) = [x \in Subjects |-> SumFunctionOnSet(count[x], K)]
    BY DEF mergeTopSubjects
  <2>3. getServiceOverview(s) = SumFunctionOnSet(bound, K)
    BY DEF getServiceOverview
  <2>4. ASSUME NEW k \in K
        PROVE  /\ bound[k] \in Nat
               /\ \A x \in Subjects : count[x][k] \in Nat
               /\ SumFunctionOnSet([x \in Subjects |-> count[x][k]], Subjects) <= bound[k]
    <3>1. k \in DOMAIN m_statsSnapshots /\ m_statsSnapshots[k] \in Counted
          /\ Whole(m_statsSnapshots[k].top, m_statsSnapshots[k].total)
      BY DEF KeysOf, Counting
    <3>2. m_statsSnapshots[k].top \in [Subjects -> 0 .. events] /\ m_statsSnapshots[k].total \in 0 .. events
      BY <3>1 DEF Counted
    <3>3. bound[k] = m_statsSnapshots[k].total /\ \A x \in Subjects : count[x][k] = m_statsSnapshots[k].top[x]
      BY <3>1
    <3>4. [x \in Subjects |-> count[x][k]] = m_statsSnapshots[k].top
      BY <3>2, <3>3
    <3> HIDE DEF bound, count
    <3> QED BY <3>1, <3>2, <3>3, <3>4 DEF Whole
  <2> HIDE DEF K, bound, count
  <2>5. SumFunctionOnSet([x \in Subjects |-> SumFunctionOnSet(count[x], K)], Subjects)
          <= SumFunctionOnSet(bound, K)
    BY <2>1, <2>4, MergedSums
  <2> QED BY <2>2, <2>3, <2>5
<1> QED BY <1>1, CountingInitially, CountingInductive, PTL DEF Spec
-----------------------------------------------------------------------------
(* What the hub and the browsers have, besides what subscriptions are made of. *)
Others ==
  /\ armed \in [Reporters -> BOOLEAN]
  /\ m_coordinatorConnected \in [Gateways -> BOOLEAN]
  /\ \A g \in Gateways : Len(inTransit[g]) <= MaxInTransit
  /\ m_serviceDetailsSubscriptions \subseteq Services /\ broadcasting \subseteq Services
  /\ overview \in [Clients -> SUBSET Services]
  /\ shown \in [Clients -> Nat \cup {NoDetails}]
  /\ undone \in [Clients -> BOOLEAN]

(* Others but for what is sent by the gateways and shown by the browsers.  *)
LEMMA OthersOfGateways ==
  ASSUME Others, Counting, NEW g \in Gateways, GatewayStep(g)
  PROVE  Others'
<1>1. /\ UNCHANGED <<m_coordinatorConnected, m_serviceDetailsSubscriptions, broadcasting, overview, shown, undone>>
      /\ armed' \in [Reporters -> BOOLEAN]
  BY DEF GatewayStep, onStatsTimer, onStatsMessage, Others, hubVars, gatewayVars
<1>2. \A h \in Gateways : inTransit[h] \in Seq(Counted) /\ Len(inTransit[h]) <= MaxInTransit
  BY DEF Others, Counting
<1>3. \A h \in Gateways : Len(inTransit'[h]) <= MaxInTransit
  <2>0. MaxInTransit \in Nat /\ inTransit \in [Gateways -> Seq(Counted)]
    BY CoordinatorAssumption DEF Counting
  <2>1. ASSUME NEW s \in Services, onStatsTimer(<<g, s>>)
        PROVE  \A h \in Gateways : Len(inTransit'[h]) <= MaxInTransit
    <3>1. Len(inTransit[g]) < MaxInTransit
      BY <2>1 DEF onStatsTimer
    <3>2. PICK top : UNCHANGED inTransit \/ inTransit' = [inTransit EXCEPT ![g] = Append(@, getSnapshot(<<g, s>>, top))]
      BY <2>1 DEF onStatsTimer
    <3> DEFINE z == getSnapshot(<<g, s>>, top)
    <3>3. z \in Counted
      BY SnapshotIsWhole DEF Reporters
    <3> HIDE DEF z
    <3>4. Len(Append(inTransit[g], z)) <= MaxInTransit
      BY <1>2, <2>0, <3>1, <3>3
    <3> QED BY <1>2, <2>0, <3>2, <3>4 DEF z
  <2>2. CASE onStatsMessage(g)
    <3>1. inTransit[g] # << >> /\ inTransit' = [inTransit EXCEPT ![g] = Tail(@)]
      BY <2>2 DEF onStatsMessage
    <3>2. Len(Tail(inTransit[g])) <= MaxInTransit
      BY <1>2, <2>0, <3>1
    <3> QED BY <1>2, <2>0, <3>1, <3>2
  <2> QED BY <2>1, <2>2 DEF GatewayStep
<1> QED BY <1>1, <1>3 DEF Others

(* What the coordinator has is of services, and of numbers.                *)
LEMMA OverviewsType ==
  ASSUME Counting
  PROVE  getServiceOverviews \subseteq Services
BY DEF Counting, Counted, getServiceOverviews

(* The service of an invocation is one.                                    *)
LEMMA AskedType ==
  ASSUME Types, NEW c \in Clients, NEW m, NEW p, Asks(c, m, p)
  PROVE  Invocation(c).service \in Services
<1>1. hub[c] \in Seq(Invocations) /\ hub[c] # << >>
  BY DEF Asks, Types
<1>2. Invocation(c) \in Invocations
  BY <1>1, TailOfHub DEF Invocation
<1> QED BY <1>2 DEF Invocations

(* A browser shows what it had or a total.                                 *)
LEMMA DetailsType ==
  ASSUME Counting, Others, NEW targets, NEW s, Details(targets, s)
  PROVE  shown' \in [Clients -> Nat \cup {NoDetails}]
<1>1. getServiceOverview(s) \in Nat
  BY OverviewType
<1> QED BY <1>1 DEF Details, Others

LEMMA ShownOverviewsType ==
  ASSUME Counting, Others, NEW targets, Overviews(targets)
  PROVE  overview' \in [Clients -> SUBSET Services]
BY OverviewsType DEF Overviews, Others

(* The broadcast timer.                                                    *)
LEMMA OthersOfTicks ==
  ASSUME Others, Counting, NEW s \in Services, Tick(s)
  PROVE  Others'
<1>1. UNCHANGED <<armed, m_coordinatorConnected, inTransit, m_serviceDetailsSubscriptions, undone>>
  BY DEF Tick, broadcastServiceOverviews, broadcastServiceDetails, statsVars, gatewayVars, hubVars
<1>2. CASE broadcastServiceOverviews
  <2>1. /\ Overviews(Connected) /\ UNCHANGED shown
        /\ broadcasting' = broadcasting \cup m_serviceDetailsSubscriptions
    BY <1>2 DEF broadcastServiceOverviews
  <2>2. overview' \in [Clients -> SUBSET Services]
    BY <2>1, ShownOverviewsType
  <2> QED BY <1>1, <2>1, <2>2 DEF Others
<1>3. CASE broadcastServiceDetails(s)
  <2>1. Details({c \in Clients : s \in groups[c]}, s) /\ broadcasting' = broadcasting \ {s} /\ UNCHANGED overview
    BY <1>3 DEF broadcastServiceDetails
  <2>2. shown' \in [Clients -> Nat \cup {NoDetails}]
    BY <2>1, DetailsType
  <2> QED BY <1>1, <2>1, <2>2 DEF Others
<1> QED BY <1>2, <1>3 DEF Tick

(* The hub.                                                                *)
LEMMA OthersOfHub ==
  ASSUME Others, Counting, Types, NEW c \in Clients, HubStep(c)
  PROVE  Others'
<1>1. UNCHANGED <<armed, m_coordinatorConnected, inTransit, broadcasting, overview>>
  BY DEF HubStep, AddToGroup, RegisterAndReply, RemoveFromGroup, Unregister, statsVars, gatewayVars
<1>2. CASE AddToGroup(c) \/ RemoveFromGroup(c) \/ Unregister(c)
  <2>1. UNCHANGED shown /\ m_serviceDetailsSubscriptions' \subseteq m_serviceDetailsSubscriptions
    BY <1>2 DEF AddToGroup, RemoveFromGroup, Unregister
  <2>2. CASE AddToGroup(c) \/ RemoveFromGroup(c)
    BY <1>1, <2>1, <2>2 DEF AddToGroup, RemoveFromGroup, Others
  <2>3. CASE Unregister(c)
    <3>1. undone' \in [Clients -> BOOLEAN]
      BY <2>3 DEF Unregister, Others
    <3> QED BY <1>1, <2>1, <3>1 DEF Others
  <2> QED BY <1>2, <2>2, <2>3
<1>3. CASE RegisterAndReply(c)
  <2>1. Invocation(c).service \in Services
    BY <1>3, AskedType DEF RegisterAndReply
  <2>2. shown' \in [Clients -> Nat \cup {NoDetails}]
    BY <1>3, DetailsType DEF RegisterAndReply
  <2>3. /\ m_serviceDetailsSubscriptions' \subseteq Services
        /\ undone' \in [Clients -> BOOLEAN]
    BY <1>3, <2>1 DEF RegisterAndReply, Others
  <2> QED BY <1>1, <2>2, <2>3 DEF Others
<1> QED BY <1>2, <1>3 DEF HubStep

(* A connection that is lost.                                              *)
LEMMA OthersOfLoss ==
  ASSUME Others, Types, NEW c \in Clients, connectionLost(c)
  PROVE  Others'
<1>1. UNCHANGED <<armed, m_coordinatorConnected, inTransit, broadcasting, overview, shown>>
  BY DEF connectionLost, statsVars, gatewayVars
<1>2. m_serviceDetailsSubscriptions' \subseteq Services
  <2>1. CASE /\ Finishes(c, "Subscribe")
             /\ m_serviceDetailsSubscriptions' = m_serviceDetailsSubscriptions \cup {Invocation(c).service}
    <3>1. Asks(c, "Subscribe", Invocation(c).step)
      BY <2>1 DEF Finishes, Asks
    <3>2. Invocation(c).service \in Services
      BY <3>1, AskedType
    <3> QED BY <2>1, <3>2 DEF Others
  <2>2. CASE \/ m_serviceDetailsSubscriptions' = m_serviceDetailsSubscriptions \ {Invocation(c).service}
             \/ m_serviceDetailsSubscriptions' = m_serviceDetailsSubscriptions
    BY <2>2 DEF Others
  <2> QED BY <2>1, <2>2 DEF connectionLost
<1>3. undone' \in [Clients -> BOOLEAN]
  BY DEF connectionLost, Others
<1> QED BY <1>1, <1>2, <1>3 DEF Others

(* The browsers.                                                           *)
LEMMA OthersOfBrowsers ==
  ASSUME Others, Counting, NEW c \in Clients,
         \/ BrowserStep(c) \/ Reconnect(c)
         \/ openDashboard(c) \/ handleBackClick(c) \/ handleTogglePause(c) \/ connectionFails(c)
         \/ \E s \in Services : openServiceDetail(c, s)
  PROVE  Others'
<1>1. /\ UNCHANGED <<armed, m_coordinatorConnected, inTransit, m_serviceDetailsSubscriptions, undone, broadcasting>>
  BY DEF BrowserStep, Reconnect, openDashboard, handleBackClick, handleTogglePause, connectionFails,
         openServiceDetail, connectionStarts, setupSubscription, cleanup, onreconnected,
         statsVars, gatewayVars, hubVars
<1>2. CASE (\E s \in Services : openServiceDetail(c, s))
  BY <1>1, <1>2 DEF openServiceDetail, Others
<1>3. CASE handleBackClick(c)
  BY <1>1, <1>3 DEF handleBackClick, Others
<1>4. CASE openDashboard(c) \/ handleTogglePause(c) \/ connectionFails(c)
           \/ \E e \in DOMAIN effects[c] : setupSubscription(c, e) \/ cleanup(c, e)
  <2>1. UNCHANGED <<overview, shown>>
    BY <1>4 DEF openDashboard, handleTogglePause, connectionFails, setupSubscription, cleanup
  <2> QED BY <1>1, <2>1 DEF Others
<1>5. CASE connectionStarts(c) \/ onreconnected(c)
  <2>1. UNCHANGED shown /\ (Overviews({c}) \/ UNCHANGED overview)
    BY <1>5 DEF connectionStarts, onreconnected
  <2>2. overview' \in [Clients -> SUBSET Services]
    BY <2>1, ShownOverviewsType DEF Others
  <2> QED BY <1>1, <2>1, <2>2 DEF Others
<1> QED BY <1>2, <1>3, <1>4, <1>5 DEF BrowserStep, Reconnect

(***************************************************************************)
(* Every variable has its type in every reachable state.                   *)
(***************************************************************************)
THEOREM TypeCorrect == Spec => []TypeOK
<1> DEFINE All == IInv /\ Counting /\ Others
<1>1. Init => All
  <2> SUFFICES ASSUME Init PROVE All
    OBVIOUS
  <2>1. Others
    BY CoordinatorAssumption DEF Init, Others
  <2> QED BY <2>1, Initially, CountingInitially
<1>2. All /\ [Next]_vars => All'
  <2> SUFFICES ASSUME All, [Next]_vars PROVE Others'
    BY Inductive, CountingInductive
  <2>0. Types /\ Counting /\ Others
    BY DEF IInv
  <2>1. CASE UNCHANGED vars
    BY <2>0, <2>1 DEF vars, statsVars, gatewayVars, hubVars, Others
  <2>2. CASE Event
    <3>1. CASE \E r \in Reporters, x \in Subjects : add(r, x)
      BY <2>0, <3>1 DEF add, hubVars, Others
    <3>2. CASE \E g \in Gateways : onCoordinatorConnectionNotification(g)
      BY <2>0, <3>2 DEF onCoordinatorConnectionNotification, hubVars, Others
    <3>3. ASSUME NEW c \in Clients,
                 \/ openDashboard(c) \/ handleBackClick(c) \/ handleTogglePause(c)
                 \/ connectionFails(c) \/ connectionLost(c)
                 \/ \E s \in Services : openServiceDetail(c, s)
          PROVE  Others'
      BY <2>0, <3>3, OthersOfBrowsers, OthersOfLoss
    <3> QED BY <2>2, <3>1, <3>2, <3>3 DEF Event
  <2>3. ASSUME NEW g \in Gateways, GatewayStep(g) PROVE Others'
    BY <2>0, <2>3, OthersOfGateways
  <2>4. ASSUME NEW s \in Services, Tick(s) PROVE Others'
    BY <2>0, <2>4, OthersOfTicks
  <2>5. ASSUME NEW c \in Clients, HubStep(c) PROVE Others'
    BY <2>0, <2>5, OthersOfHub
  <2>6. ASSUME NEW c \in Clients, BrowserStep(c) \/ Reconnect(c) PROVE Others'
    BY <2>0, <2>6, OthersOfBrowsers
  <2> QED BY <2>1, <2>2, <2>3, <2>4, <2>5, <2>6 DEF Next
<1>3. All => TypeOK
  <2> SUFFICES ASSUME All PROVE TypeOK
    OBVIOUS
  <2>0. Types /\ Counting /\ Others /\ events \in 0 .. MaxEvents /\ MaxEvents \in Nat
    BY CoordinatorAssumption DEF IInv, Counting
  <2>1. 0 .. events \subseteq 0 .. MaxEvents
    BY <2>0
  <2>2. Counted \subseteq Snapshots
    BY <2>1 DEF Counted, Snapshots
  <2>3. /\ m_total \in [Reporters -> 0 .. MaxEvents]
        /\ m_statsPerSubject \in [Reporters -> [Subjects -> 0 .. MaxEvents]]
    BY <2>0, <2>1 DEF Counting
  <2>4. \A g \in Gateways : Len(inTransit[g]) <= MaxInTransit /\ ToSet(inTransit[g]) \subseteq Snapshots
    <3> SUFFICES ASSUME NEW g \in Gateways PROVE ToSet(inTransit[g]) \subseteq Counted
      BY <2>0, <2>2 DEF Others
    <3>1. inTransit[g] \in Seq(Counted)
      BY <2>0 DEF Counting
    <3> HIDE DEF All
    <3> QED BY <3>1 DEF ToSet
  <2>5. DOMAIN m_statsSnapshots \subseteq {r[1] \o r[2] : r \in Reporters}
    BY <2>0 DEF Counting, Key
  <2>6. Range(m_statsSnapshots) \subseteq Snapshots
    BY <2>0, <2>2 DEF Counting, Range
  <2>7. ASSUME NEW c \in Clients, NEW i \in DOMAIN hub[c]
        PROVE  /\ hub[c][i].method \in {"Subscribe", "Unsubscribe"} /\ hub[c][i].service \in Services
               /\ hub[c][i].effect \in DOMAIN effects[c] /\ hub[c][i].step \in {"group", "register"}
    <3>1. hub[c][i] \in Invocations
      BY <2>0, Invoked
    <3>2. FromEffect(c, hub[c][i])
      BY DEF IInv, Orderly
    <3> QED BY <3>1, <3>2 DEF Invocations, FromEffect
  <2>8. \A c \in Clients : \A e \in DOMAIN effects[c] : effects[c][e] \in
       [service : Services, paused : BOOLEAN, phase : Phases, cleaned : BOOLEAN]
    BY <2>0, EffectType DEF Effects
  <2>9. \A c \in Clients : shown[c] >= NoDetails
    BY <2>0 DEF Others, NoDetails
  <2> HIDE DEF All
  <2> QED BY <2>0, <2>3, <2>4, <2>5, <2>6, <2>7, <2>8, <2>9 DEF TypeOK, Types, Others
<1> QED BY <1>1, <1>2, <1>3, PTL DEF Spec
==============================================================================
