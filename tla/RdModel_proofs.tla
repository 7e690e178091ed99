---------------------------- MODULE RdModel_proofs ----------------------------
(***************************************************************************)
(* Theorems about the entities of the RD framework, for any values, any    *)
(* number of changes and any length of the queues.  One of the entities is *)
(* busy in a behaviour.  For each there is an invariant of the steps of    *)
(* the one entity; while another is busy its variables stay as they were   *)
(* bound, and what the invariant says is so from the start.                *)
(***************************************************************************)
EXTENDS RdModel, FiniteSetTheorems, TLAPS

-----------------------------------------------------------------------------
\* Facts about queues, which the leaves below would otherwise all have to find.
LEMMA AppendFacts ==
  ASSUME NEW T, NEW q \in Seq(T), NEW m \in T
  PROVE  /\ Append(q, m) \in Seq(T) /\ Append(q, m) # <<>>
         /\ Len(Append(q, m)) = Len(q) + 1
         /\ \A i \in 1..Len(q) : Append(q, m)[i] = q[i]
         /\ Append(q, m)[Len(q) + 1] = m
OBVIOUS

LEMMA TailFacts ==
  ASSUME NEW T, NEW q \in Seq(T), q # <<>>
  PROVE  /\ Tail(q) \in Seq(T) /\ Head(q) \in T /\ Head(q) = q[1]
         /\ Len(q) \in Nat /\ Len(q) > 0 /\ Len(Tail(q)) = Len(q) - 1
         /\ \A i \in 1..Len(Tail(q)) : Tail(q)[i] = q[i + 1]
         /\ Tail(q) = <<>> <=> Len(q) = 1
<1>1. Len(q) \in Nat /\ Len(q) > 0
  OBVIOUS
<1>2. Tail(q) \in Seq(T) /\ Len(Tail(q)) = Len(q) - 1
  BY <1>1
<1>3. Head(q) \in T /\ Head(q) = q[1]
  BY <1>1
<1>4. \A i \in 1..Len(Tail(q)) : Tail(q)[i] = q[i + 1]
  BY <1>1
<1>5. Tail(q) = <<>> <=> Len(Tail(q)) = 0
  BY <1>2
<1> QED BY <1>1, <1>2, <1>3, <1>4, <1>5

\* What a step of the model is to the parts.
LEMMA StepOfParts ==
  ASSUME [Next]_vars
  PROVE  /\ busy' = busy
         /\ IF busy = "property" THEN [PropertyNext]_propertyVars ELSE UNCHANGED propertyOnly
         /\ IF busy = "map" THEN [MapNext]_mapVars ELSE UNCHANGED mapOnly
         /\ IF busy = "list" THEN [ListNext]_listVars ELSE UNCHANGED listOnly
         /\ IF busy = "set" THEN [SetNext]_setVars ELSE UNCHANGED setOnly
         /\ IF busy = "call" THEN [CallNext]_callVars ELSE UNCHANGED callOnly
         /\ IF busy = "intern" THEN [InternNext]_internVars ELSE UNCHANGED internOnly
         /\ IF busy = "ext" THEN [ExtNext]_extVars ELSE UNCHANGED extOnly
         /\ IF busy = "link" THEN [LinkNext]_linkVars ELSE UNCHANGED linkVars
         /\ IF busy = "heartbeat" THEN [BeatNext]_beatVars ELSE UNCHANGED beatOnly
         /\ IF busy = "lifetimes" THEN [LifeNext]_lifeVars ELSE UNCHANGED lifeVars
<1> USE DEF besideExt, besideLink, data, above, propertyVars, mapVars, listVars, setVars,
            callVars, internVars, extVars, beatVars, propertyOnly, mapOnly, listOnly,
            setOnly, callOnly, answerVars, endVars, syncVars
<1>1. CASE UNCHANGED vars
  BY <1>1 DEF vars, internOnly, extOnly, beatOnly
<1>2. CASE UseProperty
  BY <1>2 DEF UseProperty
<1>3. CASE UseMap
  BY <1>3 DEF UseMap
<1>4. CASE UseList
  BY <1>4 DEF UseList
<1>5. CASE UseSet
  BY <1>5 DEF UseSet
<1>6. CASE UseCall
  BY <1>6 DEF UseCall
<1>7. CASE UseIntern
  BY <1>7 DEF UseIntern
<1>8. CASE UseExt
  BY <1>8 DEF UseExt
<1>9. CASE UseLink
  BY <1>9 DEF UseLink
<1>10. CASE UseHeartbeat
  BY <1>10 DEF UseHeartbeat
<1>11. CASE UseLifetimes
  BY <1>11 DEF UseLifetimes
<1> QED
  BY <1>1, <1>2, <1>3, <1>4, <1>5, <1>6, <1>7, <1>8, <1>9, <1>10, <1>11 DEF Next

-----------------------------------------------------------------------------
\* RdProperty
mv == masterVersion["master"]
sv == masterVersion["slave"]
M == net["master"]
S == net["slave"]

\* The slave is behind the master by exactly what is on its way to it.
Behind ==
  /\ mv = sv + Len(S)
  /\ \A i \in 1..Len(S) : S[i].version = sv + i

\* Versions on their way to the master do not decrease; the slave knew them.
Ordered ==
  /\ \A i \in 1..Len(M) : M[i].version <= sv
  /\ \A i, j \in 1..Len(M) : i <= j => M[i].version <= M[j].version

\* The value the two will agree on: the master's last while it is on its way,
\* else the slave's last if the master will accept it.
Destined ==
  /\ S # <<>> => Last(S).value = value["master"]
  /\ S = <<>> =>
       IF M # <<>> /\ Last(M).version = mv
       THEN Last(M).value = value["slave"]
       ELSE value["master"] = value["slave"]

PropertyInv == PropertyTypeOK /\ Behind /\ Ordered /\ Destined

\* The versions of a queue of messages are numbers.
LEMMA VersionsAreNumbers ==
  ASSUME NEW q \in Seq(PropertyMessages)
  PROVE  Len(q) \in Nat /\ \A i \in 1..Len(q) : q[i].version \in Nat
<1>1. Len(q) \in Nat /\ \A i \in 1..Len(q) : q[i] \in PropertyMessages
  OBVIOUS
<1>2. \A m \in PropertyMessages : m.version \in Nat
  BY DEF PropertyMessages
<1> QED BY <1>1, <1>2

\* The master sets: one more message and one more version.
LEMMA MasterSets ==
  ASSUME PropertyInv, NEW v \in PropertyValues, SetProperty("master", v)
  PROVE  PropertyInv'
<1> DEFINE m == [version |-> mv + 1, value |-> v]
<1>1. /\ m \in PropertyMessages /\ M \in Seq(PropertyMessages)
      /\ S \in Seq(PropertyMessages) /\ mv \in Nat /\ sv \in Nat
  BY DEF PropertyInv, PropertyTypeOK, PropertyMessages, Side, mv, sv, M, S
<1>2. /\ mv' = mv + 1 /\ sv' = sv /\ M' = M /\ S' = Append(S, m)
      /\ value'["master"] = v /\ value'["slave"] = value["slave"]
  BY DEF PropertyInv, PropertyTypeOK, SetProperty, Send, Other, Side, mv, sv, M, S
<1>3. PropertyTypeOK'
  BY <1>1 DEF PropertyInv, PropertyTypeOK, SetProperty, Send, Other, Side, mv, M, S
<1>4. /\ S' # <<>> /\ Len(S') = Len(S) + 1 /\ Len(S) \in Nat
      /\ \A i \in 1..Len(S) : S'[i] = S[i]
      /\ S'[Len(S) + 1] = m
  BY <1>1, <1>2, AppendFacts
<1>5. Behind'
  <2>1. mv = sv + Len(S)
    BY DEF PropertyInv, Behind
  <2>2. \A i \in 1..Len(S) : S'[i].version = sv + i
    BY <1>4 DEF PropertyInv, Behind
  <2>3. S'[Len(S) + 1].version = sv + (Len(S) + 1)
    BY <2>1, <1>1, <1>4
  <2>4. \A i \in 1..Len(S') : i \in 1..Len(S) \/ i = Len(S) + 1
    BY <1>4
  <2>5. mv' = sv' + Len(S')
    BY <2>1, <1>1, <1>2, <1>4
  <2>6. \A i \in 1..Len(S') : S'[i].version = sv + i
    BY <2>2, <2>3, <2>4
  <2> QED BY <2>5, <2>6, <1>2 DEF Behind
<1>6. Ordered'
  BY <1>2 DEF PropertyInv, Ordered
<1>7. Destined'
  BY <1>2, <1>4 DEF Destined, Last
<1> QED BY <1>3, <1>5, <1>6, <1>7 DEF PropertyInv

\* The slave sets: its version is at most the master's.
LEMMA SlaveSets ==
  ASSUME PropertyInv, NEW v \in PropertyValues, SetProperty("slave", v)
  PROVE  PropertyInv'
<1> DEFINE m == [version |-> sv, value |-> v]
<1>1. /\ m \in PropertyMessages /\ M \in Seq(PropertyMessages)
      /\ S \in Seq(PropertyMessages) /\ mv \in Nat /\ sv \in Nat
  BY DEF PropertyInv, PropertyTypeOK, PropertyMessages, Side, mv, sv, M, S
<1>2. /\ mv' = mv /\ sv' = sv /\ S' = S /\ M' = Append(M, m)
      /\ value'["slave"] = v /\ value'["master"] = value["master"]
  BY DEF PropertyInv, PropertyTypeOK, SetProperty, Send, Other, Side, mv, sv, M, S
<1>3. PropertyTypeOK'
  BY <1>1 DEF PropertyInv, PropertyTypeOK, SetProperty, Send, Other, Side, sv, M, S
<1>4. /\ M' # <<>> /\ Len(M') = Len(M) + 1 /\ Len(M) \in Nat
      /\ \A i \in 1..Len(M) : M'[i] = M[i]
      /\ M'[Len(M) + 1] = m
  BY <1>1, <1>2, AppendFacts
<1>5. Behind'
  BY <1>2 DEF PropertyInv, Behind
<1>6. Ordered'
  BY <1>1, <1>2, <1>4 DEF PropertyInv, Ordered
<1>7. Destined'
  BY <1>1, <1>2, <1>4 DEF PropertyInv, Destined, Last, Behind
<1> QED BY <1>3, <1>5, <1>6, <1>7 DEF PropertyInv

\* The slave accepts everything: it catches up by one version.
LEMMA SlaveReceives ==
  ASSUME PropertyInv, ReceiveProperty("slave")
  PROVE  PropertyInv'
<1>1. /\ S # <<>> /\ M \in Seq(PropertyMessages)
      /\ S \in Seq(PropertyMessages) /\ mv \in Nat /\ sv \in Nat
  BY DEF PropertyInv, PropertyTypeOK, ReceiveProperty, Side, mv, sv, M, S
<1>2. /\ Tail(S) \in Seq(PropertyMessages) /\ Head(S) \in PropertyMessages
      /\ Head(S) = S[1]
      /\ Len(S) \in Nat /\ Len(S) > 0 /\ Len(Tail(S)) = Len(S) - 1
      /\ \A i \in 1..Len(Tail(S)) : Tail(S)[i] = S[i + 1]
      /\ Tail(S) = <<>> <=> Len(S) = 1
  BY <1>1, TailFacts
<1>3. /\ mv' = mv /\ sv' = Head(S).version /\ M' = M /\ S' = Tail(S)
      /\ value'["slave"] = Head(S).value /\ value'["master"] = value["master"]
  BY DEF PropertyInv, PropertyTypeOK, ReceiveProperty, Rejected, Take, Side,
         mv, sv, M, S
<1>4. PropertyTypeOK'
  BY <1>1, <1>2 DEF PropertyInv, PropertyTypeOK, ReceiveProperty, Rejected, Take,
                    Side, PropertyMessages, mv, M, S
<1>5. sv' = sv + 1
  BY <1>1, <1>2, <1>3 DEF PropertyInv, Behind
<1>6. Behind'
  BY <1>1, <1>2, <1>3, <1>5 DEF PropertyInv, Behind
<1>7. Len(M) \in Nat /\ \A i \in 1..Len(M) : M[i].version \in Nat
  BY <1>1, VersionsAreNumbers
<1>8. Ordered'
  BY <1>1, <1>3, <1>5, <1>7 DEF PropertyInv, Ordered
<1>9. Destined'
  <2>1. CASE Len(S) = 1
    <3>1. value'["slave"] = value'["master"] /\ S' = <<>>
      BY <2>1, <1>1, <1>2, <1>3 DEF PropertyInv, Destined, Last
    <3>2. M # <<>> => Last(M).version < mv'
      BY <2>1, <1>1, <1>3, <1>7 DEF PropertyInv, Behind, Ordered, Last
    <3> QED BY <3>1, <3>2, <1>1, <1>3, <1>7 DEF Destined, Last
  <2>2. CASE Len(S) # 1
    BY <2>2, <1>1, <1>2, <1>3 DEF PropertyInv, Destined, Last
  <2> QED BY <2>1, <2>2
<1> QED BY <1>4, <1>6, <1>8, <1>9 DEF PropertyInv

\* The master accepts a message only if nothing of its own is on its way.
LEMMA MasterReceives ==
  ASSUME PropertyInv, ReceiveProperty("master")
  PROVE  PropertyInv'
<1>1. /\ M # <<>> /\ M \in Seq(PropertyMessages)
      /\ S \in Seq(PropertyMessages) /\ mv \in Nat /\ sv \in Nat
  BY DEF PropertyInv, PropertyTypeOK, ReceiveProperty, Side, mv, sv, M, S
<1>2. /\ Tail(M) \in Seq(PropertyMessages) /\ Head(M) \in PropertyMessages
      /\ Head(M) = M[1]
      /\ Len(M) \in Nat /\ Len(M) > 0 /\ Len(Tail(M)) = Len(M) - 1
      /\ \A i \in 1..Len(Tail(M)) : Tail(M)[i] = M[i + 1]
      /\ Tail(M) = <<>> <=> Len(M) = 1
  BY <1>1, TailFacts
<1>3. /\ S' = S /\ M' = Tail(M) /\ sv' = sv /\ value'["slave"] = value["slave"]
  BY DEF PropertyInv, PropertyTypeOK, ReceiveProperty, Rejected, Take, Side,
         mv, sv, M, S
<1>4. \/ /\ Head(M).version < mv
         /\ mv' = mv /\ value'["master"] = value["master"]
      \/ /\ ~(Head(M).version < mv)
         /\ mv' = Head(M).version /\ value'["master"] = Head(M).value
  BY DEF PropertyInv, PropertyTypeOK, ReceiveProperty, Rejected, Side, mv, M
<1>5. PropertyTypeOK'
  BY <1>1, <1>2 DEF PropertyInv, PropertyTypeOK, ReceiveProperty, Rejected, Take,
                    Side, PropertyMessages, mv, M, S
<1>6. /\ Head(M).version <= sv /\ sv <= mv /\ Len(S) \in Nat
      /\ Head(M).version \in Nat
  BY <1>1, <1>2 DEF PropertyInv, Behind, Ordered, PropertyMessages
<1>7. mv' = mv
  BY <1>1, <1>4, <1>6
<1>8. Behind'
  BY <1>3, <1>7 DEF PropertyInv, Behind
<1>9. \A i \in 1..Len(M) : M[i].version \in Nat
  BY <1>1, VersionsAreNumbers
<1>10. Ordered'
  BY <1>1, <1>2, <1>3, <1>9 DEF PropertyInv, Ordered
<1>11. Destined'
  BY <1>4, <1>1, <1>2, <1>3, <1>6, <1>7, <1>9 DEF Last, PropertyInv, Destined, Behind, Ordered
<1> QED BY <1>5, <1>8, <1>10, <1>11 DEF PropertyInv

LEMMA PropertyStep ==
  ASSUME PropertyInv, [PropertyNext]_propertyVars
  PROVE  PropertyInv'
<1>1. CASE UNCHANGED propertyVars
  BY <1>1 DEF propertyVars, PropertyInv, PropertyTypeOK, Behind, Ordered,
              Destined, mv, sv, M, S
<1>2. CASE PropertyNext
  BY <1>2, MasterSets, SlaveSets, MasterReceives, SlaveReceives
  DEF PropertyNext, Side
<1> QED BY <1>1, <1>2

\* A property nobody has set.
PropertyUnused ==
  /\ value = [s \in Side |-> NoValue]
  /\ masterVersion = [s \in Side |-> 0]

PropertyPart == IF busy = "property" THEN PropertyInv ELSE PropertyUnused

\* The strengthened invariant holds of the property from its binding on.
THEOREM PropertyInvariance == Spec => []PropertyPart
<1>1. Init => PropertyPart
  BY DEF Init, PropertyInit, NetInit, PropertyInv, PropertyTypeOK, PropertyMessages,
         Behind, Ordered, Destined, Side, mv, sv, M, S, PropertyPart, PropertyUnused
<1>2. PropertyPart /\ [Next]_vars => PropertyPart'
  BY StepOfParts, PropertyStep DEF PropertyPart, PropertyUnused, propertyOnly
<1> QED BY <1>1, <1>2, PTL DEF Spec

\* PropertyAgrees: nothing is lost of what the two peers set, whatever crossed.
THEOREM PropertyAgreement == Spec => []PropertyAgrees
<1>1. PropertyPart => PropertyAgrees
  BY DEF PropertyPart, PropertyUnused, PropertyInv, PropertyTypeOK, Behind, Destined,
         PropertyAgrees, Quiet, Side, mv, sv, M, S
<1> QED BY <1>1, PropertyInvariance, PTL

\* MasterPrevails: what changes the master's copy without a message of its
\* own was received, and is accepted only when the slave is up to date.
THEOREM MasterHasTheLastWord == Spec => MasterPrevails
<1>1. PropertyInv /\ [PropertyNext]_propertyVars
        => (value'["master"] # value["master"] /\ Len(net'["slave"]) = Len(net["slave"])
              => net["slave"] = <<>>)
  <2> SUFFICES ASSUME PropertyInv, [PropertyNext]_propertyVars,
                      value'["master"] # value["master"],
                      Len(net'["slave"]) = Len(net["slave"])
               PROVE  net["slave"] = <<>>
    OBVIOUS
  <2>1. S \in Seq(PropertyMessages) /\ M \in Seq(PropertyMessages)
        /\ mv \in Nat /\ sv \in Nat /\ value \in [Side -> PropertyValues \cup {NoValue}]
        /\ net \in [Side -> Seq(PropertyMessages)]
    BY DEF PropertyInv, PropertyTypeOK, Side, mv, sv, M, S
  <2>2. CASE UNCHANGED propertyVars
    BY <2>2 DEF propertyVars
  <2>3. ASSUME NEW v \in PropertyValues, SetProperty("master", v) PROVE FALSE
    <3>1. S' = Append(S, [version |-> mv', value |-> v]) /\ mv' = mv + 1
      BY <2>1, <2>3 DEF PropertyInv, PropertyTypeOK, SetProperty, Send, Other, Side, mv, S
    <3> QED BY <3>1, <2>1, <2>3 DEF S
  <2>4. ASSUME NEW v \in PropertyValues, SetProperty("slave", v) PROVE FALSE
    BY <2>1, <2>4 DEF SetProperty, Side
  <2>5. ASSUME ReceiveProperty("slave") PROVE FALSE
    BY <2>1, <2>5 DEF ReceiveProperty, Rejected, Side
  <2>6. ASSUME ReceiveProperty("master") PROVE S = <<>>
    <3>1. M # <<>> /\ ~(Head(M).version < mv)
      BY <2>1, <2>6 DEF ReceiveProperty, Rejected, Side, mv, M
    <3>2. Head(M) = M[1] /\ Len(M) > 0 /\ Len(M) \in Nat /\ Head(M) \in PropertyMessages
      BY <3>1, <2>1, TailFacts
    <3> QED BY <3>1, <3>2, <2>1 DEF PropertyInv, Ordered, Behind, PropertyMessages
  <2> QED BY <2>2, <2>3, <2>4, <2>5, <2>6 DEF PropertyNext, Side, S
<1>2. PropertyPart /\ [Next]_vars
        => [value'["master"] # value["master"] /\ Len(net'["slave"]) = Len(net["slave"])
              => net["slave"] = <<>>]_propertyVars
  BY <1>1, StepOfParts DEF PropertyPart, propertyOnly
<1> QED BY <1>2, PropertyInvariance, PTL DEF Spec, MasterPrevails
-----------------------------------------------------------------------------
\* RdSet

\* The messages of a queue that are about a value, and the last one of them.
About(q, v) == {i \in 1..Len(q) : q[i].value = v}
IsLastAbout(q, v, i) == i \in About(q, v) /\ \A j \in About(q, v) : j <= i

\* A value whose changes never crossed is on its way in one direction at most,
\* and the last message about it says what the sender has.
Follows(v) ==
  /\ \E s \in Side : About(net[s], v) = {}
  /\ \A s \in Side : \A i \in 1..Len(net[s]) :
       IsLastAbout(net[s], v, i) => (net[s][i].op = "add" <=> v \in set[Other(s)])
  /\ (\A s \in Side : About(net[s], v) = {})
       => (v \in set["master"] <=> v \in set["slave"])

SetInv == SetTypeOK /\ \A v \in SetValues \ crossed : Follows(v)

SetUnused == set = [s \in Side |-> {}] /\ crossed = {}

SetPart == IF busy = "set" THEN SetInv ELSE SetUnused

LEMMA OtherSide ==
  /\ \A s \in Side : Other(s) \in Side /\ Other(s) # s /\ Other(Other(s)) = s
  /\ \A s, r \in Side : r = s \/ r = Other(s)
BY DEF Side, Other

LEMMA ChangeSetStep ==
  ASSUME SetInv, NEW s \in Side, NEW op \in {"add", "remove"}, NEW v \in SetValues,
         ChangeSet(s, op, v)
  PROVE  SetInv'
<1> DEFINE o == Other(s)
           m == [op |-> op, value |-> v]
<1>1. /\ m \in SetMessages /\ o \in Side /\ o # s /\ Other(o) = s
      /\ net \in [Side -> Seq(SetMessages)] /\ set \in [Side -> SUBSET SetValues]
      /\ crossed \subseteq SetValues
  BY OtherSide DEF SetInv, SetTypeOK, SetMessages
<1>2. /\ net' = [net EXCEPT ![o] = Append(@, m)]
      /\ set' = [set EXCEPT ![s] = With(@, m)]
      /\ crossed' = crossed \cup ({v} \cap OnItsWay(s))
  BY <1>1 DEF ChangeSet, Send
<1>3. With(set[s], m) \subseteq SetValues
  BY <1>1 DEF With
<1>4. SetTypeOK'
  BY <1>1, <1>2, <1>3, AppendFacts DEF SetTypeOK
<1>5. /\ net'[s] = net[s] /\ net'[o] = Append(net[o], m)
      /\ set'[o] = set[o] /\ set'[s] = With(set[s], m)
  BY <1>1, <1>2
<1>6. /\ Len(net'[o]) = Len(net[o]) + 1 /\ Len(net[o]) \in Nat
      /\ \A i \in 1..Len(net[o]) : net'[o][i] = net[o][i]
      /\ net'[o][Len(net[o]) + 1] = m
  BY <1>1, <1>5, AppendFacts
<1>7. ASSUME NEW u \in SetValues \ crossed' PROVE Follows(u)'
  <2>1. u \in SetValues \ crossed /\ Follows(u)
    BY <1>2 DEF SetInv
  <2>2. CASE u = v
    <3>1. About(net[s], v) = {}
      BY <2>1, <2>2, <1>1, <1>2 DEF OnItsWay, About
    <3>2. IsLastAbout(net'[o], v, Len(net[o]) + 1)
      BY <1>6 DEF IsLastAbout, About
    <3>3. \A i \in 1..Len(net'[o]) : IsLastAbout(net'[o], v, i) => i = Len(net[o]) + 1
      BY <1>6, <3>2 DEF IsLastAbout, About
    <3>4. m.op = "add" <=> v \in set'[s]
      BY <1>5 DEF With
    <3>5. About(net'[s], v) = {} /\ About(net'[o], v) # {}
      BY <3>1, <3>2, <1>5 DEF IsLastAbout
    <3>6. ASSUME NEW r \in Side, NEW i \in 1..Len(net'[r]), IsLastAbout(net'[r], v, i)
          PROVE  net'[r][i].op = "add" <=> v \in set'[Other(r)]
      <4>1. r = o
        BY <3>5, <3>6, OtherSide DEF IsLastAbout
      <4> QED BY <4>1, <3>3, <3>4, <3>6, <1>1, <1>6
    <3> QED BY <2>2, <3>5, <3>6, <1>1 DEF Follows
  <2>3. CASE u # v
    <3>1. \A r \in Side : About(net'[r], u) = About(net[r], u)
      <4>1. About(net'[o], u) = About(net[o], u)
        BY <1>6, <2>3 DEF About
      <4> QED BY <4>1, <1>5, OtherSide
    <3>2. \A r \in Side : u \in set'[r] <=> u \in set[r]
      <4>1. u \in set'[s] <=> u \in set[s]
        BY <1>5, <2>3 DEF With
      <4> QED BY <4>1, <1>5, OtherSide
    <3>3. ASSUME NEW r \in Side, NEW i \in 1..Len(net'[r]), IsLastAbout(net'[r], u, i)
          PROVE  net'[r][i].op = "add" <=> u \in set'[Other(r)]
      <4>1. i \in About(net[r], u) /\ IsLastAbout(net[r], u, i)
        BY <3>1, <3>3 DEF IsLastAbout
      <4>2. i \in 1..Len(net[r]) /\ net'[r][i] = net[r][i]
        BY <4>1, <1>5, <1>6, OtherSide DEF About
      <4> QED BY <4>1, <4>2, <3>2, <2>1, OtherSide DEF Follows
    <3> QED BY <2>1, <3>1, <3>2, <3>3 DEF Follows, Side
  <2> QED BY <2>2, <2>3
<1> QED BY <1>4, <1>7 DEF SetInv

LEMMA ReceiveSetStep ==
  ASSUME SetInv, NEW s \in Side, ReceiveSet(s)
  PROVE  SetInv'
<1> DEFINE o == Other(s)
           q == net[s]
           m == Head(q)
<1>1. /\ o \in Side /\ o # s /\ Other(o) = s
      /\ net \in [Side -> Seq(SetMessages)] /\ set \in [Side -> SUBSET SetValues]
      /\ crossed \subseteq SetValues /\ q \in Seq(SetMessages) /\ q # <<>>
  BY OtherSide DEF SetInv, SetTypeOK, ReceiveSet
<1>2. /\ net' = [net EXCEPT ![s] = Tail(q)] /\ set' = [set EXCEPT ![s] = With(@, m)]
      /\ crossed' = crossed
  BY DEF ReceiveSet, Take, Applied
<1>3. /\ Tail(q) \in Seq(SetMessages) /\ m \in SetMessages /\ m = q[1]
      /\ Len(q) \in Nat /\ Len(q) > 0 /\ Len(Tail(q)) = Len(q) - 1
      /\ \A i \in 1..Len(Tail(q)) : Tail(q)[i] = q[i + 1]
  BY <1>1, TailFacts
<1>4. SetTypeOK'
  BY <1>1, <1>2, <1>3 DEF SetTypeOK, With, SetMessages
<1>5. /\ net'[s] = Tail(q) /\ net'[o] = net[o]
      /\ set'[o] = set[o] /\ set'[s] = With(set[s], m)
  BY <1>1, <1>2
<1>6. ASSUME NEW u \in SetValues \ crossed PROVE Follows(u)'
  <2>1. Follows(u)
    BY DEF SetInv
  <2>2. \A i \in Int : i \in About(Tail(q), u) <=> i >= 1 /\ i + 1 \in About(q, u)
    BY <1>3 DEF About
  <2>3. About(q, u) \subseteq Int /\ About(Tail(q), u) \subseteq Int
    BY DEF About
  <2>4. \A i \in 1..Len(Tail(q)) :
           IsLastAbout(Tail(q), u, i) => IsLastAbout(q, u, i + 1)
    <3> SUFFICES ASSUME NEW i \in 1..Len(Tail(q)), IsLastAbout(Tail(q), u, i),
                        NEW j \in About(q, u)
                 PROVE  i + 1 \in About(q, u) /\ j <= i + 1
      BY <2>2, <2>3 DEF IsLastAbout
    <3>1. i \in Int /\ j \in Int /\ i >= 1 /\ j >= 1 /\ i + 1 \in About(q, u)
      BY <2>2, <2>3 DEF IsLastAbout, About
    <3>2. CASE j = 1
      BY <3>1, <3>2
    <3>3. CASE j # 1
      <4>1. j - 1 \in About(Tail(q), u)
        BY <3>1, <3>3, <2>2
      <4> QED BY <4>1, <3>1 DEF IsLastAbout
    <3> QED BY <3>1, <3>2, <3>3
  <2>5. About(q, u) = {} => About(Tail(q), u) = {}
    BY <2>2, <2>3
  <2>6. ASSUME NEW r \in Side, NEW i \in 1..Len(net'[r]), IsLastAbout(net'[r], u, i)
        PROVE  net'[r][i].op = "add" <=> u \in set'[Other(r)]
    <3>1. CASE r = s
      <4>1. net'[s][i] = q[i + 1] /\ i + 1 \in 1..Len(q)
        BY <3>1, <2>6, <1>3, <1>5
      <4> QED BY <4>1, <3>1, <2>1, <2>4, <2>6, <1>1, <1>5 DEF Follows
    <3>2. CASE r = o
      <4>1. i \in About(net[o], u) /\ About(q, u) = {}
        BY <3>2, <2>6, <2>1, <1>5, OtherSide DEF IsLastAbout, Follows
      <4>2. m.value # u
        BY <4>1, <1>3 DEF About
      <4>3. u \in set'[s] <=> u \in set[s]
        BY <4>2, <1>5 DEF With
      <4> QED BY <4>3, <3>2, <2>1, <2>6, <1>1, <1>5 DEF Follows
    <3> QED BY <3>1, <3>2, OtherSide
  <2>7. \E r \in Side : About(net'[r], u) = {}
    BY <2>1, <2>5, <1>5, OtherSide DEF Follows
  <2>8. ASSUME \A r \in Side : About(net'[r], u) = {}
        PROVE  u \in set'[s] <=> u \in set'[o]
    <3>1. About(Tail(q), u) = {} /\ About(net[o], u) = {}
      BY <2>8, <1>1, <1>5
    <3>2. CASE m.value = u
      <4>1. 1 \in About(q, u)
        BY <3>2, <1>3 DEF About
      <4>2. \A j \in About(q, u) : j <= 1
        <5> SUFFICES ASSUME NEW j \in About(q, u), ~(j <= 1) PROVE FALSE
          OBVIOUS
        <5>1. j \in Int /\ j - 1 \in About(Tail(q), u)
          BY <2>2, <2>3
        <5> QED BY <5>1, <3>1
      <4>3. m.op = "add" <=> u \in set[o]
        BY <4>1, <4>2, <2>1, <1>1, <1>3 DEF Follows, IsLastAbout
      <4>4. m.op = "add" <=> u \in set'[s]
        BY <3>2, <1>5 DEF With
      <4> QED BY <4>3, <4>4, <1>5
    <3>3. CASE m.value # u
      <4>1. About(q, u) = {}
        <5> SUFFICES ASSUME NEW j \in About(q, u) PROVE FALSE
          OBVIOUS
        <5>1. j \in Int /\ j >= 1 /\ j # 1
          BY <3>3, <1>3 DEF About
        <5>2. j - 1 \in About(Tail(q), u)
          BY <5>1, <2>2
        <5> QED BY <5>2, <3>1
      <4>2. u \in set[s] <=> u \in set[o]
        BY <4>1, <3>1, <2>1, OtherSide DEF Follows, Side
      <4> QED BY <4>2, <3>3, <1>5 DEF With
    <3> QED BY <3>2, <3>3
  <2>9. (\A r \in Side : About(net'[r], u) = {})
          => (u \in set'["master"] <=> u \in set'["slave"])
    BY <2>8, OtherSide DEF Side
  <2> QED BY <2>6, <2>7, <2>9 DEF Follows
<1> QED BY <1>2, <1>4, <1>6 DEF SetInv

\* The copies of a value whose changes never crossed follow each other.
THEOREM SetInvariance == Spec => []SetPart
<1>1. Init => SetPart
  <2>1. \A q : q = <<>> => \A v : About(q, v) = {}
    BY DEF About
  <2> QED
    BY <2>1 DEF Init, SetInit, NetInit, SetPart, SetInv, SetUnused, SetTypeOK, Follows,
           SetMessages, Side, Other, IsLastAbout
<1>2. SetInv /\ [SetNext]_setVars => SetInv'
  <2>1. SetInv /\ UNCHANGED setVars => SetInv'
    BY DEF setVars, SetInv, SetTypeOK, Follows
  <2> QED BY <2>1, ChangeSetStep, ReceiveSetStep DEF SetNext
<1>3. SetPart /\ [Next]_vars => SetPart'
  BY <1>2, StepOfParts DEF SetPart, SetUnused, setOnly
<1> QED BY <1>1, <1>3, PTL DEF Spec

\* SetAgrees: without versions, and yet nothing is lost unless changes cross.
THEOREM SetAgreement == Spec => []SetAgrees
<1>1. SetInv => SetAgrees
  <2> SUFFICES ASSUME SetInv, Quiet, NEW v, v \notin crossed,
                      v \in set["master"] \/ v \in set["slave"]
               PROVE  v \in set["master"] /\ v \in set["slave"]
    BY DEF SetAgrees
  <2>1. v \in SetValues
    BY DEF SetInv, SetTypeOK, Side
  <2>2. \A s \in Side : About(net[s], v) = {}
    BY DEF Quiet, About
  <2> QED BY <2>1, <2>2 DEF SetInv, Follows
<1>2. SetPart => SetAgrees
  BY <1>1 DEF SetPart, SetUnused, SetAgrees, Side
<1> QED BY <1>2, SetInvariance, PTL

-----------------------------------------------------------------------------
\* RdCall

\* The tasks that somebody has asked for.
Asked == {u \in Task : result[u] # "unused"}

RequestsFor(T) == [task : T]
AnswersTo(T) == [task : T, result : Results]

\* Messages are about these, and the answers to start about none of sync's.
CallInv ==
  /\ net \in [Side -> Seq(RequestsFor(Asked) \cup AnswersTo(Asked))]
  /\ net["slave"] \in Seq(RequestsFor(Asked))
  /\ net["master"] \in Seq(AnswersTo(Asked))
  /\ scheduled \in Seq(AnswersTo(Asked \ synced))
  /\ awaiting \cup synced \cup toCancel \cup met \subseteq Asked
  /\ {answering, syncTaskId} \subseteq synced \cup {NoTask}
  /\ cancelling \in Asked \cup {NoTask} /\ settling \in (Asked \ synced) \cup {NoTask}
  /\ waiting \in {NoTask, syncTaskId}
  /\ result \in [Task -> Results \cup {"unused", "empty"}]
  /\ answer \in Results /\ bound \in BOOLEAN
  /\ OnlyFailuresBlock

\* The default scheduler is about to set what the first of its answers is about.
Settling == settling # NoTask => scheduled # <<>> /\ Head(scheduled).task = settling /\ waiting = NoTask

\* Something was set since u was found empty: its cancellation, and that is recorded.
Overtaken(u) == result[u] # "empty" => u \in met /\ result[u] = "cancelled"

\* What two who set the same result have seen of each other.
CallEnds ==
  /\ \A u \in Task : result[u] = "empty" => MayBeEmpty(u)
  /\ settling # NoTask => Overtaken(settling)
  /\ answering # NoTask /\ waiting = answering => Overtaken(answering)
  /\ cancelling # NoTask /\ result[cancelling] # "empty" => cancelling \in met
  /\ cancelling # NoTask /\ cancelling \in {answering, settling} => cancelling \in met

CallAll == CallInv /\ Settling /\ CallEnds

CallUnused ==
  /\ result = [u \in Task |-> "unused"]
  /\ syncTaskId = NoTask /\ answering = NoTask /\ settling = NoTask /\ cancelling = NoTask
  /\ synced = {}

CallPart == IF busy = "call" THEN CallAll ELSE CallUnused

LEMMA SeqOfMore ==
  ASSUME NEW A, NEW B, A \subseteq B
  PROVE  Seq(A) \subseteq Seq(B)
<1> SUFFICES ASSUME NEW q \in Seq(A) PROVE q \in Seq(B)
  OBVIOUS
<1>1. Len(q) \in Nat /\ q = [i \in 1..Len(q) |-> q[i]] /\ \A i \in 1..Len(q) : q[i] \in A
  OBVIOUS
<1> QED BY <1>1

LEMMA MoreTasks ==
  ASSUME NEW A, NEW B, A \subseteq B
  PROVE  /\ Seq(RequestsFor(A)) \subseteq Seq(RequestsFor(B))
         /\ Seq(AnswersTo(A)) \subseteq Seq(AnswersTo(B))
<1>1. RequestsFor(A) \subseteq RequestsFor(B) /\ AnswersTo(A) \subseteq AnswersTo(B)
  BY DEF RequestsFor, AnswersTo
<1> QED BY <1>1, SeqOfMore

\* The types that follow from it.
LEMMA CallTypes ==
  ASSUME CallInv, Settling, CallEnds
  PROVE  CallTypeOK
<1>1. Asked \subseteq Task /\ Asked \ synced \subseteq Task
  BY DEF Asked
<1>2. RequestsFor(Task) = Requests /\ AnswersTo(Task) = Answers
  BY DEF Requests, Answers, RequestsFor, AnswersTo
<1>3. /\ net["slave"] \in Seq(Requests) /\ net["master"] \in Seq(Answers)
      /\ scheduled \in Seq(Answers)
  BY <1>1, <1>2, MoreTasks DEF CallInv
<1> QED BY <1>1, <1>3 DEF CallInv, Settling, CallEnds, CallTypeOK

\* What a message taken or made is about.
LEMMA CallMessages ==
  ASSUME NEW A
  PROVE  /\ \A m \in RequestsFor(A) : m.task \in A
         /\ \A m \in AnswersTo(A) : m.task \in A /\ m.result \in Results
         /\ \A u \in A : [task |-> u] \in RequestsFor(A)
         /\ \A u \in A, r \in Results : [task |-> u, result |-> r] \in AnswersTo(A)
         /\ \A C \in SUBSET A : \A m \in AnswersTo(A) : m.task \in C => m \in AnswersTo(C)
BY DEF RequestsFor, AnswersTo

\* Queues that one message is taken from or put into.
LEMMA SideQueues ==
  ASSUME NEW A, NEW B, NEW n, n["slave"] \in Seq(A), n["master"] \in Seq(B),
         n = [s \in Side |-> n[s]]
  PROVE  n \in [Side -> Seq(A \cup B)]
<1>1. n["slave"] \in Seq(A \cup B) /\ n["master"] \in Seq(A \cup B)
  BY SeqOfMore
<1> QED BY <1>1 DEF Side

\* A step that asks for no more and no less leaves what is queued well typed.
LEMMA RequestStep ==
  ASSUME CallInv, NEW u \in Task, Request(u),
         UNCHANGED <<awaiting, met, answerVars, endVars>>,
         \/ UNCHANGED syncVars
         \/ syncTaskId' = u /\ waiting' = u /\ synced' = synced \cup {u}
  PROVE  CallInv'
<1> USE DEF answerVars, endVars, syncVars
<1>1. /\ result' = [result EXCEPT ![u] = "empty"] /\ result[u] = "unused"
      /\ bound /\ waiting = NoTask /\ bound' = bound
      /\ net' = [net EXCEPT !["slave"] = Append(@, [task |-> u])]
  BY DEF Request, Send, Other
<1>2. /\ result' \in [Task -> Results \cup {"unused", "empty"}]
      /\ Asked' = Asked \cup {u} /\ u \notin Asked
  BY <1>1 DEF CallInv, Asked
<1>3. [task |-> u] \in RequestsFor(Asked')
  BY <1>2, CallMessages
<1>4. /\ net["slave"] \in Seq(RequestsFor(Asked'))
      /\ net["master"] \in Seq(AnswersTo(Asked'))
      /\ scheduled \in Seq(AnswersTo(Asked' \ synced'))
  <2>1. Asked \subseteq Asked' /\ Asked \ synced \subseteq Asked' \ synced'
    BY <1>2
  <2> QED BY <2>1, MoreTasks DEF CallInv
<1>5. Append(net["slave"], [task |-> u]) \in Seq(RequestsFor(Asked'))
  BY <1>3, <1>4, AppendFacts
<1>6. net'["slave"] = Append(net["slave"], [task |-> u]) /\ net'["master"] = net["master"]
  BY <1>1 DEF CallInv, Side
<1>7. net' \in [Side -> Seq(RequestsFor(Asked') \cup AnswersTo(Asked'))]
  <2>1. net' = [s \in Side |-> net'[s]]
    BY <1>1 DEF CallInv
  <2> QED BY <2>1, <1>4, <1>5, <1>6, SideQueues
<1>8. OnlyFailuresBlock'
  BY <1>1 DEF CallInv, OnlyFailuresBlock
<1>9. /\ awaiting' \cup synced' \cup toCancel' \cup met' \subseteq Asked'
      /\ {answering', syncTaskId'} \subseteq synced' \cup {NoTask}
      /\ waiting' \in {NoTask, syncTaskId'}
  BY <1>1, <1>2 DEF CallInv
<1>10. cancelling' \in Asked' \cup {NoTask} /\ settling' \in (Asked' \ synced') \cup {NoTask}
  BY <1>2 DEF CallInv
<1> QED BY <1>2, <1>4, <1>5, <1>6, <1>7, <1>8, <1>9, <1>10 DEF CallInv

\* A task just made is empty, and nobody is about to set its result.
LEMMA RequestEnds ==
  ASSUME CallAll, NEW u \in Task, Request(u),
         UNCHANGED <<awaiting, met, answerVars, endVars>>,
         \/ UNCHANGED syncVars
         \/ syncTaskId' = u /\ waiting' = u /\ synced' = synced \cup {u}
  PROVE  Settling' /\ CallEnds'
<1>1. /\ result' = [result EXCEPT ![u] = "empty"] /\ u \notin Asked
      /\ bound /\ bound' = bound /\ settling = NoTask /\ settling' = settling /\ waiting = NoTask
      /\ answering' = answering /\ cancelling' = cancelling /\ met' = met
  BY DEF Request, Asked, answerVars, endVars
<1>2. answering # u /\ cancelling # u /\ \A w \in Task : w # u => result'[w] = result[w]
  BY <1>1, NoTaskAssumption DEF CallAll, CallInv
<1>3. \A w \in Task : MayBeEmpty(w)'
  BY <1>1 DEF MayBeEmpty
<1>4. waiting' \in {NoTask, u}
  BY <1>1 DEF syncVars
<1>5. cancelling # NoTask => cancelling \in Task
  BY DEF CallAll, CallInv, Asked
<1> QED
  BY <1>1, <1>2, <1>3, <1>4, <1>5 DEF CallAll, CallEnds, Settling

\* A step that changes only the queues, with messages about what was asked for.
LEMMA QueueStep ==
  ASSUME CallAll, UNCHANGED <<result, met, answerVars, endVars, syncVars>>,
         net' \in [Side -> Seq(RequestsFor(Asked) \cup AnswersTo(Asked))],
         net'["slave"] \in Seq(RequestsFor(Asked)),
         net'["master"] \in Seq(AnswersTo(Asked)),
         awaiting' \subseteq Asked
  PROVE  CallAll'
<1> USE DEF answerVars, endVars, syncVars
<1>1. Asked' = Asked
  BY DEF Asked
<1>2. CallInv'
  BY <1>1 DEF CallAll, CallInv, OnlyFailuresBlock
<1>3. Settling' /\ CallEnds'
  BY DEF CallAll, Settling, CallEnds, Overtaken, MayBeEmpty, Living
<1> QED BY <1>2, <1>3 DEF CallAll

LEMMA ServeStep ==
  ASSUME CallAll, Serve
  PROVE  CallAll'
<1> DEFINE q == net["slave"]
           u == Head(q).task
<1> USE DEF CallAll
<1>1. /\ Tail(q) \in Seq(RequestsFor(Asked)) /\ u \in Asked
      /\ net \in [Side -> Seq(RequestsFor(Asked) \cup AnswersTo(Asked))]
  <2>1. q # <<>> /\ q \in Seq(RequestsFor(Asked))
    BY DEF Serve, CallInv
  <2>2. Tail(q) \in Seq(RequestsFor(Asked)) /\ Head(q) \in RequestsFor(Asked)
    BY <2>1, TailFacts
  <2> QED BY <2>2, CallMessages DEF CallInv
<1>2. CASE \E r \in Results : TakeAndReply("slave", [task |-> u, result |-> r]) /\ UNCHANGED awaiting
  <2>1. PICK r \in Results : TakeAndReply("slave", [task |-> u, result |-> r])
    BY <1>2
  <2>2. [task |-> u, result |-> r] \in AnswersTo(Asked)
    BY <1>1, CallMessages
  <2>3. /\ net'["slave"] = Tail(q) /\ net' = [s \in Side |-> net'[s]]
        /\ net'["master"] = Append(net["master"], [task |-> u, result |-> r])
    BY <1>1, <2>1 DEF TakeAndReply, Other, Side
  <2>4. net'["master"] \in Seq(AnswersTo(Asked))
    BY <2>2, <2>3, AppendFacts DEF CallInv
  <2>5. net' \in [Side -> Seq(RequestsFor(Asked) \cup AnswersTo(Asked))]
    BY <1>1, <2>3, <2>4, SideQueues
  <2> QED BY <1>1, <1>2, <2>3, <2>4, <2>5, QueueStep DEF Serve, CallInv
<1>3. CASE Take("slave") /\ awaiting' = awaiting \cup {u}
  <2>1. /\ net'["slave"] = Tail(q) /\ net' = [s \in Side |-> net'[s]]
        /\ net'["master"] = net["master"]
    BY <1>1, <1>3 DEF Take, Side
  <2>2. net' \in [Side -> Seq(RequestsFor(Asked) \cup AnswersTo(Asked))]
    BY <1>1, <2>1, SideQueues DEF CallInv
  <2> QED BY <1>1, <1>3, <2>1, <2>2, QueueStep DEF Serve, CallInv
<1> QED BY <1>2, <1>3 DEF Serve

LEMMA AnswerLaterStep ==
  ASSUME CallAll, NEW u \in Task, AnswerLater(u)
  PROVE  CallAll'
<1> USE DEF CallAll
<1>1. PICK r \in Results : Send("slave", [task |-> u, result |-> r])
  BY DEF AnswerLater
<1>2. [task |-> u, result |-> r] \in AnswersTo(Asked)
  BY CallMessages DEF AnswerLater, CallInv
<1>3. /\ net'["slave"] = net["slave"] /\ net' = [s \in Side |-> net'[s]]
      /\ net'["master"] = Append(net["master"], [task |-> u, result |-> r])
  BY <1>1 DEF Send, Other, Side, CallInv
<1>4. net'["master"] \in Seq(AnswersTo(Asked))
  BY <1>2, <1>3, AppendFacts DEF CallInv
<1>5. net' \in [Side -> Seq(RequestsFor(Asked) \cup AnswersTo(Asked))]
  BY <1>3, <1>4, SideQueues DEF CallInv
<1> QED BY <1>3, <1>4, <1>5, QueueStep DEF AnswerLater, CallInv

LEMMA ReceiveAnswerStep ==
  ASSUME CallAll, ReceiveAnswer
  PROVE  CallAll'
<1> USE DEF CallAll, endVars, syncVars
<1> DEFINE q == net["master"]
           m == Head(q)
<1>1. /\ Tail(q) \in Seq(AnswersTo(Asked))
      /\ m \in AnswersTo(Asked) /\ m.task \in Asked /\ m.task \in Task /\ m.result \in Results
      /\ net \in [Side -> Seq(RequestsFor(Asked) \cup AnswersTo(Asked))]
  <2>1. q # <<>> /\ q \in Seq(AnswersTo(Asked))
    BY DEF ReceiveAnswer, CallInv
  <2>2. Tail(q) \in Seq(AnswersTo(Asked)) /\ m \in AnswersTo(Asked)
    BY <2>1, TailFacts
  <2> QED BY <2>2, CallMessages DEF CallInv, Asked
<1>2. /\ net'["master"] = Tail(q) /\ net' = [s \in Side |-> net'[s]]
      /\ net'["slave"] = net["slave"]
  BY <1>1 DEF ReceiveAnswer, Take, Side
<1>3. net' \in [Side -> Seq(RequestsFor(Asked) \cup AnswersTo(Asked))]
  BY <1>1, <1>2, SideQueues DEF CallInv
<1>4. /\ Asked' = Asked /\ answering = NoTask /\ UNCHANGED <<result, awaiting, settling>>
      /\ UNCHANGED <<bound, toCancel, cancelling, syncTaskId, waiting, synced>>
  BY DEF ReceiveAnswer, Asked
<1>5. CASE UNCHANGED <<answering, answer, scheduled, met>>
  <2>1. CallInv'
    BY <1>1, <1>2, <1>3, <1>4, <1>5 DEF CallInv, OnlyFailuresBlock
  <2>2. Settling' /\ CallEnds'
    BY <1>4, <1>5 DEF Settling, CallEnds, Overtaken, MayBeEmpty, Living
  <2> QED BY <2>1, <2>2
<1>6. CASE /\ m.task \notin synced /\ scheduled' = Append(scheduled, m)
           /\ UNCHANGED <<answering, answer, met>>
  <2>1. scheduled' \in Seq(AnswersTo(Asked \ synced))
    <3>1. m \in AnswersTo(Asked \ synced)
      BY <1>1, <1>6, CallMessages
    <3> QED BY <3>1, <1>6, AppendFacts DEF CallInv
  <2>2. CallInv'
    BY <1>1, <1>2, <1>3, <1>4, <1>6, <2>1 DEF CallInv, OnlyFailuresBlock
  <2>3. Settling'
    <3>1. scheduled # <<>> => scheduled' # <<>> /\ Head(scheduled') = Head(scheduled)
      BY <1>6 DEF CallInv
    <3> QED BY <3>1, <1>4 DEF Settling
  <2>4. CallEnds'
    BY <1>4, <1>6 DEF CallEnds, Overtaken, MayBeEmpty, Living
  <2> QED BY <2>2, <2>3, <2>4
<1>7. CASE /\ m.task \in synced /\ Unanswered(m.task) /\ answering' = m.task /\ answer' = m.result
           /\ met' = met \cup ({m.task} \cap {cancelling}) /\ UNCHANGED scheduled
  <2>1. CallInv'
    BY <1>1, <1>2, <1>3, <1>4, <1>7 DEF CallInv, OnlyFailuresBlock
  <2>2. Settling'
    BY <1>4, <1>7 DEF Settling
  <2>3. \A u \in Task : result'[u] = "empty" => MayBeEmpty(u)'
    BY <1>4 DEF CallEnds, MayBeEmpty, Living
  <2>4. /\ settling' # NoTask => Overtaken(settling)'
        /\ answering' # NoTask /\ waiting' = answering' => Overtaken(answering)'
        /\ cancelling' # NoTask /\ result'[cancelling'] # "empty" => cancelling' \in met'
    BY <1>4, <1>7 DEF CallEnds, Overtaken, Unanswered
  <2>5. cancelling' # NoTask /\ cancelling' \in {answering', settling'} => cancelling' \in met'
    BY <1>4, <1>7 DEF CallEnds
  <2> QED BY <2>1, <2>2, <2>3, <2>4, <2>5 DEF CallEnds
<1> QED BY <1>5, <1>6, <1>7 DEF ReceiveAnswer

\* What a result may become without anyone asking.
LEMMA ResultStep ==
  ASSUME CallInv, UNCHANGED <<net, syncTaskId, waiting, synced, answer, awaiting, met>>,
         bound' \in BOOLEAN, answering' \in {NoTask, answering},
         toCancel' \subseteq Asked, cancelling' \in Asked \cup {NoTask},
         settling' \in (Asked \ synced) \cup {NoTask},
         result' \in [Task -> Results \cup {"unused", "empty"}],
         \A u \in Task : result'[u] = "unused" <=> result[u] = "unused",
         scheduled' \in Seq(AnswersTo(Asked \ synced)),
         OnlyFailuresBlock'
  PROVE  CallInv'
<1>1. Asked' = Asked
  BY DEF Asked
<1> QED BY <1>1 DEF CallInv

\* A result is set: of all the tasks that changes one, and whether that is empty no more.
LEMMA ResultSet ==
  ASSUME CallInv, NEW u \in Asked, NEW r \in Results, result' = [result EXCEPT ![u] = r]
  PROVE  /\ u \in Task /\ result'[u] = r /\ r # "empty" /\ r # "unused"
         /\ \A w \in Task : w # u => result'[w] = result[w]
         /\ result' \in [Task -> Results \cup {"unused", "empty"}]
         /\ \A w \in Task : result'[w] = "unused" <=> result[w] = "unused"
<1>1. u \in Task /\ result[u] # "unused"
  BY DEF Asked
<1>2. r # "empty" /\ r # "unused"
  BY DEF Results
<1> QED BY <1>1, <1>2 DEF CallInv

LEMMA SetSyncResultStep ==
  ASSUME CallAll, SetSyncResult
  PROVE  CallAll'
<1> USE DEF CallAll
<1>1. /\ answering \in synced /\ synced \subseteq Asked /\ Asked \subseteq Task /\ answering' = NoTask
      /\ UNCHANGED <<net, awaiting, met, answer, scheduled, settling>>
      /\ UNCHANGED <<bound, toCancel, cancelling, syncTaskId, waiting, synced>>
  BY DEF SetSyncResult, CallInv, Asked, endVars, syncVars
<1>2. CASE waiting # answering
  <2>1. result' = result
    BY <1>2 DEF SetSyncResult
  <2>2. Asked' = Asked
    BY <2>1 DEF Asked
  <2>3. CallInv'
    BY <1>1, <2>1, <2>2 DEF CallInv, OnlyFailuresBlock
  <2>4. Settling' /\ CallEnds'
    BY <1>1, <2>1 DEF Settling, CallEnds, Overtaken, MayBeEmpty, Living
  <2> QED BY <2>3, <2>4
<1>3. CASE waiting = answering
  <2>1. result' = [result EXCEPT ![answering] = answer] /\ answer \in Results
    BY <1>3 DEF SetSyncResult, CallInv
  <2>2. /\ answering \in Task /\ result'[answering] = answer /\ answer # "empty" /\ answer # "unused"
        /\ \A w \in Task : w # answering => result'[w] = result[w]
        /\ result' \in [Task -> Results \cup {"unused", "empty"}]
        /\ \A w \in Task : result'[w] = "unused" <=> result[w] = "unused"
    BY <1>1, <2>1, ResultSet
  <2>3. OnlyFailuresBlock'
    BY <1>1, <1>3, <2>2, NoTaskAssumption DEF CallInv, OnlyFailuresBlock
  <2>4. CallInv'
    BY <1>1, <2>2, <2>3, ResultStep DEF CallInv
  <2>5. Settling' /\ settling # answering
    BY <1>1, <1>3, NoTaskAssumption DEF Settling, CallInv
  <2>6. CallEnds'
    <3>1. \A w \in Task : result'[w] = "empty" => MayBeEmpty(w)'
      BY <1>1, <2>2 DEF CallEnds, MayBeEmpty, Living
    <3>2. settling' # NoTask => Overtaken(settling)'
      BY <1>1, <2>2, <2>5 DEF CallEnds, Overtaken, CallInv
    <3>3. cancelling' # NoTask /\ result'[cancelling'] # "empty" => cancelling' \in met'
      BY <1>1, <2>2 DEF CallEnds, CallInv
    <3>4. cancelling' # NoTask /\ cancelling' \in {answering', settling'} => cancelling' \in met'
      BY <1>1 DEF CallEnds
    <3> QED BY <1>1, <3>1, <3>2, <3>3, <3>4 DEF CallEnds
  <2> QED BY <2>4, <2>5, <2>6
<1> QED BY <1>2, <1>3

LEMMA LookScheduledStep ==
  ASSUME CallAll, LookScheduled
  PROVE  CallAll'
<1> USE DEF CallAll, endVars, syncVars
<1> DEFINE m == Head(scheduled)
<1>1. /\ m \in AnswersTo(Asked \ synced) /\ m.task \in Asked \ synced
      /\ Tail(scheduled) \in Seq(AnswersTo(Asked \ synced))
      /\ scheduled # <<>> /\ waiting = NoTask /\ settling = NoTask
  <2>1. /\ scheduled # <<>> /\ scheduled \in Seq(AnswersTo(Asked \ synced))
        /\ waiting = NoTask /\ settling = NoTask
    BY DEF LookScheduled, CallInv
  <2>2. m \in AnswersTo(Asked \ synced) /\ Tail(scheduled) \in Seq(AnswersTo(Asked \ synced))
    BY <2>1, TailFacts
  <2> QED BY <2>1, <2>2, CallMessages
<1>2. /\ Asked' = Asked /\ UNCHANGED <<net, result, awaiting, answering, answer>>
      /\ UNCHANGED <<bound, toCancel, cancelling, syncTaskId, waiting, synced>>
  BY DEF LookScheduled, Asked
<1>3. CASE /\ Unanswered(m.task) /\ settling' = m.task /\ UNCHANGED scheduled
           /\ met' = met \cup ({m.task} \cap {cancelling})
  BY <1>1, <1>2, <1>3 DEF CallInv, OnlyFailuresBlock, Settling, CallEnds, MayBeEmpty, Living,
     Overtaken, Unanswered
<1>4. CASE scheduled' = Tail(scheduled) /\ UNCHANGED <<settling, met>>
  <2>1. CallInv'
    BY <1>1, <1>2, <1>4 DEF CallInv, OnlyFailuresBlock
  <2>2. Settling' /\ CallEnds'
    BY <1>1, <1>2, <1>4 DEF Settling, CallEnds, Overtaken, MayBeEmpty, Living
  <2> QED BY <2>1, <2>2
<1> QED BY <1>3, <1>4 DEF LookScheduled

LEMMA SetScheduledStep ==
  ASSUME CallAll, SetScheduled
  PROVE  CallAll'
<1> USE DEF CallAll
<1> DEFINE r == Head(scheduled).result
<1>1. /\ settling # NoTask /\ settling \in Asked \ synced /\ settling' = NoTask
      /\ UNCHANGED <<net, awaiting, met, answering, answer>>
      /\ UNCHANGED <<bound, toCancel, cancelling, syncTaskId, waiting, synced>>
  BY DEF SetScheduled, CallInv, endVars, syncVars
<1>2. scheduled' \in Seq(AnswersTo(Asked \ synced)) /\ r \in Results
  <2>1. scheduled # <<>> /\ scheduled \in Seq(AnswersTo(Asked \ synced))
    BY <1>1 DEF Settling, CallInv
  <2>2. Tail(scheduled) \in Seq(AnswersTo(Asked \ synced)) /\ Head(scheduled) \in AnswersTo(Asked \ synced)
    BY <2>1, TailFacts
  <2> QED BY <2>2, CallMessages DEF SetScheduled
<1>3. result' = [result EXCEPT ![settling] = r]
  BY DEF SetScheduled
<1>4. /\ settling \in Task /\ result'[settling] = r /\ r # "empty" /\ r # "unused"
      /\ \A w \in Task : w # settling => result'[w] = result[w]
      /\ result' \in [Task -> Results \cup {"unused", "empty"}]
      /\ \A w \in Task : result'[w] = "unused" <=> result[w] = "unused"
  BY <1>1, <1>2, <1>3, ResultSet
<1>5. settling # syncTaskId /\ settling # answering
  BY <1>1 DEF CallInv
<1>6. OnlyFailuresBlock'
  BY <1>1, <1>4, <1>5 DEF CallInv, OnlyFailuresBlock, Asked
<1>7. CallInv'
  BY <1>1, <1>2, <1>4, <1>6, ResultStep DEF CallInv
<1>8. \A w \in Task : result'[w] = "empty" => MayBeEmpty(w)'
  BY <1>1, <1>4 DEF CallEnds, MayBeEmpty, Living
<1>9. answering' # NoTask /\ waiting' = answering' => Overtaken(answering)'
  BY <1>1, <1>4, <1>5 DEF CallEnds, Overtaken, CallInv, Asked
<1>10. cancelling' # NoTask /\ result'[cancelling'] # "empty" => cancelling' \in met'
  BY <1>1, <1>4 DEF CallEnds, CallInv, Asked
<1>11. cancelling' # NoTask /\ cancelling' \in {answering', settling'} => cancelling' \in met'
  BY <1>1 DEF CallEnds
<1> QED BY <1>1, <1>7, <1>8, <1>9, <1>10, <1>11 DEF CallEnds, Settling

LEMMA TerminateCallStep ==
  ASSUME CallAll, TerminateCall
  PROVE  CallAll'
<1> USE DEF CallAll
<1>1. /\ bound' = FALSE /\ toCancel' = Living /\ Living \subseteq Asked
      /\ UNCHANGED <<net, result, awaiting, met, cancelling, answering, answer, scheduled>>
      /\ UNCHANGED <<settling, syncTaskId, waiting, synced>>
  BY DEF TerminateCall, ToCancel, Living, Asked, answerVars, syncVars
<1>2. Asked' = Asked /\ Living' = Living
  BY <1>1 DEF Asked, Living
<1>3. CallInv'
  BY <1>1, <1>2 DEF CallInv, OnlyFailuresBlock
<1>4. Settling' /\ CallEnds'
  BY <1>1, <1>2 DEF Settling, CallEnds, Overtaken, MayBeEmpty
<1> QED BY <1>3, <1>4

LEMMA LookToCancelStep ==
  ASSUME CallAll, NEW u \in Task, LookToCancel(u)
  PROVE  CallAll'
<1> USE DEF CallAll
<1>1. /\ u \in Asked /\ cancelling = NoTask /\ toCancel' = toCancel \ {u}
      /\ UNCHANGED <<net, result, awaiting, bound, answering, answer, scheduled>>
      /\ UNCHANGED <<settling, syncTaskId, waiting, synced>>
  BY DEF LookToCancel, CallInv, answerVars, syncVars
<1>2. Asked' = Asked /\ Living' = Living
  BY <1>1 DEF Asked, Living
<1>3. CASE /\ Unanswered(u) /\ cancelling' = u
           /\ met' = met \cup ({u} \cap {answering, settling})
  <2>1. CallInv'
    BY <1>1, <1>2, <1>3 DEF CallInv, OnlyFailuresBlock
  <2>2. Settling'
    BY <1>1 DEF Settling
  <2>3. \A w \in Task : result'[w] = "empty" => MayBeEmpty(w)'
    BY <1>1, <1>2, <1>3, NoTaskAssumption DEF CallEnds, MayBeEmpty
  <2>4. /\ settling' # NoTask => Overtaken(settling)'
        /\ answering' # NoTask /\ waiting' = answering' => Overtaken(answering)'
        /\ cancelling' # NoTask /\ result'[cancelling'] # "empty" => cancelling' \in met'
        /\ cancelling' # NoTask /\ cancelling' \in {answering', settling'} => cancelling' \in met'
    BY <1>1, <1>3 DEF CallEnds, Overtaken, Unanswered
  <2> QED BY <2>1, <2>2, <2>3, <2>4 DEF CallEnds
<1>4. CASE ~Unanswered(u) /\ UNCHANGED <<cancelling, met>>
  <2>1. CallInv'
    BY <1>1, <1>2, <1>4 DEF CallInv, OnlyFailuresBlock
  <2>2. Settling' /\ CallEnds'
    BY <1>1, <1>2, <1>4 DEF Settling, CallEnds, Overtaken, MayBeEmpty, Unanswered
  <2> QED BY <2>1, <2>2
<1> QED BY <1>3, <1>4 DEF LookToCancel

LEMMA SetCancelledStep ==
  ASSUME CallAll, SetCancelled
  PROVE  CallAll'
<1> USE DEF CallAll
<1>1. /\ cancelling # NoTask /\ cancelling \in Asked /\ cancelling' = NoTask
      /\ UNCHANGED <<net, awaiting, met, bound, toCancel, answering, answer, scheduled>>
      /\ UNCHANGED <<settling, syncTaskId, waiting, synced>>
  BY DEF SetCancelled, CallInv, answerVars, syncVars
<1>2. result' = [result EXCEPT ![cancelling] = "cancelled"] /\ "cancelled" \in Results
  BY DEF SetCancelled, Results
<1>3. /\ cancelling \in Task /\ result'[cancelling] = "cancelled"
      /\ \A w \in Task : w # cancelling => result'[w] = result[w]
      /\ result' \in [Task -> Results \cup {"unused", "empty"}]
      /\ \A w \in Task : result'[w] = "unused" <=> result[w] = "unused"
  BY <1>1, <1>2, ResultSet
<1>4. OnlyFailuresBlock'
  BY <1>1, <1>3 DEF CallInv, OnlyFailuresBlock, Asked
<1>5. CallInv'
  BY <1>1, <1>3, <1>4, ResultStep DEF CallInv
<1>6. \A w \in Task : result'[w] = "empty" => MayBeEmpty(w)'
  BY <1>1, <1>3 DEF CallEnds, MayBeEmpty, Living
<1>7. settling' # NoTask => Overtaken(settling)'
  BY <1>1, <1>3 DEF CallEnds, Overtaken, CallInv, Asked
<1>8. answering' # NoTask /\ waiting' = answering' => Overtaken(answering)'
  BY <1>1, <1>3 DEF CallEnds, Overtaken, CallInv, Asked
<1> QED BY <1>1, <1>5, <1>6, <1>7, <1>8 DEF CallEnds, Settling

LEMMA SyncEndsStep ==
  ASSUME CallAll, SyncEnds
  PROVE  CallAll'
<1> USE DEF CallAll, answerVars, endVars
<1>1. Asked' = Asked
  BY DEF SyncEnds, Asked
<1>2. CallInv'
  BY <1>1 DEF SyncEnds, Released, CallInv, OnlyFailuresBlock
<1>3. Settling'
  BY DEF SyncEnds, Settling
<1>4. \A w \in Task : result'[w] = "empty" => MayBeEmpty(w)'
  BY NoTaskAssumption DEF SyncEnds, CallEnds, MayBeEmpty, Living
<1>5. CallEnds'
  BY <1>4 DEF SyncEnds, CallEnds, Overtaken
<1> QED BY <1>2, <1>3, <1>5

LEMMA CallStep ==
  ASSUME CallAll, [CallNext]_callVars
  PROVE  CallAll'
<1>1. CASE UNCHANGED callVars
  BY <1>1 DEF callVars, answerVars, endVars, syncVars, CallAll, CallInv, Settling, CallEnds,
              Asked, OnlyFailuresBlock, Overtaken, MayBeEmpty, Living
<1>2. ASSUME NEW u \in Task, Start(u) \/ Sync(u) PROVE CallAll'
  <2>1. CallInv'
    BY <1>2, RequestStep DEF CallAll, Start, Sync
  <2>2. Settling' /\ CallEnds'
    BY <1>2, RequestEnds DEF Start, Sync
  <2> QED BY <2>1, <2>2 DEF CallAll
<1> QED
  BY <1>1, <1>2, AnswerLaterStep, SyncEndsStep, ServeStep, ReceiveAnswerStep,
     SetSyncResultStep, LookScheduledStep, SetScheduledStep, TerminateCallStep,
     LookToCancelStep, SetCancelledStep DEF CallNext

\* Nobody waits for a task that was never asked for, or whose lifetime has ended; and who
\* is about to set a result finds it set by none but one whose look met his.
THEOREM CallInvariance == Spec => []CallPart
<1>1. Init => CallPart
  <2>1. ASSUME NEW A PROVE <<>> \in Seq(A)
    OBVIOUS
  <2>2. CallInit => CallInv
    BY <2>1, NoTaskAssumption
    DEF CallInit, NetInit, CallInv, Results, OnlyFailuresBlock, Side
  <2>3. CallInit => Settling /\ CallEnds
    BY DEF CallInit, Settling, CallEnds, MayBeEmpty
  <2> QED
    BY <2>2, <2>3 DEF Init, CallInit, CallPart, CallAll, CallUnused
<1>2. CallPart /\ [Next]_vars => CallPart'
  BY CallStep, StepOfParts DEF CallPart, CallUnused, callOnly, answerVars, endVars, syncVars
<1> QED BY <1>1, <1>2, PTL DEF Spec

\* OnlyFailuresBlock: a sync that succeeded never stands in the way of another.
THEOREM CallReleased == Spec => []OnlyFailuresBlock
<1>1. CallPart => OnlyFailuresBlock
  BY DEF CallPart, CallAll, CallInv, CallUnused, OnlyFailuresBlock
<1> QED BY <1>1, CallInvariance, PTL

\* ResultIsFinal: whoever sets a result has found the task empty, so that it replaces
\* another only when an answer and the end of the lifetime looked before either set.
THEOREM FirstResultCounts == Spec => ResultIsFinal
<1> DEFINE Kept == \A t \in Task : result[t] \in Results /\ result'[t] # result[t] =>
                     t \in met /\ "cancelled" \in {result[t], result'[t]}
<1>1. CallAll /\ [CallNext]_callVars => Kept
  <2> SUFFICES ASSUME CallAll, [CallNext]_callVars, NEW u \in Task,
                      result[u] \in Results, result'[u] # result[u]
               PROVE  u \in met /\ "cancelled" \in {result[u], result'[u]}
    OBVIOUS
  <2> USE DEF CallAll
  <2>1. /\ result \in [Task -> Results \cup {"unused", "empty"}]
        /\ result[u] # "unused" /\ result[u] # "empty"
    BY DEF Results, CallInv
  <2>2. ASSUME NEW w \in Task, Start(w) \/ Sync(w) PROVE FALSE
    BY <2>1, <2>2 DEF Start, Sync, Request
  <2>3. CASE SetSyncResult
    <3>1. waiting = answering /\ answering = u /\ answering # NoTask
      BY <2>1, <2>3 DEF SetSyncResult
    <3> QED BY <2>1, <3>1 DEF CallEnds, Overtaken
  <2>4. CASE SetScheduled
    <3>1. settling = u /\ settling # NoTask
      BY <2>1, <2>4 DEF SetScheduled
    <3> QED BY <2>1, <3>1 DEF CallEnds, Overtaken
  <2>5. CASE SetCancelled
    <3>1. cancelling = u /\ cancelling # NoTask /\ result'[u] = "cancelled"
      BY <2>1, <2>5 DEF SetCancelled
    <3> QED BY <2>1, <3>1 DEF CallEnds
  <2> QED
    BY <2>2, <2>3, <2>4, <2>5
    DEF CallNext, callVars, AnswerLater, SyncEnds, Serve, ReceiveAnswer, LookScheduled,
        LookToCancel, TerminateCall
<1>2. CallPart /\ [Next]_vars => [Kept]_callVars
  <2>1. CallUnused => \A t \in Task : result[t] \notin Results
    BY DEF CallUnused, Results
  <2> QED BY <1>1, <2>1, StepOfParts DEF CallPart
<1>3. Spec => [][Kept]_callVars
  BY <1>2, CallInvariance, PTL DEF Spec
<1> QED BY <1>3 DEF ResultIsFinal

-----------------------------------------------------------------------------
\* RdMap

\* What comes from the master is numbered; what comes from the slave is not, or
\* acknowledges one of these.
FromMaster == {m \in Changes : m.version > 0}
FromSlave == {m \in Changes : m.version = 0} \cup Acks

\* Numbers go out, and come back, in order.
Numbered ==
  /\ \A i, j \in 1..Len(S) : i < j => S[i].version < S[j].version
  /\ \A i \in 1..Len(S) : S[i].version <= nextVersion
  /\ \A i \in 1..Len(M) : M[i].version <= nextVersion
  /\ \A i \in 1..Len(M), j \in 1..Len(S) : M[i].op = "ack" => M[i].version < S[j].version

IsChangeOf(m, k) == m.op # "ack" /\ m.key = k
IsAckOf(m, k, n) == m.op = "ack" /\ m.key = k /\ m.version = n
IsSent(m, k, n) == m.key = k /\ m.version = n

\* Change n of k has not come back yet.
InFlight(s, m, k, n) ==
  \/ \E i \in 1..Len(s) : IsSent(s[i], k, n)
  \/ \E i \in 1..Len(m) : IsAckOf(m[i], k, n)

\* What the slave has sent of k since message a of q makes the master's value x its own, y.
Echo(q, k, a, x, y) ==
  /\ \A i \in a+1 .. Len(q) :
       IsChangeOf(q[i], k) /\ (\A j \in i+1 .. Len(q) : ~IsChangeOf(q[j], k)) => q[i].value = y
  /\ (\A i \in a+1 .. Len(q) : ~IsChangeOf(q[i], k)) => x = y

\* The master waits for nothing and nothing is to come.
AtRest(k) == pendingForAck[k] = 0 /\ \A n \in Nat : ~InFlight(S, M, k, n)

\* The master waits for the last of its changes.
AwaitsLast(k) == pendingForAck[k] # 0 /\ \A n \in Nat : InFlight(S, M, k, n) => n <= pendingForAck[k]

Awaited(k) == pendingForAck[k] # 0 => InFlight(S, M, k, pendingForAck[k])

Converges(k) ==
  /\ AtRest(k) => Echo(M, k, 0, map["master"][k], map["slave"][k])
  /\ AwaitsLast(k) =>
       /\ \A i \in 1..Len(S) : IsSent(S[i], k, pendingForAck[k]) => S[i].value = map["master"][k]
       /\ \A i \in 1..Len(M) : IsAckOf(M[i], k, pendingForAck[k])
            => Echo(M, k, i, map["master"][k], map["slave"][k])

MapTypes ==
  /\ MapTypeOK
  /\ S \in Seq(FromMaster) /\ M \in Seq(FromSlave)

MapInv ==
  /\ MapTypes
  /\ Numbered
  /\ \A k \in Key : ~freedRead[k] => Awaited(k) /\ (~ackError[k] => Converges(k))

MapUnused ==
  /\ map["master"] = map["slave"]
  /\ pendingForAck = [k \in Key |-> 0]

MapPart == IF busy = "map" THEN MapInv ELSE MapUnused

LEMMA EchoAppend ==
  ASSUME NEW T, NEW q \in Seq(T), NEW m \in T, NEW k, NEW x, NEW y, NEW a \in 0..Len(q),
         ~IsChangeOf(m, k), Echo(q, k, a, x, y)
  PROVE  Echo(Append(q, m), k, a, x, y)
<1> DEFINE r == Append(q, m)
<1>1. /\ Len(q) \in Nat /\ Len(r) = Len(q) + 1 /\ r[Len(q) + 1] = m
      /\ \A i \in 1..Len(q) : r[i] = q[i]
  BY AppendFacts
<1> HIDE DEF r
<1>2. ASSUME NEW i \in a+1 .. Len(r), IsChangeOf(r[i], k),
             \A j \in i+1 .. Len(r) : ~IsChangeOf(r[j], k)
      PROVE  r[i].value = y
  <2>1. i \in a+1 .. Len(q) /\ r[i] = q[i]
    BY <1>1, <1>2
  <2>2. \A j \in i+1 .. Len(q) : ~IsChangeOf(q[j], k)
    BY <1>1, <1>2
  <2> QED BY <2>1, <2>2, <1>2 DEF Echo
<1>3. ASSUME \A i \in a+1 .. Len(r) : ~IsChangeOf(r[i], k) PROVE x = y
  BY <1>1, <1>3 DEF Echo
<1> QED BY <1>2, <1>3 DEF Echo, r

LEMMA EchoOwn ==
  ASSUME NEW T, NEW q \in Seq(T), NEW m \in T, NEW k, NEW x, NEW a \in 0..Len(q),
         IsChangeOf(m, k)
  PROVE  Echo(Append(q, m), k, a, x, m.value)
<1> DEFINE r == Append(q, m)
<1>1. /\ Len(q) \in Nat /\ Len(r) = Len(q) + 1 /\ r[Len(q) + 1] = m
  BY AppendFacts
<1> HIDE DEF r
<1>2. \A i \in a+1 .. Len(r) : i # Len(r) => Len(r) \in i+1 .. Len(r)
  BY <1>1
<1>3. Len(r) \in a+1 .. Len(r) /\ IsChangeOf(r[Len(r)], k) /\ r[Len(r)] = m
  BY <1>1
<1> QED BY <1>2, <1>3 DEF Echo, r

LEMMA EchoNow ==
  ASSUME NEW q, Len(q) \in Nat, NEW k, NEW x
  PROVE  Echo(q, k, Len(q), x, x)
BY DEF Echo

LEMMA EchoTail ==
  ASSUME NEW T, NEW q \in Seq(T), q # <<>>, NEW k, NEW x, NEW y, NEW a \in Nat,
         Echo(q, k, a + 1, x, y)
  PROVE  Echo(Tail(q), k, a, x, y)
<1> DEFINE r == Tail(q)
<1>1. /\ Len(q) \in Nat /\ Len(q) > 0 /\ Len(r) = Len(q) - 1
      /\ \A i \in 1..Len(r) : r[i] = q[i + 1]
  BY TailFacts
<1> HIDE DEF r
<1>2. \A i \in a+1 .. Len(r) : i + 1 \in (a+1)+1 .. Len(q) /\ r[i] = q[i + 1]
  BY <1>1
<1>3. \A i \in (a+1)+1 .. Len(q) : i - 1 \in a+1 .. Len(r) /\ r[i - 1] = q[i]
  BY <1>1
<1>4. ASSUME NEW i \in a+1 .. Len(r), IsChangeOf(r[i], k),
             \A j \in i+1 .. Len(r) : ~IsChangeOf(r[j], k)
      PROVE  r[i].value = y
  <2>1. ASSUME NEW j \in (i+1)+1 .. Len(q) PROVE ~IsChangeOf(q[j], k)
    <3>1. j - 1 \in i+1 .. Len(r) /\ r[j - 1] = q[j]
      BY <1>1
    <3> QED BY <3>1, <1>4
  <2> QED BY <2>1, <1>2, <1>4 DEF Echo
<1>5. ASSUME \A i \in a+1 .. Len(r) : ~IsChangeOf(r[i], k) PROVE x = y
  BY <1>3, <1>5 DEF Echo
<1> QED BY <1>4, <1>5 DEF Echo, r

\* The head of a queue is nothing, or what the master takes over.
LEMMA EchoHead ==
  ASSUME NEW T, NEW q \in Seq(T), q # <<>>, NEW k, NEW x, NEW y, Echo(q, k, 0, x, y)
  PROVE  Echo(q, k, 1, IF IsChangeOf(Head(q), k) THEN Head(q).value ELSE x, y)
<1>1. Len(q) \in Nat /\ Len(q) > 0 /\ Head(q) = q[1]
  BY TailFacts
<1>2. \A i \in 1+1 .. Len(q) : i \in 0+1 .. Len(q)
  BY <1>1
<1>3. \A i \in 0+1 .. Len(q) : i = 1 \/ i \in 1+1 .. Len(q)
  BY <1>1
<1>4. 1 \in 0+1 .. Len(q)
  BY <1>1
<1> QED BY <1>1, <1>2, <1>3, <1>4 DEF Echo

LEMMA MapFacts ==
  ASSUME MapTypes
  PROVE  /\ net \in [Side -> Seq(Changes \cup Acks)] /\ nextVersion \in Nat
         /\ map \in [Side -> [Key -> MapValues \cup {Absent}]]
         /\ map["master"] \in [Key -> MapValues \cup {Absent}]
         /\ map["slave"] \in [Key -> MapValues \cup {Absent}]
         /\ pendingForAck \in [Key -> Nat] /\ freedRead \in [Key -> BOOLEAN]
         /\ ackError \in [Key -> BOOLEAN] /\ freed \in [Key -> BOOLEAN]
         /\ Len(S) \in Nat /\ Len(M) \in Nat
         /\ \A i \in 1..Len(S) : S[i] \in FromMaster
         /\ \A i \in 1..Len(M) : M[i] \in FromSlave
BY DEF MapTypes, MapTypeOK, Side

LEMMA MapMessages ==
  /\ FromMaster \subseteq Changes \cup Acks /\ FromSlave \subseteq Changes \cup Acks
  /\ \A m \in FromMaster : /\ m.op # "ack" /\ m.version \in Nat /\ m.version > 0 /\ m.key \in Key
                           /\ m.value \in MapValues \cup {Absent}
  /\ \A m \in FromSlave : /\ m.version \in Nat /\ m.key \in Key
                          /\ m.op # "ack" => m.version = 0 /\ m.value \in MapValues \cup {Absent}
BY DEF FromMaster, FromSlave, Changes, Acks

\* What a lookup finds, unless it goes through a freed key.
LEMMA Lookup ==
  ASSUME MapTypes, NEW k \in Key, LookUp(k), NEW found \in Found(k)
  PROVE  /\ freedRead' \in [Key -> BOOLEAN]
         /\ \A j \in Key : freedRead[j] => freedRead'[j]
         /\ ~freedRead'[k] => (found <=> pendingForAck[k] # 0)
BY MapFacts DEF LookUp, Found

\* A key that a step is not about.
LEMMA KeyLeftAlone ==
  ASSUME NEW k \in Key, Awaited(k), ~ackError[k] => Converges(k),
         ackError'[k] = ackError[k], pendingForAck'[k] = pendingForAck[k],
         map'["master"][k] = map["master"][k], map'["slave"][k] = map["slave"][k],
         pendingForAck[k] \in Nat,
         \A n \in Nat : InFlight(S', M', k, n) <=> InFlight(S, M, k, n),
         \A i \in 1..Len(S') : S'[i].key = k => \E j \in 1..Len(S) : S[j] = S'[i],
         Echo(M, k, 0, map["master"][k], map["slave"][k])
           => Echo(M', k, 0, map["master"][k], map["slave"][k]),
         \A i \in 1..Len(M') : IsAckOf(M'[i], k, pendingForAck[k]) =>
           \E j \in 1..Len(M) :
             /\ IsAckOf(M[j], k, pendingForAck[k])
             /\ Echo(M, k, j, map["master"][k], map["slave"][k])
                  => Echo(M', k, i, map["master"][k], map["slave"][k])
  PROVE  Awaited(k)' /\ (~ackError'[k] => Converges(k)')
<1>1. Awaited(k)'
  BY DEF Awaited
<1>2. AtRest(k)' => AtRest(k)
  BY DEF AtRest
<1>3. AwaitsLast(k)' => AwaitsLast(k)
  BY DEF AwaitsLast
<1>4. ASSUME ~ackError'[k] PROVE Converges(k)'
  BY <1>4, <1>2, <1>3 DEF Converges, IsSent
<1> QED BY <1>1, <1>4

\* Appending to the queue to the slave, ...
LEMMA InFlightSent ==
  ASSUME MapTypes, NEW m \in FromMaster, S' = Append(S, m), M' = M, NEW k, NEW n
  PROVE  InFlight(S', M', k, n) <=> InFlight(S, M, k, n) \/ IsSent(m, k, n)
<1>1. /\ Len(S) \in Nat /\ Len(S') = Len(S) + 1 /\ S'[Len(S) + 1] = m
      /\ \A i \in 1..Len(S) : S'[i] = S[i]
  BY AppendFacts DEF MapTypes
<1>2. (\E i \in 1..Len(S') : IsSent(S'[i], k, n))
        <=> (\E i \in 1..Len(S) : IsSent(S[i], k, n)) \/ IsSent(m, k, n)
  BY <1>1
<1> QED BY <1>2 DEF InFlight

\* ... to the queue to the master, ...
LEMMA InFlightReceived ==
  ASSUME NEW q \in Seq(FromSlave), NEW m \in FromSlave, NEW k, NEW n
  PROVE  (\E i \in 1..Len(Append(q, m)) : IsAckOf(Append(q, m)[i], k, n))
           <=> (\E i \in 1..Len(q) : IsAckOf(q[i], k, n)) \/ IsAckOf(m, k, n)
<1> DEFINE r == Append(q, m)
<1>1. /\ Len(q) \in Nat /\ Len(r) = Len(q) + 1 /\ r[Len(q) + 1] = m
      /\ \A i \in 1..Len(q) : r[i] = q[i]
  BY AppendFacts
<1> HIDE DEF r
<1>2. (\E i \in 1..Len(r) : IsAckOf(r[i], k, n))
        <=> (\E i \in 1..Len(q) : IsAckOf(q[i], k, n)) \/ IsAckOf(m, k, n)
  BY <1>1
<1> QED BY <1>2 DEF r

\* ... and taking from one.
LEMMA InFlightTaken ==
  ASSUME NEW T, NEW q \in Seq(T), q # <<>>, NEW k, NEW n
  PROVE  /\ (\E i \in 1..Len(q) : IsSent(q[i], k, n))
              <=> IsSent(Head(q), k, n) \/ (\E i \in 1..Len(Tail(q)) : IsSent(Tail(q)[i], k, n))
         /\ (\E i \in 1..Len(q) : IsAckOf(q[i], k, n))
              <=> IsAckOf(Head(q), k, n) \/ (\E i \in 1..Len(Tail(q)) : IsAckOf(Tail(q)[i], k, n))
<1>1. /\ Head(q) = q[1] /\ Len(q) \in Nat /\ Len(q) > 0 /\ Len(Tail(q)) = Len(q) - 1
      /\ \A i \in 1..Len(Tail(q)) : Tail(q)[i] = q[i + 1]
  BY TailFacts
<1>2. 1 \in 1..Len(q) /\ \A i \in 1..Len(Tail(q)) : i + 1 \in 1..Len(q)
  BY <1>1
<1>3. \A i \in 1..Len(q) : i # 1 => i - 1 \in 1..Len(Tail(q)) /\ Tail(q)[i - 1] = q[i]
  BY <1>1
<1> QED BY <1>1, <1>2, <1>3

\* The step of one side's own change, either operation.
LEMMA MasterChanges ==
  ASSUME MapInv, NEW op \in {"put", "remove"}, NEW k \in Key, NEW v \in MapValues \cup {Absent},
         op = "put" => v \in MapValues, op = "remove" => v = Absent,
         LocalChange("master", op, k, v)
  PROVE  MapInv'
<1> DEFINE m == [op |-> op, key |-> k, value |-> v, version |-> nextVersion + 1]
<1>1. MapTypes /\ Numbered
  BY DEF MapInv
<1>2. m \in FromMaster
  BY <1>1, MapFacts DEF FromMaster, Changes
<1>3. /\ map' = [map EXCEPT !["master"][k] = v] /\ nextVersion' = nextVersion + 1
      /\ net' = [net EXCEPT !["slave"] = Append(@, m)]
      /\ LookUp(k) /\ ackError' = ackError
  BY DEF LocalChange, Send, Other
<1>4. PICK found \in Found(k) :
        /\ pendingForAck' = IF found THEN pendingForAck
                                     ELSE [pendingForAck EXCEPT ![k] = nextVersion + 1]
        /\ freed' = [freed EXCEPT ![k] = op = "remove" \/ (found /\ @)]
  BY <1>3 DEF LocalChange, Await
<1>5. /\ S' = Append(S, m) /\ M' = M
      /\ map'["slave"] = map["slave"] /\ map'["master"] = [map["master"] EXCEPT ![k] = v]
  BY <1>1, <1>3, MapFacts DEF S, M, Side
<1>6. /\ Len(S) \in Nat /\ Len(S') = Len(S) + 1 /\ S'[Len(S) + 1] = m
      /\ \A i \in 1..Len(S) : S'[i] = S[i]
      /\ S' \in Seq(FromMaster)
  BY <1>1, <1>2, <1>5, AppendFacts DEF MapTypes
<1>7. MapTypes'
  BY <1>1, <1>2, MapMessages, MapFacts, AppendFacts, <1>3, <1>4, Lookup, <1>5, <1>6 DEF Side,
     Found, MapTypes, MapTypeOK
<1>8. Numbered'
  <2>1. nextVersion \in Nat /\ nextVersion' = nextVersion + 1
        /\ m.version = nextVersion + 1
    BY <1>1, <1>3, MapFacts
  <2>2. /\ \A i \in 1..Len(S) : S[i].version \in Nat
        /\ \A i \in 1..Len(M) : M[i].version \in Nat
    BY <1>1, MapFacts, MapMessages
  <2>3. ASSUME NEW i \in 1..Len(S'), NEW j \in 1..Len(S'), i < j
        PROVE  S'[i].version < S'[j].version
    <3>1. i \in 1..Len(S) /\ (j \in 1..Len(S) \/ j = Len(S) + 1)
      BY <1>6, <2>3
    <3>2. CASE j \in 1..Len(S)
      BY <1>1, <1>6, <2>3, <3>1, <3>2 DEF Numbered
    <3>3. CASE j = Len(S) + 1
      BY <1>1, <1>6, <2>1, <2>2, <3>1, <3>3 DEF Numbered
    <3> QED BY <3>1, <3>2, <3>3
  <2>4. \A i \in 1..Len(S') : S'[i].version <= nextVersion'
    BY <1>1, <1>6, <2>1, <2>2 DEF Numbered
  <2>5. \A i \in 1..Len(M') : M'[i].version <= nextVersion'
    BY <1>1, <1>5, <2>1, <2>2 DEF Numbered
  <2>6. \A i \in 1..Len(M'), j \in 1..Len(S') : M'[i].op = "ack" => M'[i].version < S'[j].version
    BY <1>1, <1>5, <1>6, <2>1, <2>2 DEF Numbered
  <2> QED BY <2>3, <2>4, <2>5, <2>6 DEF Numbered
<1>9. \A j \in Key, n \in Nat : InFlight(S', M', j, n) <=> InFlight(S, M, j, n) \/ IsSent(m, j, n)
  BY <1>1, <1>2, <1>5, InFlightSent
<1>10. ASSUME ~freedRead'[k] PROVE Awaited(k)' /\ (~ackError'[k] => Converges(k)')
  <2>1. /\ ~freedRead[k] /\ pendingForAck[k] \in Nat /\ nextVersion \in Nat
        /\ found <=> pendingForAck[k] # 0
    BY <1>1, <1>3, <1>4, <1>10, Lookup, MapFacts
  <2>2. CASE pendingForAck[k] = 0
    <3>1. pendingForAck'[k] = nextVersion + 1
      BY <1>1, <1>4, <2>1, <2>2, MapFacts
    <3>2. InFlight(S', M', k, nextVersion + 1)
      BY <1>9, <2>1 DEF IsSent
    <3>3. \A i \in 1..Len(S') : IsSent(S'[i], k, nextVersion + 1) => S'[i] = m
      BY <1>1, <1>6, <2>1 DEF Numbered, IsSent
    <3>4. \A i \in 1..Len(M') : ~IsAckOf(M'[i], k, nextVersion + 1)
      BY <1>1, <1>5, <2>1 DEF Numbered, IsAckOf
    <3>5. map'["master"][k] = v
      BY <1>1, <1>5, MapFacts
    <3> QED BY <2>1, <3>1, <3>2, <3>3, <3>4, <3>5 DEF Awaited, Converges, AtRest
  <2>3. CASE pendingForAck[k] # 0
    <3>1. pendingForAck' = pendingForAck /\ InFlight(S, M, k, pendingForAck[k])
      BY <1>4, <2>1, <2>3 DEF MapInv, Awaited
    <3>2. pendingForAck[k] <= nextVersion
      BY <1>1, <3>1 DEF InFlight, Numbered, IsSent, IsAckOf
    <3>3. InFlight(S', M', k, nextVersion + 1)
      BY <1>9, <2>1 DEF IsSent
    <3>4. ~AwaitsLast(k)'
      BY <2>1, <3>1, <3>2, <3>3 DEF AwaitsLast
    <3>5. InFlight(S', M', k, pendingForAck[k])
      BY <1>9, <2>1, <3>1
    <3> QED BY <2>3, <3>1, <3>4, <3>5 DEF Awaited, Converges, AtRest
  <2> QED BY <2>2, <2>3
<1>11. ASSUME NEW j \in Key, j # k, ~freedRead'[j]
       PROVE  Awaited(j)' /\ (~ackError'[j] => Converges(j)')
  <2>1. ~freedRead[j] /\ pendingForAck[j] \in Nat /\ pendingForAck'[j] = pendingForAck[j]
        /\ ackError'[j] = ackError[j]
    BY <1>1, <1>3, <1>4, <1>11, Lookup, MapFacts
  <2>2. map'["master"][j] = map["master"][j] /\ map'["slave"][j] = map["slave"][j]
    BY <1>1, <1>5, <1>11, MapFacts
  <2>3. \A n \in Nat : InFlight(S', M', j, n) <=> InFlight(S, M, j, n)
    BY <1>9, <1>11 DEF IsSent
  <2>4. \A i \in 1..Len(S') : S'[i].key = j => \E l \in 1..Len(S) : S[l] = S'[i]
    BY <1>6, <1>11
  <2> QED BY <1>5, <2>1, <2>2, <2>3, <2>4, KeyLeftAlone DEF MapInv
<1> QED BY <1>7, <1>8, <1>10, <1>11 DEF MapInv

LEMMA SlaveChanges ==
  ASSUME MapInv, NEW op \in {"put", "remove"}, NEW k \in Key, NEW v \in MapValues \cup {Absent},
         op = "put" => v \in MapValues, op = "remove" => v = Absent,
         LocalChange("slave", op, k, v)
  PROVE  MapInv'
<1> DEFINE m == [op |-> op, key |-> k, value |-> v, version |-> 0]
<1>1. MapTypes /\ Numbered
  BY DEF MapInv
<1>2. m \in FromSlave /\ m.op # "ack"
  BY <1>1, MapFacts DEF FromSlave, Changes
<1>3. /\ map' = [map EXCEPT !["slave"][k] = v]
      /\ net' = [net EXCEPT !["master"] = Append(@, m)]
      /\ UNCHANGED <<nextVersion, pendingForAck, freed, freedRead, ackError>>
  BY DEF LocalChange, Send, Other
<1>4. /\ M' = Append(M, m) /\ S' = S
      /\ map'["master"] = map["master"] /\ map'["slave"] = [map["slave"] EXCEPT ![k] = v]
  BY <1>1, <1>3, MapFacts DEF S, M, Side
<1>5. /\ Len(M) \in Nat /\ Len(M') = Len(M) + 1 /\ M'[Len(M) + 1] = m
      /\ \A i \in 1..Len(M) : M'[i] = M[i]
      /\ M' \in Seq(FromSlave) /\ M \in Seq(FromSlave)
  BY <1>1, <1>2, <1>4, AppendFacts DEF MapTypes
<1>6. MapTypes'
  <2>1. net' \in [Side -> Seq(Changes \cup Acks)]
    <3>1. Append(net["master"], m) \in Seq(Changes \cup Acks)
      BY <1>1, <1>2, MapMessages, MapFacts, AppendFacts DEF Side
    <3> QED BY <1>1, <1>3, <3>1, MapFacts
  <2>2. map' \in [Side -> [Key -> MapValues \cup {Absent}]]
    BY <1>1, <1>3, MapFacts
  <2> QED BY <2>1, <2>2, <1>1, <1>3, <1>4, <1>5 DEF MapTypes, MapTypeOK
<1>7. Numbered'
  <2>1. nextVersion \in Nat
    BY <1>1, MapFacts
  <2> QED BY <1>1, <1>2, <1>3, <1>4, <1>5, <2>1 DEF Numbered
<1>8. \A j \in Key, n \in Nat : InFlight(S', M', j, n) <=> InFlight(S, M, j, n)
  BY <1>2, <1>4, <1>5, InFlightReceived DEF InFlight, IsAckOf
<1>9. \A j, n : \A i \in 1..Len(M') : IsAckOf(M'[i], j, n) => i \in 1..Len(M) /\ IsAckOf(M[i], j, n)
  BY <1>2, <1>5 DEF IsAckOf
<1>10. ASSUME ~freedRead'[k] PROVE Awaited(k)' /\ (~ackError'[k] => Converges(k)')
  <2>1. Awaited(k) /\ (~ackError[k] => Converges(k)) /\ pendingForAck[k] \in Nat
    BY <1>1, <1>3, <1>10, MapFacts DEF MapInv
  <2>2. Awaited(k)'
    BY <1>3, <1>8, <2>1 DEF Awaited
  <2>3. ASSUME NEW a \in 0..Len(M) PROVE Echo(M', k, a, map'["master"][k], map'["slave"][k])
    <3>1. map'["slave"][k] = m.value /\ IsChangeOf(m, k)
      BY <1>1, <1>2, <1>4, MapFacts DEF IsChangeOf
    <3>2. \A x : Echo(Append(M, m), k, a, x, m.value)
      <4> HIDE DEF m
      <4> QED BY <3>1, <1>2, <1>5, EchoOwn
    <3> QED BY <3>1, <3>2, <1>4
  <2>4. AwaitsLast(k)' => AwaitsLast(k)
    BY <1>3, <1>8 DEF AwaitsLast
  <2>5. map'["master"][k] = map["master"][k]
    BY <1>4
  <2>6. ASSUME ~ackError'[k], AwaitsLast(k)', NEW i \in 1..Len(S'),
               IsSent(S'[i], k, pendingForAck'[k])
        PROVE  S'[i].value = map'["master"][k]
    BY <1>3, <1>4, <2>1, <2>4, <2>5, <2>6 DEF Converges
  <2>7. ASSUME NEW i \in 1..Len(M'), IsAckOf(M'[i], k, pendingForAck'[k])
        PROVE  Echo(M', k, i, map'["master"][k], map'["slave"][k])
    BY <1>9, <2>3, <2>7
  <2>8. Echo(M', k, 0, map'["master"][k], map'["slave"][k])
    BY <1>5, <2>3
  <2> QED BY <2>2, <2>6, <2>7, <2>8 DEF Converges
<1>11. ASSUME NEW j \in Key, j # k, ~freedRead'[j]
       PROVE  Awaited(j)' /\ (~ackError'[j] => Converges(j)')
  <2>1. ~freedRead[j] /\ pendingForAck[j] \in Nat /\ pendingForAck'[j] = pendingForAck[j]
        /\ ackError'[j] = ackError[j]
    BY <1>1, <1>3, <1>11, MapFacts
  <2>2. map'["master"][j] = map["master"][j] /\ map'["slave"][j] = map["slave"][j]
    BY <1>1, <1>4, <1>11, MapFacts
  <2>3. \A x, y : \A a \in 0..Len(M) : Echo(M, j, a, x, y) => Echo(M', j, a, x, y)
    <3>1. ~IsChangeOf(m, j)
      BY <1>11 DEF IsChangeOf
    <3> QED BY <3>1, <1>2, <1>4, <1>5, EchoAppend
  <2>4. \A i \in 1..Len(M') : IsAckOf(M'[i], j, pendingForAck[j]) =>
           \E l \in 1..Len(M) :
             /\ IsAckOf(M[l], j, pendingForAck[j])
             /\ Echo(M, j, l, map["master"][j], map["slave"][j])
                  => Echo(M', j, i, map["master"][j], map["slave"][j])
    BY <1>5, <1>9, <2>3
  <2>5. 0 \in 0..Len(M)
    BY <1>5
  <2> QED BY <1>4, <1>8, <2>1, <2>2, <2>3, <2>4, <2>5, KeyLeftAlone DEF MapInv
<1> QED BY <1>6, <1>7, <1>10, <1>11 DEF MapInv

\* The slave makes every change of the master's its own and acknowledges it.
LEMMA SlaveTakesChange ==
  ASSUME MapInv, ReceiveChange("slave")
  PROVE  MapInv'
<1> DEFINE m == Head(S)
           a == [op |-> "ack", key |-> m.key, version |-> m.version]
<1>1. MapTypes /\ Numbered
  BY DEF MapInv
<1>2. /\ S # <<>> /\ S \in Seq(FromMaster) /\ M \in Seq(FromSlave)
  BY <1>1 DEF MapTypes, ReceiveChange, S
<1>3. /\ m \in FromMaster /\ m = S[1] /\ Tail(S) \in Seq(FromMaster)
      /\ Len(S) \in Nat /\ Len(S) > 0 /\ Len(Tail(S)) = Len(S) - 1
      /\ \A i \in 1..Len(Tail(S)) : Tail(S)[i] = S[i + 1]
  BY <1>2, TailFacts
<1>4. m.version \in Nat /\ m.version > 0 /\ m.key \in Key /\ m.value \in MapValues \cup {Absent}
  BY <1>3, MapMessages
<1>5. a \in FromSlave /\ a \in Acks
  BY <1>4 DEF FromSlave, Acks
<1>6. /\ map' = [map EXCEPT !["slave"][m.key] = m.value]
      /\ net' = [net EXCEPT !["slave"] = Tail(@), !["master"] = Append(@, a)]
      /\ UNCHANGED <<nextVersion, pendingForAck, freed, freedRead, ackError>>
  BY <1>4 DEF ReceiveChange, Refused, TakeAndReply, Other, S
<1>7. /\ S' = Tail(S) /\ M' = Append(M, a) /\ map'["master"] = map["master"]
      /\ map'["slave"] = [map["slave"] EXCEPT ![m.key] = m.value]
  BY <1>1, <1>6, MapFacts DEF S, M, Side
<1>8. /\ Len(M) \in Nat /\ Len(M') = Len(M) + 1 /\ M'[Len(M) + 1] = a
      /\ \A i \in 1..Len(M) : M'[i] = M[i]
      /\ M' \in Seq(FromSlave)
  BY <1>2, <1>5, <1>7, AppendFacts
<1>9. MapTypes'
  <2>1. net' \in [Side -> Seq(Changes \cup Acks)]
    <3>1. Tail(net["slave"]) \in Seq(Changes \cup Acks)
      BY <1>1, <1>2, MapFacts, TailFacts DEF Side, S
    <3>2. Append(net["master"], a) \in Seq(Changes \cup Acks)
      BY <1>1, <1>5, MapFacts, AppendFacts DEF Side
    <3> QED BY <1>1, <1>6, <3>1, <3>2, MapFacts
  <2>2. map' \in [Side -> [Key -> MapValues \cup {Absent}]]
    BY <1>1, <1>4, <1>6, MapFacts
  <2> QED BY <2>1, <2>2, <1>1, <1>3, <1>6, <1>7, <1>8 DEF MapTypes, MapTypeOK
<1>10. \A i \in 1..Len(S') : i + 1 \in 1..Len(S) /\ S'[i] = S[i + 1] /\ S[i + 1].version > m.version
  BY <1>1, <1>3, <1>7 DEF Numbered
<1>11. Numbered'
  <2>1. /\ nextVersion \in Nat /\ nextVersion' = nextVersion /\ a.version = m.version
        /\ \A i \in 1..Len(S) : S[i].version \in Nat
        /\ \A i \in 1..Len(M) : M[i].version \in Nat
    BY <1>1, <1>6, MapFacts, MapMessages
  <2>2. m.version <= nextVersion /\ \A i \in 1..Len(M) : M[i].op = "ack" => M[i].version < m.version
    BY <1>1, <1>3 DEF Numbered
  <2>3. \A i, j \in 1..Len(S') : i < j => S'[i].version < S'[j].version
    BY <1>1, <1>3, <1>10 DEF Numbered
  <2>4. \A i \in 1..Len(S') : S'[i].version <= nextVersion'
    BY <1>1, <1>10, <2>1 DEF Numbered
  <2>5. \A i \in 1..Len(M') : M'[i].version <= nextVersion'
    BY <1>1, <1>8, <2>1, <2>2 DEF Numbered
  <2>6. \A i \in 1..Len(M'), j \in 1..Len(S') : M'[i].op = "ack" => M'[i].version < S'[j].version
    <3> SUFFICES ASSUME NEW i \in 1..Len(M'), NEW j \in 1..Len(S'), M'[i].op = "ack"
                 PROVE  M'[i].version < S'[j].version
      OBVIOUS
    <3>1. j + 1 \in 1..Len(S) /\ S'[j] = S[j + 1] /\ S[j + 1].version > m.version
      BY <1>10
    <3>2. i = Len(M) + 1 \/ (i \in 1..Len(M) /\ M'[i] = M[i])
      BY <1>8
    <3>3. CASE i = Len(M) + 1
      BY <3>1, <3>3, <1>8, <2>1
    <3>4. CASE i \in 1..Len(M) /\ M'[i] = M[i]
      BY <3>1, <3>4, <1>1 DEF Numbered
    <3> QED BY <3>2, <3>3, <3>4
  <2> QED BY <2>3, <2>4, <2>5, <2>6 DEF Numbered
<1>12. \A j, n : InFlight(S', M', j, n) <=> InFlight(S, M, j, n)
  <2> TAKE j, n
  <2>1. IsAckOf(a, j, n) <=> IsSent(m, j, n)
    BY DEF IsAckOf, IsSent
  <2>2. (\E i \in 1..Len(S) : IsSent(S[i], j, n))
          <=> IsSent(m, j, n) \/ (\E i \in 1..Len(S') : IsSent(S'[i], j, n))
    BY <1>2, <1>7, InFlightTaken
  <2>3. (\E i \in 1..Len(M') : IsAckOf(M'[i], j, n))
          <=> (\E i \in 1..Len(M) : IsAckOf(M[i], j, n)) \/ IsAckOf(a, j, n)
    BY <1>2, <1>5, <1>7, InFlightReceived
  <2> QED BY <2>1, <2>2, <2>3 DEF InFlight
<1>13. ASSUME NEW k \in Key, k = m.key, ~freedRead'[k]
       PROVE  Awaited(k)' /\ (~ackError'[k] => Converges(k)')
  <2>1. /\ Awaited(k) /\ (~ackError[k] => Converges(k)) /\ pendingForAck[k] \in Nat
        /\ pendingForAck'[k] = pendingForAck[k]
    BY <1>1, <1>6, <1>13, MapFacts DEF MapInv
  <2>2. Awaited(k)'
    BY <1>12, <2>1 DEF Awaited
  <2>3. IsSent(m, k, m.version) /\ InFlight(S, M, k, m.version)
    BY <1>3, <1>13 DEF InFlight, IsSent
  <2>4. ~AtRest(k)'
    BY <1>4, <1>12, <2>3 DEF AtRest
  <2>5. AwaitsLast(k)' => AwaitsLast(k) /\ m.version <= pendingForAck[k]
    BY <1>4, <1>12, <2>1, <2>3 DEF AwaitsLast
  <2>6. map'["master"][k] = map["master"][k] /\ map'["slave"][k] = m.value
    BY <1>1, <1>4, <1>7, <1>13, MapFacts
  <2>7. ASSUME ~ackError'[k], AwaitsLast(k)', NEW i \in 1..Len(S'),
               IsSent(S'[i], k, pendingForAck'[k])
        PROVE  S'[i].value = map'["master"][k]
    <3>1. Converges(k)
      BY <1>6, <2>1, <2>7
    <3>2. i + 1 \in 1..Len(S) /\ S'[i] = S[i + 1]
      BY <1>10
    <3> QED BY <2>1, <2>5, <2>6, <2>7, <3>1, <3>2 DEF Converges
  <2>8. ASSUME ~ackError'[k], AwaitsLast(k)', NEW i \in 1..Len(M'),
               IsAckOf(M'[i], k, pendingForAck'[k])
        PROVE  Echo(M', k, i, map'["master"][k], map'["slave"][k])
    <3>1. i = Len(M) + 1
      <4> SUFFICES ASSUME i \in 1..Len(M) PROVE FALSE
        BY <1>8
      <4>1. M[i].op = "ack" /\ M[i].version = pendingForAck[k]
        BY <1>8, <2>1, <2>8 DEF IsAckOf
      <4>2. M[i].version < m.version
        BY <4>1, <1>1, <1>3 DEF Numbered
      <4> QED BY <4>1, <4>2, <1>4, <2>1, <2>5, <2>8
    <3>2. IsSent(S[1], k, pendingForAck[k]) /\ 1 \in 1..Len(S)
      BY <3>1, <1>3, <1>8, <1>13, <2>1, <2>8 DEF IsAckOf, IsSent
    <3>3. m.value = map["master"][k]
      BY <3>2, <1>3, <1>6, <2>1, <2>5, <2>8 DEF Converges
    <3> QED BY <3>1, <3>3, <1>8, <2>6, EchoNow
  <2> QED BY <2>2, <2>4, <2>7, <2>8 DEF Converges
<1>14. ASSUME NEW j \in Key, j # m.key, ~freedRead'[j]
       PROVE  Awaited(j)' /\ (~ackError'[j] => Converges(j)')
  <2>1. ~freedRead[j] /\ pendingForAck[j] \in Nat /\ pendingForAck'[j] = pendingForAck[j]
        /\ ackError'[j] = ackError[j]
    BY <1>1, <1>6, <1>14, MapFacts
  <2>2. map'["master"][j] = map["master"][j] /\ map'["slave"][j] = map["slave"][j]
    BY <1>1, <1>7, <1>14, MapFacts
  <2>3. \A x, y : \A b \in 0..Len(M) : Echo(M, j, b, x, y) => Echo(M', j, b, x, y)
    <3>1. ~IsChangeOf(a, j)
      BY DEF IsChangeOf
    <3> QED BY <3>1, <1>2, <1>5, <1>7, EchoAppend
  <2>4. \A i \in 1..Len(M') : IsAckOf(M'[i], j, pendingForAck[j]) =>
           \E l \in 1..Len(M) :
             /\ IsAckOf(M[l], j, pendingForAck[j])
             /\ Echo(M, j, l, map["master"][j], map["slave"][j])
                  => Echo(M', j, i, map["master"][j], map["slave"][j])
    <3> SUFFICES ASSUME NEW i \in 1..Len(M'), IsAckOf(M'[i], j, pendingForAck[j])
                 PROVE  i \in 1..Len(M) /\ IsAckOf(M[i], j, pendingForAck[j])
      BY <1>8, <2>3
    <3> QED BY <1>8, <1>14 DEF IsAckOf
  <2>5. 0 \in 0..Len(M)
    BY <1>8
  <2>6. \A i \in 1..Len(S') : S'[i].key = j => \E l \in 1..Len(S) : S[l] = S'[i]
    BY <1>10
  <2> QED BY <1>12, <2>1, <2>2, <2>3, <2>4, <2>5, <2>6, KeyLeftAlone DEF MapInv
<1> QED BY <1>9, <1>11, <1>13, <1>14 DEF MapInv

\* The master takes its oldest message: what it finds at the other places.
LEMMA MasterTakes ==
  ASSUME MapTypes, Numbered, M # <<>>, Take("master"), nextVersion' = nextVersion
  PROVE  /\ S' = S /\ M' = Tail(M) /\ M' \in Seq(FromSlave) /\ Head(M) \in FromSlave
         /\ Head(M) = M[1]
         /\ Len(M) \in Nat /\ Len(M) > 0 /\ Len(M') = Len(M) - 1
         /\ \A i \in 1..Len(M') : M'[i] = M[i + 1] /\ i + 1 \in 1..Len(M)
         /\ \A i \in 1..Len(M) : i # 1 => i - 1 \in 1..Len(M') /\ M'[i - 1] = M[i]
         /\ net' \in [Side -> Seq(Changes \cup Acks)]
         /\ Numbered'
<1>1. M \in Seq(FromSlave) /\ net \in [Side -> Seq(Changes \cup Acks)]
  BY MapFacts DEF MapTypes
<1>2. S' = S /\ M' = Tail(M) /\ net' = [net EXCEPT !["master"] = Tail(@)]
  BY <1>1 DEF Take, Side, S, M
<1>3. /\ M' \in Seq(FromSlave) /\ Head(M) \in FromSlave /\ Head(M) = M[1]
      /\ Len(M) \in Nat /\ Len(M) > 0 /\ Len(M') = Len(M) - 1
      /\ \A i \in 1..Len(M') : M'[i] = M[i + 1]
  BY <1>1, <1>2, TailFacts
<1>4. /\ \A i \in 1..Len(M') : i + 1 \in 1..Len(M)
      /\ \A i \in 1..Len(M) : i # 1 => i - 1 \in 1..Len(M') /\ M'[i - 1] = M[i]
  BY <1>3
<1>5. net' \in [Side -> Seq(Changes \cup Acks)]
  <2>1. Tail(net["master"]) \in Seq(Changes \cup Acks)
    BY <1>1, TailFacts DEF Side, M
  <2> QED BY <1>1, <1>2, <2>1
<1>6. Numbered'
  BY <1>2, <1>3, <1>4 DEF Numbered
<1> QED BY <1>2, <1>3, <1>4, <1>5, <1>6

\* The master takes a change of the slave's, unless it awaits one of its own back.
LEMMA MasterTakesChange ==
  ASSUME MapInv, ReceiveChange("master")
  PROVE  MapInv'
<1> DEFINE m == Head(M)
<1>1. MapTypes /\ Numbered
  BY DEF MapInv
<1>2. M # <<>> /\ m.op # "ack" /\ M \in Seq(FromSlave)
  BY <1>1 DEF MapTypes, ReceiveChange, M
<1>3. m \in FromSlave
  BY <1>2, TailFacts
<1>4. PICK k \in Key : k = m.key /\ m.version = 0 /\ m.value \in MapValues \cup {Absent}
  BY <1>2, <1>3, MapMessages
<1>5. PICK found \in Found(k) :
        map' = IF Refused("master", m, found) THEN map ELSE [map EXCEPT !["master"][k] = m.value]
  BY <1>4 DEF ReceiveChange, M
<1>6. LookUp(k) /\ Take("master") /\ UNCHANGED <<nextVersion, pendingForAck, freed, ackError>>
  BY <1>4 DEF ReceiveChange, M
<1>7. /\ S' = S /\ M' = Tail(M) /\ M' \in Seq(FromSlave) /\ m = M[1]
      /\ Len(M) \in Nat /\ Len(M) > 0 /\ Len(M') = Len(M) - 1
      /\ \A i \in 1..Len(M') : M'[i] = M[i + 1] /\ i + 1 \in 1..Len(M)
      /\ net' \in [Side -> Seq(Changes \cup Acks)]
      /\ Numbered'
  BY <1>1, <1>2, <1>6, MasterTakes
<1>8. found = (pendingForAck[k] # 0) \/ freedRead'[k]
  BY <1>1, <1>4, <1>5, <1>6, Lookup DEF Found
<1>9. MapTypes'
  <2>1. map' \in [Side -> [Key -> MapValues \cup {Absent}]]
    BY <1>1, <1>4, <1>5, MapFacts
  <2>2. freedRead' \in [Key -> BOOLEAN]
    BY <1>1, <1>4, <1>5, <1>6, Lookup
  <2> QED BY <2>1, <2>2, <1>1, <1>6, <1>7 DEF MapTypes, MapTypeOK
<1>10. \A j, n : InFlight(S', M', j, n) <=> InFlight(S, M, j, n)
  <2> TAKE j, n
  <2>1. ~IsAckOf(m, j, n)
    BY <1>2 DEF IsAckOf
  <2>2. (\E i \in 1..Len(M) : IsAckOf(M[i], j, n))
          <=> IsAckOf(m, j, n) \/ (\E i \in 1..Len(M') : IsAckOf(M'[i], j, n))
    BY <1>2, <1>7, InFlightTaken
  <2> QED BY <2>1, <2>2, <1>7 DEF InFlight
<1>11. \A j, n, x, y : \A i \in 1..Len(M') : Echo(M, j, i + 1, x, y) => Echo(M', j, i, x, y)
  BY <1>2, <1>7, EchoTail
<1>12. \A j, x, y : Echo(M, j, 0, x, y) =>
                      Echo(M', j, 0, IF IsChangeOf(m, j) THEN m.value ELSE x, y)
  <2> TAKE j, x, y
  <2> HAVE Echo(M, j, 0, x, y)
  <2>1. Echo(M, j, 0 + 1, IF IsChangeOf(m, j) THEN m.value ELSE x, y)
    BY <1>2, EchoHead
  <2> QED BY <2>1, <1>2, <1>7, EchoTail
<1>13. map'["slave"] = map["slave"]
  BY <1>1, <1>4, <1>5, MapFacts DEF Side
<1>14. ASSUME ~freedRead'[k]
       PROVE  Awaited(k)' /\ (~ackError'[k] => Converges(k)')
  <2>1. /\ Awaited(k) /\ (~ackError[k] => Converges(k)) /\ pendingForAck[k] \in Nat
        /\ pendingForAck'[k] = pendingForAck[k] /\ ackError'[k] = ackError[k]
    BY <1>1, <1>4, <1>5, <1>6, <1>14, Lookup, MapFacts DEF MapInv
  <2>2. Awaited(k)'
    BY <1>10, <2>1 DEF Awaited
  <2>3. (AtRest(k)' => AtRest(k)) /\ (AwaitsLast(k)' => AwaitsLast(k))
    BY <1>10, <2>1 DEF AtRest, AwaitsLast
  <2>4. ASSUME ~ackError'[k], AtRest(k)'
        PROVE  Echo(M', k, 0, map'["master"][k], map'["slave"][k])
    <3>1. pendingForAck[k] = 0 /\ Echo(M, k, 0, map["master"][k], map["slave"][k])
      BY <2>1, <2>3, <2>4 DEF AtRest, Converges
    <3>2. map'["master"][k] = m.value
      BY <3>1, <1>1, <1>4, <1>5, <1>8, <1>14, MapFacts DEF Refused, Side
    <3>3. IsChangeOf(m, k)
      BY <1>2, <1>4 DEF IsChangeOf
    <3> QED BY <3>1, <3>2, <3>3, <1>12, <1>13
  <2>5. ASSUME AwaitsLast(k)' PROVE map' = map
    BY <2>3, <2>5, <1>4, <1>5, <1>8, <1>14 DEF AwaitsLast, Refused
  <2>6. ASSUME ~ackError'[k], AwaitsLast(k)', NEW i \in 1..Len(S'),
               IsSent(S'[i], k, pendingForAck'[k])
        PROVE  S'[i].value = map'["master"][k]
    BY <1>7, <2>1, <2>3, <2>5, <2>6 DEF Converges
  <2>7. ASSUME ~ackError'[k], AwaitsLast(k)', NEW i \in 1..Len(M'),
               IsAckOf(M'[i], k, pendingForAck'[k])
        PROVE  Echo(M', k, i, map'["master"][k], map'["slave"][k])
    <3>1. IsAckOf(M[i + 1], k, pendingForAck[k]) /\ i + 1 \in 1..Len(M)
      BY <1>7, <2>1, <2>7
    <3>2. Echo(M, k, i + 1, map["master"][k], map["slave"][k])
      BY <3>1, <2>1, <2>3, <2>7 DEF Converges
    <3> QED BY <3>2, <1>11, <2>5, <2>7
  <2> QED BY <2>2, <2>4, <2>6, <2>7 DEF Converges
<1>15. ASSUME NEW j \in Key, j # k, ~freedRead'[j]
       PROVE  Awaited(j)' /\ (~ackError'[j] => Converges(j)')
  <2>1. ~freedRead[j] /\ pendingForAck[j] \in Nat /\ pendingForAck'[j] = pendingForAck[j]
        /\ ackError'[j] = ackError[j]
    BY <1>1, <1>4, <1>5, <1>6, <1>15, Lookup, MapFacts
  <2>2. map'["master"][j] = map["master"][j] /\ map'["slave"][j] = map["slave"][j]
    BY <1>1, <1>4, <1>5, <1>13, <1>15, MapFacts DEF Side
  <2>3. ~IsChangeOf(m, j)
    BY <1>4, <1>15 DEF IsChangeOf
  <2>4. \A i \in 1..Len(M') : IsAckOf(M'[i], j, pendingForAck[j]) =>
           \E l \in 1..Len(M) :
             /\ IsAckOf(M[l], j, pendingForAck[j])
             /\ Echo(M, j, l, map["master"][j], map["slave"][j])
                  => Echo(M', j, i, map["master"][j], map["slave"][j])
    BY <1>7, <1>11
  <2>5. Echo(M, j, 0, map["master"][j], map["slave"][j])
           => Echo(M', j, 0, map["master"][j], map["slave"][j])
    BY <1>12, <2>3
  <2> QED BY <1>7, <1>10, <2>1, <2>2, <2>4, <2>5, KeyLeftAlone DEF MapInv
<1> QED BY <1>4, <1>7, <1>9, <1>14, <1>15 DEF MapInv

\* An acknowledgement comes back to the master.
LEMMA MasterTakesAck ==
  ASSUME MapInv, ReceiveAck
  PROVE  MapInv'
<1> DEFINE m == Head(M)
<1>1. MapTypes /\ Numbered
  BY DEF MapInv
<1>2. M # <<>> /\ m.op = "ack" /\ M \in Seq(FromSlave)
  BY <1>1 DEF MapTypes, ReceiveAck, M
<1>3. m \in FromSlave
  BY <1>2, TailFacts
<1>4. PICK k \in Key : k = m.key /\ m.version \in Nat
  BY <1>3, MapMessages
<1>5. PICK found \in Found(k) :
        /\ ackError' = [ackError EXCEPT ![k] = @ \/ ~found \/ pendingForAck[k] < m.version]
        /\ pendingForAck' = IF found /\ pendingForAck[k] = m.version
                            THEN [pendingForAck EXCEPT ![k] = 0] ELSE pendingForAck
  BY <1>4 DEF ReceiveAck, Settled, M
<1>6. LookUp(k) /\ Take("master") /\ UNCHANGED <<map, nextVersion, freed>>
  BY <1>4 DEF ReceiveAck, M
<1>7. /\ S' = S /\ M' = Tail(M) /\ M' \in Seq(FromSlave) /\ m = M[1]
      /\ Len(M) \in Nat /\ Len(M) > 0 /\ Len(M') = Len(M) - 1
      /\ \A i \in 1..Len(M') : M'[i] = M[i + 1] /\ i + 1 \in 1..Len(M)
      /\ net' \in [Side -> Seq(Changes \cup Acks)]
      /\ Numbered'
  BY <1>1, <1>2, <1>6, MasterTakes
<1>8. ~freedRead'[k] => (found <=> pendingForAck[k] # 0)
  BY <1>1, <1>4, <1>5, <1>6, Lookup
<1>9. MapTypes'
  <2>1. pendingForAck' \in [Key -> Nat]
    BY <1>1, <1>4, <1>5, MapFacts
  <2>2. freedRead' \in [Key -> BOOLEAN]
    BY <1>1, <1>4, <1>5, <1>6, Lookup
  <2>3. ackError' \in [Key -> BOOLEAN]
    <3>1. (ackError[k] \/ ~found \/ pendingForAck[k] < m.version) \in BOOLEAN
      OBVIOUS
    <3> QED BY <3>1, <1>1, <1>5, MapFacts
  <2> QED BY <2>1, <2>2, <2>3, <1>1, <1>6, <1>7 DEF MapTypes, MapTypeOK
<1>10. \A j, n : InFlight(S, M, j, n) <=> IsAckOf(m, j, n) \/ InFlight(S', M', j, n)
  <2> TAKE j, n
  <2>1. (\E i \in 1..Len(M) : IsAckOf(M[i], j, n))
          <=> IsAckOf(m, j, n) \/ (\E i \in 1..Len(M') : IsAckOf(M'[i], j, n))
    BY <1>2, <1>7, InFlightTaken
  <2> QED BY <2>1, <1>7 DEF InFlight
<1>11. \A j, x, y : \A i \in 0..Len(M') : Echo(M, j, i + 1, x, y) => Echo(M', j, i, x, y)
  BY <1>2, <1>7, EchoTail
<1>12. ASSUME ~freedRead'[k]
       PROVE  Awaited(k)' /\ (~ackError'[k] => Converges(k)')
  <2>1. /\ Awaited(k) /\ (~ackError[k] => Converges(k)) /\ pendingForAck[k] \in Nat
        /\ found <=> pendingForAck[k] # 0
    BY <1>1, <1>4, <1>5, <1>6, <1>8, <1>12, Lookup, MapFacts DEF MapInv
  <2>2. pendingForAck'[k] = IF found /\ pendingForAck[k] = m.version THEN 0 ELSE pendingForAck[k]
    BY <1>1, <1>4, <1>5, MapFacts
  <2>3. ackError'[k] <=> ackError[k] \/ ~found \/ pendingForAck[k] < m.version
    BY <1>1, <1>4, <1>5, MapFacts
  <2>4. Awaited(k)'
    <3> SUFFICES ASSUME pendingForAck'[k] # 0 PROVE InFlight(S', M', k, pendingForAck'[k])
      BY DEF Awaited
    <3>1. pendingForAck'[k] = pendingForAck[k] /\ pendingForAck[k] # m.version
      BY <2>1, <2>2
    <3> QED BY <3>1, <1>10, <2>1 DEF Awaited, IsAckOf
  <2>5. ASSUME ~ackError'[k] PROVE Converges(k)'
    <3>1. Converges(k) /\ pendingForAck[k] # 0 /\ m.version <= pendingForAck[k]
      BY <1>4, <2>1, <2>3, <2>5
    <3>2. ASSUME AtRest(k)' PROVE Echo(M', k, 0, map'["master"][k], map'["slave"][k])
      <4>1. pendingForAck[k] = m.version
        BY <3>1, <3>2, <2>1, <2>2 DEF AtRest
      <4>2. \A n \in Nat : InFlight(S, M, k, n) => n = m.version
        BY <3>2, <1>10 DEF AtRest, IsAckOf
      <4>3. AwaitsLast(k)
        BY <3>1, <4>1, <4>2, <1>4 DEF AwaitsLast
      <4>4. IsAckOf(M[1], k, pendingForAck[k]) /\ 1 \in 1..Len(M)
        BY <4>1, <1>2, <1>4, <1>7 DEF IsAckOf
      <4>5. Echo(M, k, 0 + 1, map["master"][k], map["slave"][k])
        BY <4>3, <4>4, <3>1 DEF Converges
      <4> QED BY <4>5, <1>6, <1>7, <1>11
    <3>3. ASSUME AwaitsLast(k)'
          PROVE  AwaitsLast(k) /\ pendingForAck'[k] = pendingForAck[k]
      <4>1. pendingForAck'[k] = pendingForAck[k]
        BY <3>3, <2>2 DEF AwaitsLast
      <4>2. \A n \in Nat : InFlight(S, M, k, n) => n <= pendingForAck[k]
        <5> SUFFICES ASSUME NEW n \in Nat, InFlight(S, M, k, n) PROVE n <= pendingForAck[k]
          OBVIOUS
        <5>1. CASE IsAckOf(m, k, n)
          BY <5>1, <3>1 DEF IsAckOf
        <5>2. CASE InFlight(S', M', k, n)
          BY <5>2, <4>1, <3>3 DEF AwaitsLast
        <5> QED BY <5>1, <5>2, <1>10
      <4> QED BY <4>1, <4>2, <3>1 DEF AwaitsLast
    <3>4. ASSUME AwaitsLast(k)', NEW i \in 1..Len(S'), IsSent(S'[i], k, pendingForAck'[k])
          PROVE  S'[i].value = map'["master"][k]
      BY <1>6, <1>7, <3>1, <3>3, <3>4 DEF Converges
    <3>5. ASSUME AwaitsLast(k)', NEW i \in 1..Len(M'), IsAckOf(M'[i], k, pendingForAck'[k])
          PROVE  Echo(M', k, i, map'["master"][k], map'["slave"][k])
      <4>1. IsAckOf(M[i + 1], k, pendingForAck[k]) /\ i + 1 \in 1..Len(M)
        BY <1>7, <3>3, <3>5
      <4>2. Echo(M, k, i + 1, map["master"][k], map["slave"][k])
        BY <4>1, <3>1, <3>3, <3>5 DEF Converges
      <4>3. i \in 0..Len(M')
        BY <1>7
      <4> QED BY <4>2, <4>3, <1>6, <1>11
    <3> QED BY <3>2, <3>4, <3>5 DEF Converges
  <2> QED BY <2>4, <2>5
<1>13. ASSUME NEW j \in Key, j # k, ~freedRead'[j]
       PROVE  Awaited(j)' /\ (~ackError'[j] => Converges(j)')
  <2>1. ~freedRead[j] /\ pendingForAck[j] \in Nat /\ pendingForAck'[j] = pendingForAck[j]
        /\ ackError'[j] = ackError[j]
    BY <1>1, <1>4, <1>5, <1>6, <1>13, Lookup, MapFacts
  <2>2. map' = map /\ ~IsChangeOf(m, j) /\ \A n : ~IsAckOf(m, j, n)
    BY <1>2, <1>4, <1>6, <1>13 DEF IsChangeOf, IsAckOf
  <2>3. \A n \in Nat : InFlight(S', M', j, n) <=> InFlight(S, M, j, n)
    BY <1>10, <2>2
  <2>4. \A i \in 1..Len(M') : IsAckOf(M'[i], j, pendingForAck[j]) =>
           \E l \in 1..Len(M) :
             /\ IsAckOf(M[l], j, pendingForAck[j])
             /\ Echo(M, j, l, map["master"][j], map["slave"][j])
                  => Echo(M', j, i, map["master"][j], map["slave"][j])
    <3>1. \A i \in 1..Len(M') : i \in 0..Len(M')
      BY <1>7
    <3> QED BY <3>1, <1>7, <1>11
  <2>5. Echo(M, j, 0, map["master"][j], map["slave"][j])
           => Echo(M', j, 0, map["master"][j], map["slave"][j])
    <3> HAVE Echo(M, j, 0, map["master"][j], map["slave"][j])
    <3>1. Echo(M, j, 0 + 1, map["master"][j], map["slave"][j])
      BY <2>2, <1>2, EchoHead
    <3>2. 0 \in 0..Len(M')
      BY <1>7
    <3> QED BY <3>1, <3>2, <1>11
  <2> QED BY <1>7, <2>1, <2>2, <2>3, <2>4, <2>5, KeyLeftAlone DEF MapInv
<1> QED BY <1>4, <1>7, <1>9, <1>12, <1>13 DEF MapInv

LEMMA MapStep ==
  ASSUME MapInv, [MapNext]_mapVars
  PROVE  MapInv'
<1>1. CASE UNCHANGED mapVars
  BY <1>1 DEF mapVars, MapInv, MapTypes, MapTypeOK, Numbered, Awaited, Converges, AtRest,
              AwaitsLast, S, M
<1>2. ASSUME NEW s \in Side, NEW k \in Key, RemoveLocal(s, k) PROVE MapInv'
  BY <1>2, MasterChanges, SlaveChanges DEF RemoveLocal, Side
<1>3. ASSUME NEW s \in Side, NEW k \in Key, NEW v \in MapValues, PutLocal(s, k, v)
      PROVE  MapInv'
  BY <1>3, MasterChanges, SlaveChanges DEF PutLocal, Side
<1> QED
  BY <1>1, <1>2, <1>3, SlaveTakesChange, MasterTakesChange, MasterTakesAck
  DEF MapNext, MapReceive, Side

\* What the master awaits comes back, and then the two have the same.
THEOREM MapInvariance == Spec => []MapPart
<1>1. Init => MapPart
  <2>1. Init => MapUnused
    BY DEF Init, MapInit, MapUnused, Side
  <2>2. Init => MapTypes /\ S = <<>> /\ M = <<>>
    <3>1. ASSUME NEW A PROVE <<>> \in Seq(A)
      OBVIOUS
    <3> QED BY <3>1 DEF Init, MapInit, NetInit, MapTypes, MapTypeOK, Side, S, M
  <2>3. Init => Numbered
    BY <2>2 DEF Numbered
  <2>4. ASSUME Init, NEW k \in Key PROVE Awaited(k) /\ Converges(k)
    BY <2>1, <2>2, <2>4 DEF MapUnused, Awaited, Converges, AwaitsLast, Echo
  <2> QED BY <2>1, <2>2, <2>3, <2>4 DEF MapPart, MapInv
<1>2. MapPart /\ [Next]_vars => MapPart'
  BY MapStep, StepOfParts DEF MapPart, MapUnused, mapOnly
<1> QED BY <1>1, <1>2, PTL DEF Spec

\* MapAgrees: maps that part have logged an error or read a freed key.
THEOREM MapAgreement == Spec => []MapAgrees
<1>1. MapInv => MapAgrees
  <2> SUFFICES ASSUME MapInv, Quiet, NEW k \in Key, ~freedRead[k]
               PROVE  /\ map["master"][k] = map["slave"][k] \/ ackError[k]
                      /\ pendingForAck[k] = 0
    BY DEF MapAgrees
  <2>1. S = <<>> /\ M = <<>> /\ Awaited(k) /\ (~ackError[k] => Converges(k))
    BY DEF Quiet, Side, S, M, MapInv
  <2>2. \A n : ~InFlight(S, M, k, n)
    BY <2>1 DEF InFlight
  <2>3. pendingForAck[k] = 0
    BY <2>1, <2>2 DEF Awaited
  <2>4. Converges(k) => Echo(M, k, 0, map["master"][k], map["slave"][k])
    BY <2>2, <2>3 DEF Converges, AtRest
  <2> QED BY <2>1, <2>3, <2>4 DEF Echo
<1>2. MapPart => MapAgrees
  BY <1>1 DEF MapPart, MapUnused, MapAgrees
<1> QED BY <1>2, MapInvariance, PTL

-----------------------------------------------------------------------------
\* RdList

\* The changes q, made one after the other, turn the list x into the list y: h[i] is
\* what is there after the first i of them.
Path(q, x, y) ==
  \E h \in [Nat -> Seq(ListValues)] :
    /\ h[0] = x /\ h[Len(q)] = y
    /\ \A i \in 1..Len(q) :
         q[i].index \in Places(h[i - 1], q[i].op) /\ h[i] = Edited(h[i - 1], q[i])

\* The changes q carry the versions from a up to b, b left out.
Counts(q, a, b) == b = a + Len(q) /\ \A i \in 1..Len(q) : q[i].version = a + (i - 1)

\* What is on its way to the other side makes its list that of s.
Leads(s) ==
  /\ net[s] = <<>>
  /\ Counts(net[Other(s)], nextListVersion[Other(s)], nextListVersion[s])
  /\ Path(net[Other(s)], list[Other(s)], list[s])

\* Both have changed the list at once, and both will notice.
Clash == \A s \in Side : net[s] # <<>> /\ Head(net[s]).version < nextListVersion[s]

ListInv ==
  /\ ListTypeOK
  /\ (\A s \in Side : ~conflict[s]) =>
       Clash \/ \E s \in Side : Leads(s)

ListUnused == list["master"] = list["slave"]

ListPart == IF busy = "list" THEN ListInv ELSE ListUnused

Prefix(l, n) == [i \in 1..n |-> l[i]]

LEMMA PrefixType ==
  ASSUME NEW V, NEW l \in Seq(V), NEW n \in 0..Len(l)
  PROVE  Prefix(l, n) \in Seq(V) /\ Len(Prefix(l, n)) = n /\ Prefix(l, Len(l)) = l
         /\ Prefix(l, 0) = <<>>
<1>1. /\ n \in Nat /\ l \in [1..Len(l) -> V] /\ Len(l) \in Nat
  OBVIOUS
<1>2. Prefix(l, n) \in [1..n -> V]
  BY <1>1 DEF Prefix
<1>3. Prefix(l, n) \in Seq(V) /\ Len(Prefix(l, n)) = n
  BY <1>1, <1>2
<1>4. Prefix(l, Len(l)) = l
  BY <1>1 DEF Prefix
<1>5. Prefix(l, 0) = <<>>
  BY DEF Prefix
<1> QED BY <1>3, <1>4, <1>5

LEMMA SubSeqIs ==
  ASSUME NEW V, NEW l \in Seq(V), NEW a \in 1..Len(l)+1, NEW b \in 0..Len(l)
  PROVE  /\ SubSeq(l, a, b) \in Seq(V)
         /\ Len(SubSeq(l, a, b)) = IF a <= b THEN b - a + 1 ELSE 0
         /\ \A i \in 1..(b - a + 1) : SubSeq(l, a, b)[i] = l[a + i - 1]
OBVIOUS

\* To remove the last element is to leave the others.
LEMMA RemoveLast ==
  ASSUME NEW V, NEW l \in Seq(V), NEW n \in 1..Len(l)
  PROVE  RemoveAt(Prefix(l, n), n) = Prefix(l, n - 1)
<1> DEFINE p == Prefix(l, n)
<1>1. p \in Seq(V) /\ Len(p) = n /\ n \in Nat /\ n >= 1
  BY PrefixType
<1>2. \A i \in 1..n : p[i] = l[i]
  BY DEF Prefix
<1> HIDE DEF p
<1>3. /\ SubSeq(p, 1, n - 1) \in Seq(V) /\ Len(SubSeq(p, 1, n - 1)) = n - 1
      /\ \A i \in 1..(n - 1) : SubSeq(p, 1, n - 1)[i] = p[i]
  BY <1>1, SubSeqIs
<1>4. SubSeq(p, n + 1, Len(p)) = <<>>
  BY <1>1, SubSeqIs
<1>5. RemoveAt(p, n) = SubSeq(p, 1, n - 1)
  <2>1. RemoveAt(p, n) = SubSeq(p, 1, n - 1) \o SubSeq(p, n + 1, Len(p))
    BY DEF RemoveAt
  <2>2. \A q \in Seq(V) : q \o <<>> = q
    OBVIOUS
  <2> QED BY <2>1, <2>2, <1>3, <1>4
<1>6. SubSeq(p, 1, n - 1) = Prefix(l, n - 1)
  BY <1>1, <1>2, <1>3 DEF Prefix
<1> QED BY <1>5, <1>6 DEF p

LEMMA EditedType ==
  ASSUME NEW l \in Seq(ListValues), NEW m \in ListMessages, m.index \in Places(l, m.op)
  PROVE  Edited(l, m) \in Seq(ListValues)
<1>1. m.op \in Operations /\ m.index \in Nat /\ m.value \in ListValues /\ Len(l) \in Nat
  BY DEF ListMessages
<1>2. CASE m.op = "add"
  <2>1. m.index \in 1 .. Len(l) + 1
    BY <1>2 DEF Places
  <2>2. /\ SubSeq(l, 1, m.index - 1) \in Seq(ListValues)
        /\ SubSeq(l, m.index, Len(l)) \in Seq(ListValues)
        /\ <<m.value>> \in Seq(ListValues)
    BY <1>1, <2>1, SubSeqIs
  <2>3. Edited(l, m) = SubSeq(l, 1, m.index - 1) \o <<m.value>> \o SubSeq(l, m.index, Len(l))
    BY <1>2 DEF Edited, InsertAt
  <2> QED BY <2>2, <2>3
<1>3. CASE m.op = "update"
  <2>1. m.index \in 1 .. Len(l) /\ l \in [1..Len(l) -> ListValues]
    BY <1>3 DEF Places
  <2>2. Edited(l, m) = [l EXCEPT ![m.index] = m.value]
    BY <1>3 DEF Edited, ReplaceAt
  <2>3. Edited(l, m) \in [1..Len(l) -> ListValues]
    BY <1>1, <2>1, <2>2
  <2> QED BY <1>1, <2>3
<1>4. CASE m.op = "remove"
  <2>1. m.index \in 1 .. Len(l)
    BY <1>4 DEF Places
  <2>2. /\ SubSeq(l, 1, m.index - 1) \in Seq(ListValues)
        /\ SubSeq(l, m.index + 1, Len(l)) \in Seq(ListValues)
    BY <1>1, <2>1, SubSeqIs
  <2>3. Edited(l, m) = SubSeq(l, 1, m.index - 1) \o SubSeq(l, m.index + 1, Len(l))
    BY <1>4 DEF Edited, RemoveAt
  <2> QED BY <2>2, <2>3
<1> QED BY <1>1, <1>2, <1>3, <1>4 DEF Operations

LEMMA ListFacts ==
  ASSUME ListTypeOK, NEW s \in Side
  PROVE  /\ Other(s) \in Side /\ Other(s) # s /\ Other(Other(s)) = s
         /\ net[s] \in Seq(ListMessages) /\ net[Other(s)] \in Seq(ListMessages)
         /\ list[s] \in Seq(ListValues) /\ list[Other(s)] \in Seq(ListValues)
         /\ nextListVersion[s] \in Nat /\ nextListVersion[Other(s)] \in Nat
         /\ Len(net[s]) \in Nat /\ Len(net[Other(s)]) \in Nat
         /\ \A r \in Side : r = s \/ r = Other(s)
BY OtherSide DEF ListTypeOK

\* Several messages, the last of them nothing new to the others.
LEMMA AppendMany ==
  ASSUME NEW T, NEW q \in Seq(T), NEW u \in Seq(T)
  PROVE  /\ q \o u \in Seq(T) /\ Len(q \o u) = Len(q) + Len(u)
         /\ Len(q) \in Nat /\ Len(u) \in Nat
         /\ \A i \in 1..Len(q) : (q \o u)[i] = q[i]
         /\ \A i \in 1..Len(u) : (q \o u)[Len(q) + i] = u[i]
OBVIOUS

LEMMA PathAppend ==
  ASSUME NEW q \in Seq(ListMessages), NEW u \in Seq(ListMessages), NEW x, NEW y, NEW z,
         Path(q, x, y), Path(u, y, z)
  PROVE  Path(q \o u, x, z)
<1>1. PICK w \in Seq(ListMessages), n \in Nat, k \in Nat :
        /\ w = q \o u /\ Len(w) = n + k /\ n = Len(q) /\ k = Len(u)
        /\ \A i \in 1..n : w[i] = q[i]
        /\ \A i \in 1..k : w[n + i] = u[i]
  <2>1. /\ q \o u \in Seq(ListMessages) /\ Len(q) \in Nat /\ Len(u) \in Nat
        /\ Len(q \o u) = Len(q) + Len(u)
        /\ \A i \in 1..Len(q) : (q \o u)[i] = q[i]
        /\ \A i \in 1..Len(u) : (q \o u)[Len(q) + i] = u[i]
    BY AppendMany
  <2> QED BY <2>1
<1>2. PICK h \in [Nat -> Seq(ListValues)] :
        /\ h[0] = x /\ h[n] = y
        /\ \A i \in 1..n : q[i].index \in Places(h[i - 1], q[i].op) /\ h[i] = Edited(h[i - 1], q[i])
  BY <1>1 DEF Path
<1>3. PICK g \in [Nat -> Seq(ListValues)] :
        /\ g[0] = y /\ g[k] = z
        /\ \A i \in 1..k : u[i].index \in Places(g[i - 1], u[i].op) /\ g[i] = Edited(g[i - 1], u[i])
  BY <1>1 DEF Path
<1>4. PICK f \in [Nat -> Seq(ListValues)] :
        \A i \in Nat : f[i] = IF i <= n THEN h[i] ELSE g[i - n]
  <2> DEFINE F == [i \in Nat |-> IF i <= n THEN h[i] ELSE g[i - n]]
  <2>1. \A i \in Nat : i <= n \/ i - n \in Nat
    OBVIOUS
  <2>2. F \in [Nat -> Seq(ListValues)]
    BY <2>1
  <2> QED BY <2>2
<1>5. \A i \in 0..n : f[i] = h[i]
  BY <1>4
<1>6. \A i \in 0..k : f[n + i] = g[i]
  <2> SUFFICES ASSUME NEW i \in 0..k PROVE f[n + i] = g[i]
    OBVIOUS
  <2>1. n + i \in Nat /\ (n + i) - n = i /\ n + 0 = n /\ (i = 0 \/ ~(n + i <= n))
    OBVIOUS
  <2> QED BY <2>1, <1>2, <1>3, <1>4, <1>5
<1>7. f[0] = x /\ f[n + k] = z
  BY <1>2, <1>3, <1>5, <1>6
<1>8. ASSUME NEW i \in 1..n
      PROVE  w[i].index \in Places(f[i - 1], w[i].op) /\ f[i] = Edited(f[i - 1], w[i])
  <2>0. i \in 0..n /\ i - 1 \in 0..n
    OBVIOUS
  <2>1. f[i - 1] = h[i - 1] /\ f[i] = h[i]
    BY <2>0, <1>5
  <2> QED BY <2>1, <1>1, <1>2
<1>9. ASSUME NEW j \in 1..k
      PROVE  /\ w[n + j].index \in Places(f[(n + j) - 1], w[n + j].op)
             /\ f[n + j] = Edited(f[(n + j) - 1], w[n + j])
  <2>1. j \in 0..k /\ j - 1 \in 0..k /\ (n + j) - 1 = n + (j - 1)
    OBVIOUS
  <2>2. f[(n + j) - 1] = g[j - 1] /\ f[n + j] = g[j]
    BY <2>1, <1>6
  <2> QED BY <2>2, <1>1, <1>3
<1>10. ASSUME NEW i \in 1..(n + k) PROVE i \in 1..n \/ \E j \in 1..k : i = n + j
  <2>1. i \in 1..n \/ (i - n \in 1..k /\ i = n + (i - n))
    OBVIOUS
  <2> QED BY <2>1
<1>11. ASSUME NEW i \in 1..Len(w)
       PROVE  w[i].index \in Places(f[i - 1], w[i].op) /\ f[i] = Edited(f[i - 1], w[i])
  <2>1. CASE i \in 1..n
    BY <2>1, <1>8
  <2>2. CASE \E j \in 1..k : i = n + j
    BY <2>2, <1>9
  <2> QED BY <2>1, <2>2, <1>1, <1>10
<1> QED BY <1>1, <1>7, <1>11 DEF Path

LEMMA CountsAppend ==
  ASSUME NEW q \in Seq(ListMessages), NEW u \in Seq(ListMessages),
         NEW a \in Nat, NEW b \in Nat, NEW c \in Nat, Counts(q, a, b), Counts(u, b, c)
  PROVE  Counts(q \o u, a, c)
<1>1. PICK w \in Seq(ListMessages), n \in Nat, k \in Nat :
        /\ w = q \o u /\ Len(w) = n + k /\ n = Len(q) /\ k = Len(u)
        /\ \A i \in 1..n : w[i] = q[i]
        /\ \A i \in 1..k : w[n + i] = u[i]
  <2>1. /\ q \o u \in Seq(ListMessages) /\ Len(q) \in Nat /\ Len(u) \in Nat
        /\ Len(q \o u) = Len(q) + Len(u)
        /\ \A i \in 1..Len(q) : (q \o u)[i] = q[i]
        /\ \A i \in 1..Len(u) : (q \o u)[Len(q) + i] = u[i]
    BY AppendMany
  <2> QED BY <2>1
<1>2. b = a + n /\ \A i \in 1..n : q[i].version = a + (i - 1)
  BY <1>1 DEF Counts
<1>3. c = b + k /\ \A i \in 1..k : u[i].version = b + (i - 1)
  BY <1>1 DEF Counts
<1>4. \A i \in 1..n : w[i].version = a + (i - 1)
  BY <1>1, <1>2
<1>5. ASSUME NEW j \in 1..k PROVE w[n + j].version = a + ((n + j) - 1)
  <2>1. w[n + j].version = b + (j - 1)
    BY <1>1, <1>3
  <2>2. b + (j - 1) = a + ((n + j) - 1)
    BY <1>2
  <2> QED BY <2>1, <2>2
<1>6. ASSUME NEW i \in 1..(n + k) PROVE i \in 1..n \/ \E j \in 1..k : i = n + j
  <2>1. i \in 1..n \/ (i - n \in 1..k /\ i = n + (i - n))
    OBVIOUS
  <2> QED BY <2>1
<1>7. ASSUME NEW i \in 1..(n + k) PROVE w[i].version = a + (i - 1)
  <2>1. CASE i \in 1..n
    BY <2>1, <1>4
  <2>2. CASE \E j \in 1..k : i = n + j
    BY <2>2, <1>5
  <2> QED BY <2>1, <2>2, <1>6
<1>8. c = a + Len(w)
  BY <1>1, <1>2, <1>3
<1> QED BY <1>1, <1>7, <1>8 DEF Counts

LEMMA NoChanges ==
  ASSUME NEW x \in Seq(ListValues), NEW a \in Nat
  PROVE  Path(<<>>, x, x) /\ Counts(<<>>, a, a)
<1>1. PICK h \in [Nat -> Seq(ListValues)] : h[0] = x
  <2>1. [i \in Nat |-> x] \in [Nat -> Seq(ListValues)]
    OBVIOUS
  <2> QED BY <2>1
<1>2. Path(<<>>, x, x)
  <2>1. Len(<<>>) = 0 /\ 1..0 = {}
    OBVIOUS
  <2> QED BY <2>1, <1>1 DEF Path
<1>3. Counts(<<>>, a, a)
  BY DEF Counts
<1> QED BY <1>2, <1>3

LEMMA NothingLeft ==
  ASSUME NEW x, NEW y, NEW a \in Nat, NEW b \in Nat
  PROVE  (Path(<<>>, x, y) => x = y) /\ (Counts(<<>>, a, b) => a = b)
BY DEF Path, Counts

\* The first of the changes is made, the others are left.
LEMMA TakeChange ==
  ASSUME NEW q \in Seq(ListMessages), q # <<>>, NEW x, NEW y, NEW a \in Nat, NEW b \in Nat,
         Path(q, x, y), Counts(q, a, b)
  PROVE  /\ Head(q).version = a /\ Head(q).index \in Places(x, Head(q).op)
         /\ Path(Tail(q), Edited(x, Head(q)), y)
         /\ Counts(Tail(q), a + 1, b) /\ a < b
<1>1. PICK t \in Seq(ListMessages), n \in Nat :
        /\ t = Tail(q) /\ Len(t) = n /\ Len(q) = n + 1 /\ Head(q) = q[1]
        /\ \A i \in 1..n : t[i] = q[i + 1]
  <2>1. /\ Tail(q) \in Seq(ListMessages) /\ Len(Tail(q)) = Len(q) - 1 /\ Len(q) - 1 \in Nat
        /\ Len(q) = (Len(q) - 1) + 1 /\ Head(q) = q[1]
        /\ \A i \in 1..(Len(q) - 1) : Tail(q)[i] = q[i + 1]
    OBVIOUS
  <2> QED BY <2>1
<1>2. PICK h \in [Nat -> Seq(ListValues)] :
        /\ h[0] = x /\ h[n + 1] = y
        /\ \A i \in 1..(n + 1) :
             q[i].index \in Places(h[i - 1], q[i].op) /\ h[i] = Edited(h[i - 1], q[i])
  BY <1>1 DEF Path
<1>3. b = a + (n + 1) /\ \A i \in 1..(n + 1) : q[i].version = a + (i - 1)
  BY <1>1 DEF Counts
<1>4. 1 \in 1..(n + 1) /\ 1 - 1 = 0 /\ a + 0 = a
  OBVIOUS
<1>5. q[1].version = a /\ q[1].index \in Places(x, q[1].op) /\ h[1] = Edited(x, q[1])
  BY <1>2, <1>3, <1>4
<1>6. PICK f \in [Nat -> Seq(ListValues)] : \A i \in Nat : f[i] = h[i + 1]
  <2>1. [i \in Nat |-> h[i + 1]] \in [Nat -> Seq(ListValues)]
    OBVIOUS
  <2> QED BY <2>1
<1>7. f[0] = h[1] /\ f[n] = y
  BY <1>2, <1>6
<1>8. ASSUME NEW i \in 1..n
      PROVE  /\ t[i].index \in Places(f[i - 1], t[i].op) /\ f[i] = Edited(f[i - 1], t[i])
             /\ t[i].version = (a + 1) + (i - 1)
  <2>1. i + 1 \in 1..(n + 1) /\ (i + 1) - 1 = (i - 1) + 1 /\ i \in Nat /\ i - 1 \in Nat
        /\ a + ((i + 1) - 1) = (a + 1) + (i - 1)
    OBVIOUS
  <2>2. f[i - 1] = h[(i + 1) - 1] /\ f[i] = h[i + 1]
    BY <2>1, <1>6
  <2>3. t[i] = q[i + 1]
    BY <1>1
  <2> QED BY <2>1, <2>2, <2>3, <1>2, <1>3
<1>9. Path(t, h[1], y)
  BY <1>1, <1>7, <1>8 DEF Path
<1>10. Counts(t, a + 1, b)
  <2>1. b = (a + 1) + n
    BY <1>3
  <2> QED BY <2>1, <1>1, <1>8 DEF Counts
<1>11. a < b
  BY <1>3
<1> QED BY <1>1, <1>5, <1>9, <1>10, <1>11

(***************************************************************************)
(* s changes its list and sends the changes u.                             *)
(***************************************************************************)
ListSends(s, u, y, c) ==
  /\ Path(u, list[s], y) /\ Counts(u, nextListVersion[s], c)
  /\ net' = [net EXCEPT ![Other(s)] = @ \o u]
  /\ list' = [list EXCEPT ![s] = y]
  /\ nextListVersion' = [nextListVersion EXCEPT ![s] = c]
  /\ conflict' = conflict

LEMMA ListSent ==
  ASSUME ListTypeOK, NEW s \in Side, NEW u \in Seq(ListMessages), u # <<>>,
         NEW y \in Seq(ListValues), NEW c \in Nat, ListSends(s, u, y, c)
  PROVE  /\ ListTypeOK'
         /\ net'[s] = net[s] /\ net'[Other(s)] = net[Other(s)] \o u
         /\ list'[s] = y /\ list'[Other(s)] = list[Other(s)]
         /\ nextListVersion'[s] = c /\ nextListVersion'[Other(s)] = nextListVersion[Other(s)]
         /\ conflict' = conflict
         /\ c > nextListVersion[s] /\ Head(u).version = nextListVersion[s]
<1>1. net[Other(s)] \o u \in Seq(ListMessages)
  BY ListFacts, AppendMany
<1>2. ListTypeOK'
  BY <1>1, ListFacts DEF ListTypeOK, ListSends
<1>3. Head(u).version = nextListVersion[s] /\ nextListVersion[s] < c
  BY ListFacts, TakeChange DEF ListSends
<1>4. nextListVersion[s] < c => c > nextListVersion[s]
  BY ListFacts
<1>5. conflict' = conflict
  BY DEF ListSends
<1>6. /\ net'[s] = net[s] /\ net'[Other(s)] = net[Other(s)] \o u
      /\ list'[s] = y /\ list'[Other(s)] = list[Other(s)]
      /\ nextListVersion'[s] = c /\ nextListVersion'[Other(s)] = nextListVersion[Other(s)]
  BY ListFacts DEF ListTypeOK, ListSends
<1> QED BY <1>2, <1>3, <1>4, <1>5, <1>6

LEMMA HeadOfMore ==
  ASSUME NEW q \in Seq(ListMessages), NEW u \in Seq(ListMessages), u # <<>>
  PROVE  /\ q \o u # <<>>
         /\ Head(q \o u) = IF q = <<>> THEN Head(u) ELSE Head(q)
<1>1. /\ q \o u \in Seq(ListMessages) /\ Len(q \o u) = Len(q) + Len(u)
      /\ Len(q) \in Nat /\ Len(u) \in Nat /\ Len(u) > 0
      /\ \A i \in 1..Len(q) : (q \o u)[i] = q[i]
  BY AppendMany
<1>2. q \o u # <<>>
  BY <1>1
<1>3. CASE q = <<>>
  BY <1>3
<1>4. CASE q # <<>>
  <2>1. Head(q \o u) = (q \o u)[1] /\ Head(q) = q[1] /\ 1 \in 1..Len(q)
    BY <1>1, <1>2, <1>4
  <2> QED BY <2>1, <1>1, <1>2, <1>4
<1> QED BY <1>3, <1>4

LEMMA ListChanges ==
  ASSUME ListInv, NEW s \in Side, NEW u \in Seq(ListMessages), u # <<>>,
         NEW y \in Seq(ListValues), NEW c \in Nat, ListSends(s, u, y, c)
  PROVE  ListInv'
<1>1. ListTypeOK
  BY DEF ListInv
<1>2. /\ ListTypeOK'
      /\ net'[s] = net[s] /\ net'[Other(s)] = net[Other(s)] \o u
      /\ list'[s] = y /\ list'[Other(s)] = list[Other(s)]
      /\ nextListVersion'[s] = c /\ nextListVersion'[Other(s)] = nextListVersion[Other(s)]
      /\ conflict' = conflict
      /\ c > nextListVersion[s] /\ Head(u).version = nextListVersion[s]
  BY <1>1, ListSent
<1>3. PICK o \in Side : /\ o = Other(s) /\ s = Other(o) /\ o # s
                        /\ net[s] \in Seq(ListMessages) /\ net[o] \in Seq(ListMessages)
                        /\ list[s] \in Seq(ListValues) /\ list[o] \in Seq(ListValues)
                        /\ nextListVersion[s] \in Nat /\ nextListVersion[o] \in Nat
                        /\ \A r \in Side : r = s \/ r = o
  BY <1>1, ListFacts
<1>4. /\ net[o] \o u # <<>>
      /\ Head(net[o] \o u) = IF net[o] = <<>> THEN Head(u) ELSE Head(net[o])
  BY <1>3, HeadOfMore
<1>5. ASSUME Leads(s) PROVE ListInv'
  <2>1. /\ net[s] = <<>> /\ Counts(net[o], nextListVersion[o], nextListVersion[s])
        /\ Path(net[o], list[o], list[s])
    BY <1>3, <1>5 DEF Leads
  <2>2. Path(u, list[s], y) /\ Counts(u, nextListVersion[s], c)
    BY DEF ListSends
  <2>3. Path(net[o] \o u, list[o], y)
    BY <2>1, <2>2, <1>3, PathAppend
  <2>4. Counts(net[o] \o u, nextListVersion[o], c)
    BY <2>1, <2>2, <1>3, CountsAppend
  <2>5. Leads(s)'
    BY <2>1, <2>3, <2>4, <1>2, <1>3 DEF Leads
  <2> QED BY <2>5, <1>2 DEF ListInv
<1>6. ASSUME Clash PROVE ListInv'
  <2>1. /\ net[o] # <<>> /\ net[s] # <<>> /\ Head(net[o]).version < nextListVersion[o]
        /\ Head(net[s]).version < nextListVersion[s]
    BY <1>3, <1>6 DEF Clash
  <2>2. Head(net[s]).version \in Nat
    <3>1. Head(net[s]) \in ListMessages
      BY <2>1, <1>3, TailFacts
    <3> QED BY <3>1 DEF ListMessages
  <2>3. Head(net[s]).version < c
    BY <2>1, <2>2, <1>2, <1>3
  <2>4. Clash'
    BY <2>1, <2>3, <1>2, <1>3, <1>4 DEF Clash
  <2> QED BY <2>4, <1>2 DEF ListInv
<1>7. ASSUME Leads(o) PROVE ListInv'
  <2>1. /\ net[o] = <<>> /\ Counts(net[s], nextListVersion[s], nextListVersion[o])
        /\ Path(net[s], list[s], list[o])
    BY <1>3, <1>7 DEF Leads
  <2>2. CASE net[s] = <<>>
    <3>1. list[s] = list[o] /\ nextListVersion[s] = nextListVersion[o]
      BY <2>1, <2>2, <1>3, NothingLeft
    <3>2. Path(<<>>, list[o], list[s]) /\ Counts(<<>>, nextListVersion[o], nextListVersion[s])
      BY <3>1, <1>3, NoChanges
    <3>3. Leads(s)
      BY <3>2, <2>1, <2>2, <1>3 DEF Leads
    <3> QED BY <3>3, <1>5
  <2>3. CASE net[s] # <<>>
    <3>1. Head(net[s]).version = nextListVersion[s] /\ nextListVersion[s] < nextListVersion[o]
      BY <2>1, <2>3, <1>3, TakeChange
    <3>2. Head(net'[s]).version < nextListVersion'[s]
      BY <3>1, <1>2, <1>3
    <3>3. Head(net'[o]).version < nextListVersion'[o]
      BY <3>1, <2>1, <1>2, <1>3, <1>4
    <3>4. Clash'
      BY <3>2, <3>3, <2>3, <1>2, <1>3, <1>4 DEF Clash
    <3> QED BY <3>4, <1>2 DEF ListInv
  <2> QED BY <2>2, <2>3
<1>8. ASSUME NEW r \in Side, conflict[r] PROVE ListInv'
  BY <1>2, <1>8 DEF ListInv
<1>9. (\E r \in Side : conflict[r]) \/ Clash \/ Leads(s) \/ Leads(o)
  BY <1>3 DEF ListInv
<1> QED BY <1>5, <1>6, <1>7, <1>8, <1>9

LEMMA OneChange ==
  ASSUME NEW m \in ListMessages, NEW x \in Seq(ListValues), m.index \in Places(x, m.op),
         NEW a \in Nat, m.version = a
  PROVE  Path(<<m>>, x, Edited(x, m)) /\ Counts(<<m>>, a, a + 1)
<1>1. Edited(x, m) \in Seq(ListValues)
  BY EditedType
<1>2. PICK h \in [Nat -> Seq(ListValues)] : h[0] = x /\ h[1] = Edited(x, m)
  <2> DEFINE H == [i \in Nat |-> IF i = 0 THEN x ELSE Edited(x, m)]
  <2>1. H \in [Nat -> Seq(ListValues)]
    BY <1>1
  <2>2. H[0] = x /\ H[1] = Edited(x, m)
    OBVIOUS
  <2> HIDE DEF H
  <2> QED BY <2>1, <2>2
<1>3. Len(<<m>>) = 1 /\ <<m>>[1] = m /\ \A i \in 1..1 : i = 1
  OBVIOUS
<1>4. Path(<<m>>, x, Edited(x, m))
  <2>1. \A i \in 1..1 : h[i - 1] = h[0] /\ <<m>>[i] = m /\ h[i] = h[1]
    BY <1>3
  <2>2. \A i \in 1..1 : <<m>>[i].index \in Places(h[i - 1], <<m>>[i].op)
                        /\ h[i] = Edited(h[i - 1], <<m>>[i])
    BY <2>1, <1>2
  <2> QED BY <2>2, <1>2, <1>3 DEF Path
<1>5. Counts(<<m>>, a, a + 1)
  <2>1. \A i \in 1..1 : <<m>>[i].version = a + (i - 1)
    BY <1>3
  <2> QED BY <2>1, <1>3 DEF Counts
<1> QED BY <1>4, <1>5

LEMMA AppendOne ==
  ASSUME NEW T, NEW q \in Seq(T), NEW m \in T
  PROVE  Append(q, m) = q \o <<m>>
OBVIOUS

LEMMA EditListStep ==
  ASSUME ListInv, NEW s \in Side, NEW op \in Operations, NEW i \in 1 .. MaxLength,
         NEW v \in ListValues, EditList(s, op, i, v)
  PROVE  ListInv'
<1>1. PICK m : m = [op |-> op, index |-> i, value |-> v, version |-> nextListVersion[s]]
  OBVIOUS
<1>2. /\ i \in Places(list[s], op)
      /\ list' = [list EXCEPT ![s] = Edited(@, m)]
      /\ nextListVersion' = [nextListVersion EXCEPT ![s] = @ + 1]
      /\ Send(s, m)
      /\ conflict' = conflict
  BY <1>1 DEF EditList
<1>3. /\ m \in ListMessages /\ list[s] \in Seq(ListValues) /\ nextListVersion[s] \in Nat
      /\ s \in DOMAIN list /\ s \in DOMAIN nextListVersion
  <2>1. /\ list[s] \in Seq(ListValues) /\ nextListVersion[s] \in Nat /\ Len(list[s]) \in Nat
        /\ s \in DOMAIN list /\ s \in DOMAIN nextListVersion
    BY DEF ListInv, ListTypeOK
  <2>2. i \in 1 .. Len(list[s]) + 1 \/ i \in 1 .. Len(list[s])
    BY <1>2 DEF Places
  <2>3. i \in Nat \ {0}
    BY <2>1, <2>2
  <2> QED BY <2>1, <2>3, <1>1 DEF ListMessages
<1>4. /\ m.index \in Places(list[s], m.op) /\ m.version = nextListVersion[s]
      /\ list' = [list EXCEPT ![s] = Edited(list[s], m)]
      /\ nextListVersion' = [nextListVersion EXCEPT ![s] = nextListVersion[s] + 1]
  BY <1>1, <1>2, <1>3
<1>5. net' = [net EXCEPT ![Other(s)] = @ \o <<m>>]
  <2>1. net[Other(s)] \in Seq(ListMessages) /\ Other(s) \in DOMAIN net
    BY OtherSide DEF ListInv, ListTypeOK
  <2>2. Append(net[Other(s)], m) = net[Other(s)] \o <<m>>
    BY <2>1, <1>3, AppendOne
  <2> QED BY <2>1, <2>2, <1>2 DEF Send
<1>6. /\ Path(<<m>>, list[s], Edited(list[s], m))
      /\ Counts(<<m>>, nextListVersion[s], nextListVersion[s] + 1)
  BY <1>3, <1>4, OneChange
<1>7. ListSends(s, <<m>>, Edited(list[s], m), nextListVersion[s] + 1)
  BY <1>2, <1>4, <1>5, <1>6 DEF ListSends
<1>8. Edited(list[s], m) \in Seq(ListValues) /\ nextListVersion[s] + 1 \in Nat
      /\ <<m>> \in Seq(ListMessages) /\ <<m>> # <<>>
  BY <1>3, <1>4, EditedType
<1> QED BY <1>7, <1>8, ListChanges

\* The removals that clear reports leave nothing of the list.
Removals(l, a) ==
  [k \in 1 .. Len(l) |-> [op |-> "remove", index |-> Len(l) + 1 - k, value |-> l[k],
                          version |-> a + k - 1]]

LEMMA RemovalsClear ==
  ASSUME NEW l \in Seq(ListValues), NEW a \in Nat
  PROVE  /\ Removals(l, a) \in Seq(ListMessages) /\ Len(Removals(l, a)) = Len(l)
         /\ Path(Removals(l, a), l, <<>>) /\ Counts(Removals(l, a), a, a + Len(l))
<1>1. PICK n \in Nat : n = Len(l)
  OBVIOUS
<1>0. PICK u : u = Removals(l, a)
  OBVIOUS
<1>2. l \in [1..n -> ListValues]
  BY <1>1
<1>3. u = [k \in 1 .. n |-> [op |-> "remove", index |-> n + 1 - k, value |-> l[k],
                             version |-> a + k - 1]]
  BY <1>0, <1>1 DEF Removals
<1>4. u \in Seq(ListMessages) /\ Len(u) = n
  <2>1. ASSUME NEW k \in 1..n PROVE u[k] \in ListMessages
    <3>1. n + 1 - k \in Nat \ {0} /\ a + k - 1 \in Nat /\ l[k] \in ListValues
      BY <1>2
    <3> QED BY <3>1, <1>3 DEF ListMessages, Operations
  <2>2. u \in [1..n -> ListMessages]
    BY <2>1, <1>3
  <2> QED BY <2>2
<1>5. \A k \in 1..n : /\ u[k].op = "remove" /\ u[k].index = n + 1 - k
                      /\ u[k].version = a + k - 1
  BY <1>3
<1>6. Counts(u, a, a + n)
  <2>1. \A k \in 1..n : a + k - 1 = a + (k - 1)
    OBVIOUS
  <2> QED BY <2>1, <1>4, <1>5 DEF Counts
<1>7. PICK h \in [Nat -> Seq(ListValues)] : \A i \in 0..n : h[i] = Prefix(l, n - i)
  <2> DEFINE H == [i \in Nat |-> IF i <= n THEN Prefix(l, n - i) ELSE <<>>]
  <2>1. ASSUME NEW i \in Nat, i <= n PROVE Prefix(l, n - i) \in Seq(ListValues)
    <3>1. n - i \in 0..Len(l)
      BY <2>1, <1>1
    <3> QED BY <3>1, PrefixType
  <2>2. H \in [Nat -> Seq(ListValues)]
    BY <2>1
  <2>3. \A i \in 0..n : H[i] = Prefix(l, n - i)
    OBVIOUS
  <2> QED BY <2>2, <2>3
<1>8. h[0] = l /\ h[n] = <<>>
  <2>1. 0 \in 0..n /\ n \in 0..n /\ n - 0 = n /\ n - n = 0 /\ 0 \in 0..Len(l)
    BY <1>1
  <2> QED BY <2>1, <1>1, <1>7, PrefixType
<1>9. ASSUME NEW k \in 1..n
      PROVE  u[k].index \in Places(h[k - 1], u[k].op) /\ h[k] = Edited(h[k - 1], u[k])
  <2>1. PICK j \in 1..n : j = n + 1 - k /\ n - (k - 1) = j /\ n - k = j - 1
    <3>1. n + 1 - k \in 1..n /\ n - (k - 1) = n + 1 - k /\ n - k = (n + 1 - k) - 1
      OBVIOUS
    <3> QED BY <3>1
  <2>2. k \in 0..n /\ k - 1 \in 0..n /\ j \in 0..Len(l) /\ j \in 1..Len(l) /\ j \in 1..j
    BY <1>1
  <2>3. h[k - 1] = Prefix(l, j) /\ h[k] = Prefix(l, j - 1)
    BY <2>1, <2>2, <1>7
  <2>4. Len(h[k - 1]) = j
    BY <2>2, <2>3, PrefixType
  <2>5. u[k].op = "remove" /\ u[k].index = j
    BY <2>1, <1>5
  <2>6. u[k].index \in Places(h[k - 1], u[k].op)
    BY <2>2, <2>4, <2>5 DEF Places
  <2>7. Edited(h[k - 1], u[k]) = RemoveAt(Prefix(l, j), j)
    BY <2>3, <2>5 DEF Edited
  <2>8. RemoveAt(Prefix(l, j), j) = Prefix(l, j - 1)
    BY <2>2, RemoveLast
  <2> QED BY <2>3, <2>6, <2>7, <2>8
<1>10. Path(u, l, <<>>)
  BY <1>4, <1>8, <1>9 DEF Path
<1> QED BY <1>0, <1>1, <1>4, <1>6, <1>10

LEMMA ClearListStep ==
  ASSUME ListInv, NEW s \in Side, ClearList(s)
  PROVE  ListInv'
<1>1. PICK l \in Seq(ListValues), a \in Nat, n \in Nat :
        l = list[s] /\ a = nextListVersion[s] /\ n = Len(l)
  BY DEF ListInv, ListTypeOK
<1>2. /\ CleaningOrder(l) = [k \in 1 .. n |-> n + 1 - k] /\ Len(CleaningOrder(l)) = n
  <2>1. CleaningOrder(l) = [k \in 1 .. n |-> n + 1 - k]
    BY <1>1 DEF CleaningOrder
  <2>2. \A k \in 1..n : n + 1 - k \in Nat
    OBVIOUS
  <2>3. [k \in 1 .. n |-> n + 1 - k] \in Seq(Nat)
    BY <2>2
  <2> QED BY <2>1, <2>3
<1>3. /\ n > 0
      /\ list' = [list EXCEPT ![s] = <<>>]
      /\ nextListVersion' = [nextListVersion EXCEPT ![s] = @ + n]
      /\ net' = [net EXCEPT ![Other(s)] = @ \o
                   [k \in 1 .. n |-> [op |-> "remove", index |-> CleaningOrder(l)[k],
                                      value |-> l[k], version |-> a + k - 1]]]
      /\ conflict' = conflict
  BY <1>1, <1>2 DEF ClearList
<1>4. [k \in 1 .. n |-> [op |-> "remove", index |-> CleaningOrder(l)[k],
                         value |-> l[k], version |-> a + k - 1]] = Removals(l, a)
  BY <1>1, <1>2 DEF Removals
<1>5. /\ Removals(l, a) \in Seq(ListMessages) /\ Len(Removals(l, a)) = n
      /\ Path(Removals(l, a), l, <<>>) /\ Counts(Removals(l, a), a, a + n)
  BY <1>1, RemovalsClear
<1>6. Removals(l, a) # <<>> /\ a + n \in Nat /\ <<>> \in Seq(ListValues)
  BY <1>3, <1>5
<1>7. nextListVersion' = [nextListVersion EXCEPT ![s] = a + n]
  BY <1>1, <1>3 DEF ListInv, ListTypeOK
<1>8. net' = [net EXCEPT ![Other(s)] = @ \o Removals(l, a)]
  BY <1>3, <1>4
<1>9. ListSends(s, Removals(l, a), <<>>, a + n)
  BY <1>1, <1>3, <1>5, <1>7, <1>8 DEF ListSends
<1> QED BY <1>5, <1>6, <1>9, ListChanges

LEMMA ReceiveListStep ==
  ASSUME ListInv, NEW s \in Side, ReceiveList(s)
  PROVE  ListInv'
<1>1. PICK o \in Side : /\ o = Other(s) /\ s = Other(o) /\ o # s
                        /\ net[s] \in Seq(ListMessages) /\ net[o] \in Seq(ListMessages)
                        /\ list[s] \in Seq(ListValues) /\ list[o] \in Seq(ListValues)
                        /\ nextListVersion[s] \in Nat /\ nextListVersion[o] \in Nat
                        /\ \A r \in Side : r = s \/ r = o
  BY ListFacts DEF ListInv
<1>2. PICK m : m = Head(net[s])
  OBVIOUS
<1>3. /\ net[s] # <<>>
      /\ conflict' = [conflict EXCEPT ![s] = @ \/ ~InTurn(s, m)]
      /\ nextListVersion' = [nextListVersion EXCEPT ![s] = @ + 1]
      /\ list' = IF InRange(s, m) THEN [list EXCEPT ![s] = Edited(@, m)] ELSE list
      /\ net' = [net EXCEPT ![s] = Tail(@)]
  BY <1>2 DEF ReceiveList, Take
<1>4. m \in ListMessages /\ Tail(net[s]) \in Seq(ListMessages)
  BY <1>1, <1>2, <1>3, TailFacts
<1>5. InRange(s, m) => Edited(list[s], m) \in Seq(ListValues)
  BY <1>1, <1>4, EditedType DEF InRange
<1>6. /\ net' \in [Side -> Seq(ListMessages)] /\ list' \in [Side -> Seq(ListValues)]
      /\ nextListVersion' \in [Side -> Nat]
  BY <1>1, <1>3, <1>4, <1>5 DEF ListInv, ListTypeOK
<1>7. conflict' \in [Side -> BOOLEAN]
  BY <1>3, ZenonT(30) DEF ListInv, ListTypeOK
<1>8. ListTypeOK'
  BY <1>6, <1>7 DEF ListTypeOK
<1>9. /\ net'[s] = Tail(net[s]) /\ net'[o] = net[o]
      /\ nextListVersion'[s] = nextListVersion[s] + 1 /\ nextListVersion'[o] = nextListVersion[o]
      /\ list'[o] = list[o] /\ (InRange(s, m) => list'[s] = Edited(list[s], m))
  BY <1>1, <1>3 DEF ListInv, ListTypeOK
<1>10. /\ \A r \in Side : conflict[r] => conflict'[r]
       /\ ~InTurn(s, m) => conflict'[s]
  BY <1>3, ZenonT(30) DEF ListInv, ListTypeOK
<1>11. CASE \E r \in Side : conflict[r]
  BY <1>8, <1>10, <1>11 DEF ListInv
<1>12. CASE Clash
  <2>1. m.version < nextListVersion[s] /\ m.version \in Nat
    BY <1>2, <1>4, <1>12 DEF Clash, ListMessages
  <2>2. ~InTurn(s, m)
    BY <2>1, <1>1 DEF InTurn
  <2> QED BY <2>2, <1>8, <1>10 DEF ListInv
<1>13. CASE Leads(o)
  <2>1. /\ net[o] = <<>> /\ Counts(net[s], nextListVersion[s], nextListVersion[o])
        /\ Path(net[s], list[s], list[o])
    BY <1>1, <1>13 DEF Leads
  <2>2. /\ m.index \in Places(list[s], m.op)
        /\ Path(Tail(net[s]), Edited(list[s], m), list[o])
        /\ Counts(Tail(net[s]), nextListVersion[s] + 1, nextListVersion[o])
    BY <2>1, <1>1, <1>2, <1>3, TakeChange
  <2>3. list'[s] = Edited(list[s], m)
    BY <2>2, <1>9 DEF InRange
  <2>4. Leads(o)'
    BY <2>1, <2>2, <2>3, <1>1, <1>9 DEF Leads
  <2> QED BY <2>4, <1>8, <1>1 DEF ListInv
<1>14. ~Leads(s)
  BY <1>3 DEF Leads
<1> QED BY <1>1, <1>11, <1>12, <1>13, <1>14 DEF ListInv

LEMMA ListStep == ListInv /\ ListNext => ListInv'
BY EditListStep, ClearListStep, ReceiveListStep DEF ListNext

\* The copies of a list are changed in turn: the messages that are on their way turn the
\* copy of one peer into that of the other, or both peers are going to notice that they
\* have changed it at the same time.
THEOREM ListInvariance == Spec => []ListPart
<1>1. Init => ListPart
  <2> SUFFICES ASSUME Init PROVE ListPart
    OBVIOUS
  <2>1. /\ net = [s \in Side |-> <<>>] /\ list = [s \in Side |-> <<>>]
        /\ nextListVersion = [s \in Side |-> 1] /\ conflict = [s \in Side |-> FALSE]
    BY DEF Init, ListInit, NetInit
  <2>2. ListTypeOK
    BY <2>1 DEF ListTypeOK
  <2>3. <<>> \in Seq(ListValues) /\ "master" \in Side
    BY DEF Side
  <2>4. Path(<<>>, <<>>, <<>>) /\ Counts(<<>>, 1, 1)
    BY <2>3, NoChanges
  <2>5. Leads("master")
    BY <2>1, <2>3, <2>4, OtherSide DEF Leads
  <2>6. ListInv
    BY <2>2, <2>3, <2>5 DEF ListInv
  <2>7. ListUnused
    BY <2>1 DEF ListUnused, Side
  <2> QED BY <2>6, <2>7 DEF ListPart
<1>2. ListInv /\ [ListNext]_listVars => ListInv'
  <2>1. ListInv /\ UNCHANGED listVars => ListInv'
    BY DEF listVars, ListInv, ListTypeOK, Leads, Clash
  <2> QED BY <2>1, ListStep
<1>3. ListPart /\ [Next]_vars => ListPart'
  BY <1>2, StepOfParts DEF ListPart, ListUnused, listOnly
<1> QED BY <1>1, <1>3, PTL DEF Spec

-----------------------------------------------------------------------------
\* RdExt

\* Of what one peer has sent: q is on its way, p has passed the check, r waits for the
\* counterpart, n is the last number.
Queued(q, p, r, n) ==
  /\ DataSorted(q) /\ Sorted(r) /\ Before(q, p) /\ Before(q, r)
  /\ \A i \in 1..Len(q) : IsData(q[i]) => q[i].data <= n
  /\ \A i \in 1..Len(p) : p[i] <= n
  /\ \A i \in 1..Len(r) : r[i] <= n
  /\ Len(p) <= 1 /\ (p = <<>> \/ r = <<>>)

\* States come from a peer that has bound its ext, messages of entities only after one
\* of the other peer has come.
Sent(q, b, ob) == \A i \in 1..Len(q) : IF IsData(q[i]) THEN b > 0 ELSE ob > 0

Known(s) ==
  /\ up[s] # "no" => bindings[s] > 0
  /\ connected[s] \/ flushDue[s] \/ passed[s] # <<>> => bindings[Other(s)] > 0
  /\ Sent(net[s], bindings[s], bindings[Other(s)])

ExtInv ==
  /\ ExtTypeOK /\ ~tooEarly
  /\ \A s \in Side : Queued(net[Other(s)], passed[s], sendQ[s], lastData[s]) /\ Known(s)

ExtUnused ==
  /\ ~tooEarly
  /\ passed = [s \in Side |-> <<>>] /\ sendQ = [s \in Side |-> <<>>]

ExtPart == IF busy = "ext" THEN ExtInv ELSE ExtUnused

LEMMA ExtMessageFacts ==
  /\ \A n \in Nat : Data(n) \in ExtMessages /\ IsData(Data(n)) /\ Data(n).data = n
  /\ \A m \in ExtMessages : /\ IsData(m) => m.data \in Nat
                            /\ ~IsData(m) => m \in [state : {"Ready", "ReceivedCounterpart", "Disconnected"}]
  /\ \A x \in {"Ready", "ReceivedCounterpart", "Disconnected"} :
       [state |-> x] \in ExtMessages /\ ~IsData([state |-> x])
BY DEF ExtMessages, IsData, Data

LEMMA QueuedState ==
  ASSUME NEW q \in Seq(ExtMessages), NEW p \in Seq(Nat), NEW r \in Seq(Nat), NEW n \in Nat,
         NEW m \in ExtMessages, ~IsData(m), Queued(q, p, r, n)
  PROVE  Queued(Append(q, m), p, r, n)
<1>1. PICK w \in Seq(ExtMessages), k \in Nat :
        /\ w = Append(q, m) /\ Len(w) = k + 1 /\ k = Len(q) /\ w[k + 1] = m
        /\ \A i \in 1..k : w[i] = q[i]
  <2>1. /\ Append(q, m) \in Seq(ExtMessages) /\ Len(q) \in Nat
        /\ Len(Append(q, m)) = Len(q) + 1 /\ Append(q, m)[Len(q) + 1] = m
        /\ \A i \in 1..Len(q) : Append(q, m)[i] = q[i]
    BY AppendFacts
  <2> QED BY <2>1
<1>2. \A i \in 1..(k + 1) : IsData(w[i]) => i \in 1..k /\ w[i] = q[i]
  BY <1>1
<1> QED BY <1>1, <1>2 DEF Queued, DataSorted, Before

LEMMA QueuedTail ==
  ASSUME NEW q \in Seq(ExtMessages), q # <<>>, NEW p \in Seq(Nat), NEW r \in Seq(Nat),
         NEW n \in Nat, Queued(q, p, r, n)
  PROVE  Queued(Tail(q), p, r, n)
<1>1. PICK w \in Seq(ExtMessages), k \in Nat :
        /\ w = Tail(q) /\ Len(w) = k /\ Len(q) = k + 1
        /\ \A i \in 1..k : w[i] = q[i + 1]
  <2>1. /\ Tail(q) \in Seq(ExtMessages) /\ Len(Tail(q)) = Len(q) - 1 /\ Len(q) - 1 \in Nat
        /\ Len(q) = (Len(q) - 1) + 1
        /\ \A i \in 1..(Len(q) - 1) : Tail(q)[i] = q[i + 1]
    BY TailFacts
  <2> QED BY <2>1
<1>2. \A i \in 1..k : i + 1 \in 1..(k + 1)
  OBVIOUS
<1>3. \A i, j \in 1..k : i < j => i + 1 < j + 1
  OBVIOUS
<1> QED BY <1>1, <1>2, <1>3 DEF Queued, DataSorted, Before

\* What has passed the check goes out.
LEMMA QueuedOut ==
  ASSUME NEW q \in Seq(ExtMessages), NEW p \in Seq(Nat), p # <<>>, NEW r \in Seq(Nat),
         NEW n \in Nat, Queued(q, p, r, n)
  PROVE  Queued(Append(q, Data(Head(p))), <<>>, r, n)
<1>1. PICK x \in Nat : x = Head(p) /\ x = p[1] /\ 1 \in 1..Len(p) /\ r = <<>>
  BY TailFacts DEF Queued
<1>2. PICK m \in ExtMessages : m = Data(Head(p)) /\ IsData(m) /\ m.data = x
  BY <1>1, ExtMessageFacts
<1>3. PICK w \in Seq(ExtMessages), k \in Nat :
        /\ w = Append(q, m) /\ Len(w) = k + 1 /\ k = Len(q) /\ w[k + 1] = m
        /\ \A i \in 1..k : w[i] = q[i]
  <2>1. /\ Append(q, m) \in Seq(ExtMessages) /\ Len(q) \in Nat
        /\ Len(Append(q, m)) = Len(q) + 1 /\ Append(q, m)[Len(q) + 1] = m
        /\ \A i \in 1..Len(q) : Append(q, m)[i] = q[i]
    BY AppendFacts
  <2> QED BY <2>1
<1>4. /\ x <= n
      /\ \A i \in 1..k : IsData(q[i]) => q[i].data < x /\ q[i].data <= n
      /\ \A i, j \in 1..k : i < j /\ IsData(q[i]) /\ IsData(q[j]) => q[i].data < q[j].data
  BY <1>1, <1>3 DEF Queued, Before, DataSorted
<1>5. \A i \in 1..(k + 1) : i \in 1..k \/ i = k + 1
  OBVIOUS
<1>6. \A i, j \in 1..(k + 1) : i < j => i \in 1..k
  OBVIOUS
<1>7. DataSorted(w)
  <2> SUFFICES ASSUME NEW i \in 1..(k + 1), NEW j \in 1..(k + 1), i < j,
                      IsData(w[i]), IsData(w[j])
               PROVE  w[i].data < w[j].data
    BY <1>3 DEF DataSorted
  <2>1. i \in 1..k /\ w[i] = q[i]
    BY <1>3, <1>6
  <2>2. CASE j \in 1..k
    BY <2>1, <2>2, <1>3, <1>4
  <2>3. CASE j = k + 1
    BY <2>1, <2>3, <1>2, <1>3, <1>4
  <2> QED BY <2>2, <2>3, <1>5
<1>8. \A i \in 1..Len(w) : IsData(w[i]) => w[i].data <= n
  BY <1>2, <1>3, <1>4, <1>5
<1>9. Len(<<>>) = 0 /\ 1..0 = {}
  OBVIOUS
<1>10. Sorted(<<>>) /\ Before(w, <<>>)
  BY <1>9 DEF Sorted, Before
<1> QED BY <1>1, <1>2, <1>3, <1>7, <1>8, <1>9, <1>10 DEF Queued

\* The queue is emptied.
LEMMA QueuedFlush ==
  ASSUME NEW q \in Seq(ExtMessages), NEW p \in Seq(Nat), NEW r \in Seq(Nat),
         NEW n \in Nat, Queued(q, p, r, n)
  PROVE  /\ q \o [i \in DOMAIN r |-> Data(r[i])] \in Seq(ExtMessages)
         /\ Queued(q \o [i \in DOMAIN r |-> Data(r[i])], p, <<>>, n)
<1>1. PICK l \in Nat : l = Len(r) /\ DOMAIN r = 1..l /\ \A i \in 1..l : r[i] \in Nat
  OBVIOUS
<1>2. PICK u \in Seq(ExtMessages) :
        /\ u = [i \in DOMAIN r |-> Data(r[i])] /\ Len(u) = l
        /\ \A i \in 1..l : u[i] = Data(r[i])
  <2> DEFINE U == [i \in 1..l |-> Data(r[i])]
  <2>1. \A i \in 1..l : Data(r[i]) \in ExtMessages
    BY <1>1, ExtMessageFacts
  <2>2. U \in [1..l -> ExtMessages]
    BY <2>1
  <2>3. U \in Seq(ExtMessages) /\ Len(U) = l
    BY <2>2
  <2>4. U = [i \in DOMAIN r |-> Data(r[i])] /\ \A i \in 1..l : U[i] = Data(r[i])
    BY <1>1
  <2> QED BY <2>3, <2>4
<1>3. PICK w \in Seq(ExtMessages), k \in Nat :
        /\ w = q \o u /\ Len(w) = k + l /\ k = Len(q)
        /\ \A i \in 1..k : w[i] = q[i]
        /\ \A i \in 1..l : w[k + i] = u[i]
  <2>1. /\ q \o u \in Seq(ExtMessages) /\ Len(q \o u) = Len(q) + Len(u) /\ Len(q) \in Nat
        /\ \A i \in 1..Len(q) : (q \o u)[i] = q[i]
        /\ \A i \in 1..Len(u) : (q \o u)[Len(q) + i] = u[i]
    BY AppendMany
  <2> QED BY <2>1, <1>2
<1>4. \A i \in 1..l : IsData(w[k + i]) /\ w[k + i].data = r[i] /\ r[i] <= n
  BY <1>1, <1>2, <1>3, ExtMessageFacts DEF Queued
<1>5. /\ \A i \in 1..k : IsData(q[i]) => q[i].data <= n
      /\ \A i, j \in 1..k : i < j /\ IsData(q[i]) /\ IsData(q[j]) => q[i].data < q[j].data
      /\ \A i, j \in 1..l : i < j => r[i] < r[j]
      /\ \A i \in 1..k, j \in 1..l : IsData(q[i]) => q[i].data < r[j]
  BY <1>1, <1>3 DEF Queued, DataSorted, Sorted, Before
<1>6. ASSUME NEW i \in 1..(k + l) PROVE i \in 1..k \/ \E j \in 1..l : i = k + j
  <2>1. i \in 1..k \/ (i - k \in 1..l /\ i = k + (i - k))
    OBVIOUS
  <2> QED BY <2>1
<1>7. DataSorted(w)
  <2> SUFFICES ASSUME NEW i \in 1..(k + l), NEW j \in 1..(k + l), i < j,
                      IsData(w[i]), IsData(w[j])
               PROVE  w[i].data < w[j].data
    BY <1>3 DEF DataSorted
  <2>1. CASE i \in 1..k /\ j \in 1..k
    BY <2>1, <1>3, <1>5
  <2>2. ASSUME i \in 1..k, NEW b \in 1..l, j = k + b PROVE w[i].data < w[j].data
    BY <2>2, <1>3, <1>4, <1>5
  <2>3. ASSUME NEW a \in 1..l, i = k + a, NEW b \in 1..l, j = k + b PROVE w[i].data < w[j].data
    <3>1. a < b
      BY <2>3
    <3> QED BY <3>1, <2>3, <1>4, <1>5
  <2>4. ~((\E a \in 1..l : i = k + a) /\ j \in 1..k)
    OBVIOUS
  <2> QED BY <2>1, <2>2, <2>3, <2>4, <1>6
<1>8. ASSUME NEW i \in 1..Len(w), IsData(w[i]) PROVE w[i].data <= n
  <2>1. CASE i \in 1..k
    BY <2>1, <1>3, <1>5, <1>8
  <2>2. CASE \E j \in 1..l : i = k + j
    BY <2>2, <1>4
  <2> QED BY <2>1, <2>2, <1>3, <1>6
<1>9. Before(w, p)
  <2>1. CASE r = <<>>
    <3>1. l = 0
      BY <2>1, <1>1
    <3> QED BY <3>1, <1>3 DEF Queued, Before
  <2>2. CASE p = <<>>
    BY <2>2 DEF Before
  <2> QED BY <2>1, <2>2 DEF Queued
<1>10. Sorted(<<>>) /\ Before(w, <<>>)
  BY DEF Sorted, Before
<1> QED BY <1>2, <1>3, <1>7, <1>8, <1>9, <1>10 DEF Queued

\* A message more, which waits or has passed the check, ...
LEMMA QueuedMore ==
  ASSUME NEW q \in Seq(ExtMessages), NEW r \in Seq(Nat), NEW n \in Nat, Queued(q, <<>>, r, n)
  PROVE  /\ Queued(q, <<>>, Append(r, n + 1), n + 1)
         /\ r = <<>> => Queued(q, <<n + 1>>, r, n + 1)
<1>1. PICK w \in Seq(Nat), k \in Nat :
        /\ w = Append(r, n + 1) /\ Len(w) = k + 1 /\ k = Len(r) /\ w[k + 1] = n + 1
        /\ \A i \in 1..k : w[i] = r[i]
  <2>1. n + 1 \in Nat /\ Len(r) \in Nat
    OBVIOUS
  <2>2. /\ Append(r, n + 1) \in Seq(Nat)
        /\ Len(Append(r, n + 1)) = Len(r) + 1 /\ Append(r, n + 1)[Len(r) + 1] = n + 1
        /\ \A i \in 1..Len(r) : Append(r, n + 1)[i] = r[i]
    BY <2>1, AppendFacts
  <2> QED BY <2>1, <2>2
<1>2. /\ \A i \in 1..Len(q) : IsData(q[i]) => q[i].data <= n /\ q[i].data \in Nat
      /\ \A i \in 1..k : r[i] <= n /\ r[i] \in Nat
      /\ \A i, j \in 1..k : i < j => r[i] < r[j]
      /\ \A i \in 1..Len(q), j \in 1..k : IsData(q[i]) => q[i].data < r[j]
  BY <1>1, ExtMessageFacts DEF Queued, Sorted, Before
<1>3. \A i \in 1..(k + 1) : i \in 1..k \/ i = k + 1
  OBVIOUS
<1>4. \A i, j \in 1..(k + 1) : i < j => i \in 1..k
  OBVIOUS
<1>5. \A i \in 1..(k + 1) : w[i] <= n + 1
  BY <1>1, <1>2, <1>3
<1>6. Sorted(w)
  BY <1>1, <1>2, <1>3, <1>4 DEF Sorted
<1>7. Before(q, w)
  BY <1>1, <1>2, <1>3 DEF Before
<1>8. \A i \in 1..Len(q) : IsData(q[i]) => q[i].data <= n + 1
  BY <1>2
<1>9. Queued(q, <<>>, w, n + 1)
  BY <1>1, <1>5, <1>6, <1>7, <1>8 DEF Queued, Before
<1>10. r = <<>> => Queued(q, <<n + 1>>, r, n + 1)
  <2> SUFFICES ASSUME r = <<>> PROVE Queued(q, <<n + 1>>, r, n + 1)
    OBVIOUS
  <2>1. Len(<<n + 1>>) = 1 /\ \A i \in 1..1 : <<n + 1>>[i] = n + 1
    OBVIOUS
  <2>2. Before(q, <<n + 1>>)
    BY <2>1, <1>2 DEF Before
  <2> QED BY <2>1, <2>2, <1>8 DEF Queued
<1> QED BY <1>1, <1>9, <1>10

\* ... or a new ext, with an empty queue.
LEMMA QueuedAnew ==
  ASSUME NEW q \in Seq(ExtMessages), NEW p \in Seq(Nat), NEW r \in Seq(Nat), NEW n \in Nat,
         Queued(q, p, r, n)
  PROVE  Queued(q, p, <<>>, n)
BY DEF Queued, Sorted, Before

LEMMA ExtFacts ==
  ASSUME ExtInv, NEW s \in Side
  PROVE  /\ Other(s) \in Side /\ Other(s) # s /\ Other(Other(s)) = s
         /\ \A r \in Side : r = s \/ r = Other(s)
         /\ net[s] \in Seq(ExtMessages) /\ net[Other(s)] \in Seq(ExtMessages)
         /\ sendQ[s] \in Seq(Nat) /\ passed[s] \in Seq(Nat)
         /\ sendQ[Other(s)] \in Seq(Nat) /\ passed[Other(s)] \in Seq(Nat)
         /\ lastData[s] \in Nat /\ lastData[Other(s)] \in Nat
         /\ bindings[s] \in Nat /\ bindings[Other(s)] \in Nat
         /\ Queued(net[Other(s)], passed[s], sendQ[s], lastData[s])
         /\ Queued(net[s], passed[Other(s)], sendQ[Other(s)], lastData[Other(s)])
         /\ Known(s) /\ Known(Other(s))
BY OtherSide DEF ExtInv, ExtTypeOK

\* The two sides of the invariant after a step.
LEMMA ExtBoth ==
  ASSUME NEW s \in Side, ExtTypeOK', ~tooEarly',
         Queued(net'[Other(s)], passed'[s], sendQ'[s], lastData'[s]),
         Queued(net'[s], passed'[Other(s)], sendQ'[Other(s)], lastData'[Other(s)]),
         Known(s)', Known(Other(s))'
  PROVE  ExtInv'
BY OtherSide DEF ExtInv

LEMMA SentFacts ==
  ASSUME NEW q \in Seq(ExtMessages), NEW b \in Nat, NEW ob \in Nat, Sent(q, b, ob)
  PROVE  /\ \A m \in ExtMessages : (IF IsData(m) THEN b > 0 ELSE ob > 0) => Sent(Append(q, m), b, ob)
         /\ q # <<>> => /\ Sent(Tail(q), b, ob)
                        /\ IF IsData(Head(q)) THEN b > 0 ELSE ob > 0
         /\ Sent(q, b + 1, ob) /\ Sent(q, b, ob + 1)
<1>1. ASSUME NEW m \in ExtMessages, IF IsData(m) THEN b > 0 ELSE ob > 0
      PROVE  Sent(Append(q, m), b, ob)
  <2> SUFFICES ASSUME NEW i \in 1..Len(Append(q, m))
               PROVE  IF IsData(Append(q, m)[i]) THEN b > 0 ELSE ob > 0
    BY DEF Sent
  <2>1. (i \in 1..Len(q) /\ Append(q, m)[i] = q[i]) \/ Append(q, m)[i] = m
    BY AppendFacts
  <2> QED BY <2>1, <1>1 DEF Sent
<1>2. ASSUME q # <<>>
      PROVE  Sent(Tail(q), b, ob) /\ IF IsData(Head(q)) THEN b > 0 ELSE ob > 0
  <2>1. Head(q) = q[1] /\ 1 \in 1..Len(q)
    BY <1>2, TailFacts
  <2>2. \A i \in 1..Len(Tail(q)) : i + 1 \in 1..Len(q) /\ Tail(q)[i] = q[i + 1]
    BY <1>2, TailFacts
  <2> QED BY <2>1, <2>2 DEF Sent
<1>3. Sent(q, b + 1, ob) /\ Sent(q, b, ob + 1)
  BY DEF Sent
<1> QED BY <1>1, <1>2, <1>3

LEMMA AdviseExtStep ==
  ASSUME ExtInv, NEW s \in Side, AdviseExt(s)
  PROVE  ExtInv'
<1>1. /\ up' = [up EXCEPT ![s] = "advised"] /\ passed[s] = <<>>
      /\ bindings' = [bindings EXCEPT ![s] = @ + 1]
      /\ connected' = [connected EXCEPT ![s] = FALSE]
      /\ sendQ' = [sendQ EXCEPT ![s] = <<>>]
      /\ net' = net /\ flushDue' = flushDue /\ passed' = passed /\ lastData' = lastData
      /\ tooEarly' = tooEarly
  BY DEF AdviseExt
<1>2. PICK o \in Side : o = Other(s) /\ o # s /\ Other(o) = s
  BY OtherSide
<1>3. ExtTypeOK' /\ ~tooEarly'
  <2>1. <<>> \in Seq(Nat)
    OBVIOUS
  <2> QED BY <2>1, <1>1 DEF ExtInv, ExtTypeOK
<1>4. /\ sendQ'[s] = <<>> /\ sendQ'[o] = sendQ[o] /\ connected'[s] = FALSE
      /\ connected'[o] = connected[o] /\ bindings'[s] > 0 /\ bindings'[o] = bindings[o]
      /\ up'[o] = up[o]
  BY <1>1, <1>2 DEF ExtInv, ExtTypeOK
<1>5. Queued(net'[o], passed'[s], sendQ'[s], lastData'[s])
  BY <1>1, <1>2, <1>4, ExtFacts, QueuedAnew
<1>6. Queued(net'[s], passed'[o], sendQ'[o], lastData'[o])
  BY <1>1, <1>2, <1>4, ExtFacts
<1>7. Known(s)' /\ Known(o)'
  <2>1. bindings'[s] = bindings[s] + 1
    BY <1>1 DEF ExtInv, ExtTypeOK
  <2> QED BY <2>1, <1>1, <1>2, <1>4, ExtFacts, SentFacts DEF Known
<1> QED BY <1>2, <1>3, <1>5, <1>6, <1>7, ExtBoth

\* s sends a state, once it is bound.
\* s sends a state, once it is bound.
LEMMA SayStep ==
  ASSUME ExtInv, NEW s \in Side, up[s] # "no",
         NEW x \in {"Ready", "ReceivedCounterpart", "Disconnected"}, Send(s, [state |-> x]),
         up' \in [Side -> {"no", "advised", "yes", "leaving"}],
         up'[Other(s)] = up[Other(s)],
         UNCHANGED <<bindings, connected, sendQ, flushDue, passed, lastData, tooEarly>>
  PROVE  ExtInv'
<1>1. PICK m \in ExtMessages : m = [state |-> x] /\ ~IsData(m)
  BY ExtMessageFacts
<1>2. PICK o \in Side : /\ o = Other(s) /\ o # s /\ Other(o) = s
                        /\ net[s] \in Seq(ExtMessages) /\ net[o] \in Seq(ExtMessages)
                        /\ bindings[s] > 0
  BY ExtFacts DEF Known
<1>3. net' = [net EXCEPT ![o] = Append(@, m)]
  BY <1>1, <1>2 DEF Send
<1>4. net'[s] = net[s] /\ net'[o] = Append(net[o], m) /\ net' \in [Side -> Seq(ExtMessages)]
  BY <1>2, <1>3, AppendFacts DEF ExtInv, ExtTypeOK
<1>5. ExtTypeOK' /\ ~tooEarly'
  BY <1>4 DEF ExtInv, ExtTypeOK
<1>6. Queued(net'[o], passed'[s], sendQ'[s], lastData'[s])
  BY <1>1, <1>2, <1>4, ExtFacts, QueuedState
<1>7. Queued(net'[s], passed'[o], sendQ'[o], lastData'[o])
  BY <1>2, <1>4, ExtFacts
<1>8. Known(s)'
  BY <1>2, <1>4, ExtFacts DEF Known
<1>9. Known(o)'
  BY <1>1, <1>2, <1>4, ExtFacts, SentFacts DEF Known
<1> QED BY <1>2, <1>5, <1>6, <1>7, <1>8, <1>9, ExtBoth

LEMMA SayReadyStep == \A s \in Side : ExtInv /\ SayReady(s) => ExtInv'
<1> SUFFICES ASSUME ExtInv, NEW s \in Side, SayReady(s) PROVE ExtInv'
  OBVIOUS
<1>1. /\ up[s] # "no" /\ up' \in [Side -> {"no", "advised", "yes", "leaving"}]
      /\ up'[Other(s)] = up[Other(s)]
  BY OtherSide DEF SayReady, ExtInv, ExtTypeOK
<1> QED BY <1>1, SayStep DEF SayReady

LEMMA SayDisconnectedStep == \A s \in Side : ExtInv /\ SayDisconnected(s) => ExtInv'
<1> SUFFICES ASSUME ExtInv, NEW s \in Side, SayDisconnected(s) PROVE ExtInv'
  OBVIOUS
<1>1. /\ up[s] # "no" /\ up' \in [Side -> {"no", "advised", "yes", "leaving"}]
      /\ up'[Other(s)] = up[Other(s)]
  BY OtherSide DEF SayDisconnected, ExtInv, ExtTypeOK
<1> QED BY <1>1, SayStep DEF SayDisconnected

LEMMA UnadviseStep == \A s \in Side : ExtInv /\ Unadvise(s) => ExtInv'
<1> SUFFICES ASSUME ExtInv, NEW s \in Side, Unadvise(s) PROVE ExtInv'
  OBVIOUS
<1>1. /\ up' = [up EXCEPT ![s] = "no"]
      /\ UNCHANGED <<net, bindings, connected, sendQ, flushDue, passed, lastData, tooEarly>>
  BY DEF Unadvise
<1>2. ExtTypeOK' /\ ~tooEarly' /\ \A r \in Side : up'[r] # "no" => up[r] # "no"
  BY <1>1 DEF ExtInv, ExtTypeOK
<1> QED BY <1>1, <1>2, OtherSide DEF ExtInv, Known

LEMMA ReceiveStateStep == \A s \in Side : ExtInv /\ ReceiveState(s) => ExtInv'
<1> SUFFICES ASSUME ExtInv, NEW s \in Side, ReceiveState(s) PROVE ExtInv'
  OBVIOUS
<1>1. PICK o \in Side : /\ o = Other(s) /\ o # s /\ Other(o) = s
                        /\ net[s] \in Seq(ExtMessages) /\ net[o] \in Seq(ExtMessages)
                        /\ bindings[s] \in Nat /\ bindings[o] \in Nat
                        /\ sendQ[s] \in Seq(Nat) /\ passed[s] \in Seq(Nat)
                        /\ sendQ[o] \in Seq(Nat) /\ passed[o] \in Seq(Nat)
                        /\ lastData[s] \in Nat /\ lastData[o] \in Nat
  BY ExtFacts
<1>2. /\ up[s] # "no" /\ net[s] # <<>> /\ ~IsData(Head(net[s]))
      /\ up' = up /\ bindings' = bindings /\ sendQ' = sendQ /\ passed' = passed
      /\ lastData' = lastData /\ tooEarly' = tooEarly
  BY DEF ReceiveState
<1>3. bindings[s] > 0 /\ bindings[o] > 0
  BY <1>1, <1>2, ExtFacts, SentFacts DEF Known
<1>4. \E b \in BOOLEAN : SetConnected(s, b)
  BY DEF ReceiveState, Bye
<1>5. /\ connected' \in [Side -> BOOLEAN] /\ flushDue' \in [Side -> BOOLEAN]
      /\ connected'[o] = connected[o] /\ flushDue'[o] = flushDue[o]
  BY <1>1, <1>4, ZenonT(30) DEF SetConnected, ExtInv, ExtTypeOK
<1>6. PICK m \in ExtMessages : m = [state |-> "ReceivedCounterpart"] /\ ~IsData(m)
  BY ExtMessageFacts
<1>7. Take(s) \/ TakeAndReply(s, m)
  BY <1>6 DEF ReceiveState, Greeted
<1>8. Tail(net[s]) \in Seq(ExtMessages) /\ Append(net[o], m) \in Seq(ExtMessages)
  BY <1>1, <1>2, TailFacts, AppendFacts
<1>9. /\ net' \in [Side -> Seq(ExtMessages)] /\ net'[s] = Tail(net[s])
      /\ net'[o] = net[o] \/ net'[o] = Append(net[o], m)
  <2>1. CASE Take(s)
    BY <2>1, <1>1, <1>8 DEF Take, ExtInv, ExtTypeOK
  <2>2. CASE TakeAndReply(s, m)
    BY <2>2, <1>1, <1>8 DEF TakeAndReply, ExtInv, ExtTypeOK
  <2> QED BY <2>1, <2>2, <1>7
<1>10. ExtTypeOK' /\ ~tooEarly'
  BY <1>2, <1>5, <1>9 DEF ExtInv, ExtTypeOK
<1>11. Queued(net'[s], passed'[o], sendQ'[o], lastData'[o])
  BY <1>1, <1>2, <1>9, ExtFacts, QueuedTail
<1>12. Queued(net'[o], passed'[s], sendQ'[s], lastData'[s])
  <2>1. Queued(net[o], passed[s], sendQ[s], lastData[s])
    BY <1>1, ExtFacts
  <2>2. Queued(Append(net[o], m), passed[s], sendQ[s], lastData[s])
    BY <2>1, <1>1, <1>6, QueuedState
  <2> QED BY <2>1, <2>2, <1>2, <1>9
<1>13. Sent(net'[s], bindings[s], bindings[o])
  BY <1>1, <1>2, <1>9, ExtFacts, SentFacts DEF Known
<1>14. Sent(net'[o], bindings[o], bindings[s])
  <2>1. Sent(net[o], bindings[o], bindings[s])
    BY <1>1, ExtFacts DEF Known
  <2>2. Sent(Append(net[o], m), bindings[o], bindings[s])
    BY <2>1, <1>1, <1>3, <1>6, SentFacts
  <2> QED BY <2>1, <2>2, <1>9
<1>15. Known(s)'
  BY <1>1, <1>2, <1>3, <1>13 DEF Known
<1>16. Known(o)'
  BY <1>1, <1>2, <1>3, <1>14 DEF Known
<1> QED BY <1>1, <1>10, <1>11, <1>12, <1>15, <1>16, ExtBoth

LEMMA ReceiveOtherStep == \A s \in Side : ExtInv /\ ReceiveOther(s) => ExtInv'
<1> SUFFICES ASSUME ExtInv, NEW s \in Side, ReceiveOther(s) PROVE ExtInv'
  OBVIOUS
<1>1. PICK o \in Side : /\ o = Other(s) /\ o # s /\ Other(o) = s
                        /\ net[s] \in Seq(ExtMessages) /\ net[o] \in Seq(ExtMessages)
                        /\ bindings[s] \in Nat /\ bindings[o] \in Nat
                        /\ sendQ[o] \in Seq(Nat) /\ passed[o] \in Seq(Nat)
                        /\ lastData[o] \in Nat
  BY ExtFacts
<1>2. /\ net[s] # <<>> /\ net' = [net EXCEPT ![s] = Tail(@)]
      /\ up' = up /\ bindings' = bindings /\ connected' = connected /\ sendQ' = sendQ
      /\ flushDue' = flushDue /\ passed' = passed /\ lastData' = lastData
      /\ tooEarly' = (tooEarly \/ (IsData(Head(net[s])) /\ bindings[s] = 0))
  BY DEF ReceiveOther, Take
<1>3. Tail(net[s]) \in Seq(ExtMessages) /\ Sent(Tail(net[s]), bindings[s], bindings[o])
      /\ (IsData(Head(net[s])) => bindings[s] > 0)
  BY <1>1, <1>2, ExtFacts, TailFacts, SentFacts DEF Known
<1>4. net' \in [Side -> Seq(ExtMessages)] /\ net'[s] = Tail(net[s]) /\ net'[o] = net[o]
  BY <1>1, <1>2, <1>3 DEF ExtInv, ExtTypeOK
<1>5. ~tooEarly'
  <2>1. ~(IsData(Head(net[s])) /\ bindings[s] = 0)
    BY <1>1, <1>3
  <2> QED BY <2>1, <1>2 DEF ExtInv
<1>6. ExtTypeOK'
  BY <1>2, <1>4, <1>5 DEF ExtInv, ExtTypeOK
<1>7. Queued(net'[s], passed'[o], sendQ'[o], lastData'[o])
  BY <1>1, <1>2, <1>4, ExtFacts, QueuedTail
<1>8. Queued(net'[o], passed'[s], sendQ'[s], lastData'[s])
  BY <1>1, <1>2, <1>4, ExtFacts
<1>9. Known(s)' /\ Known(o)'
  BY <1>1, <1>2, <1>3, <1>4, ExtFacts DEF Known
<1> QED BY <1>1, <1>5, <1>6, <1>7, <1>8, <1>9, ExtBoth

LEMMA FlushExtStep == \A s \in Side : ExtInv /\ FlushExt(s) => ExtInv'
<1> SUFFICES ASSUME ExtInv, NEW s \in Side, FlushExt(s) PROVE ExtInv'
  OBVIOUS
<1>1. PICK o \in Side : /\ o = Other(s) /\ o # s /\ Other(o) = s
                        /\ net[s] \in Seq(ExtMessages) /\ net[o] \in Seq(ExtMessages)
                        /\ bindings[s] \in Nat /\ bindings[o] \in Nat
                        /\ sendQ[s] \in Seq(Nat) /\ passed[s] \in Seq(Nat)
                        /\ lastData[s] \in Nat
  BY ExtFacts
<1>2. PICK u : u = [i \in DOMAIN sendQ[s] |-> Data(sendQ[s][i])]
  OBVIOUS
<1>3. /\ flushDue[s] /\ flushDue' = [flushDue EXCEPT ![s] = FALSE]
      /\ net' = [net EXCEPT ![o] = @ \o u] /\ sendQ' = [sendQ EXCEPT ![s] = <<>>]
      /\ up' = up /\ bindings' = bindings /\ connected' = connected
      /\ passed' = passed /\ lastData' = lastData /\ tooEarly' = tooEarly
  BY <1>1, <1>2 DEF FlushExt
<1>4. net[o] \o u \in Seq(ExtMessages) /\ Queued(net[o] \o u, passed[s], <<>>, lastData[s])
  <2>1. Queued(net[o], passed[s], sendQ[s], lastData[s])
    BY <1>1, ExtFacts
  <2> QED BY <2>1, <1>1, <1>2, QueuedFlush
<1>5. /\ net' \in [Side -> Seq(ExtMessages)] /\ net'[s] = net[s] /\ net'[o] = net[o] \o u
      /\ sendQ' \in [Side -> Seq(Nat)] /\ sendQ'[s] = <<>> /\ sendQ'[o] = sendQ[o]
      /\ \A r \in Side : flushDue'[r] => flushDue[r]
  <2>1. <<>> \in Seq(Nat)
    OBVIOUS
  <2> QED BY <2>1, <1>1, <1>3, <1>4 DEF ExtInv, ExtTypeOK
<1>6. flushDue' \in [Side -> BOOLEAN]
  BY <1>3 DEF ExtInv, ExtTypeOK
<1>7. ExtTypeOK' /\ ~tooEarly'
  BY <1>3, <1>5, <1>6 DEF ExtInv, ExtTypeOK
<1>8. bindings[o] > 0
  BY <1>1, <1>3, ExtFacts DEF Known
<1>9. Sent(net[o] \o u, bindings[o], bindings[s])
  BY <1>1, ExtMessageFacts, <1>2, AppendMany, ExtFacts, <1>8 DEF Sent, Known
<1>10. Queued(net'[o], passed'[s], sendQ'[s], lastData'[s])
  BY <1>3, <1>4, <1>5
<1>11. Queued(net'[s], passed'[o], sendQ'[o], lastData'[o])
  BY <1>1, <1>3, <1>5, ExtFacts
<1>12. Known(s)'
  BY <1>1, <1>3, <1>5, <1>8, ExtFacts DEF Known
<1>13. Known(o)'
  BY <1>1, <1>3, <1>5, <1>9, ExtFacts DEF Known
<1> QED BY <1>1, <1>7, <1>10, <1>11, <1>12, <1>13, ExtBoth

LEMMA SendDataStep == \A s \in Side : ExtInv /\ SendData(s) => ExtInv'
<1> SUFFICES ASSUME ExtInv, NEW s \in Side, SendData(s) PROVE ExtInv'
  OBVIOUS
<1>1. PICK o \in Side, n \in Nat :
        /\ o = Other(s) /\ o # s /\ Other(o) = s /\ n = lastData[s]
        /\ net[s] \in Seq(ExtMessages) /\ net[o] \in Seq(ExtMessages)
        /\ sendQ[s] \in Seq(Nat) /\ Queued(net[o], <<>>, sendQ[s], n) /\ passed[s] = <<>>
  BY ExtFacts DEF SendData
<1>2. /\ lastData' = [lastData EXCEPT ![s] = @ + 1]
      /\ net' = net /\ up' = up /\ bindings' = bindings /\ connected' = connected
      /\ flushDue' = flushDue /\ tooEarly' = tooEarly
      /\ IF MustWait(s)
           THEN sendQ' = [sendQ EXCEPT ![s] = Append(@, lastData'[s])] /\ passed' = passed
           ELSE passed' = [passed EXCEPT ![s] = <<lastData'[s]>>] /\ sendQ' = sendQ
  BY DEF SendData
<1>3. lastData'[s] = n + 1 /\ lastData'[o] = lastData[o] /\ lastData' \in [Side -> Nat]
  BY <1>1, <1>2 DEF ExtInv, ExtTypeOK
<1>4. Append(sendQ[s], n + 1) \in Seq(Nat) /\ <<n + 1>> \in Seq(Nat) /\ <<n + 1>> # <<>>
  BY <1>1, AppendFacts
<1>5. CASE MustWait(s)
  <2>1. /\ passed' = passed /\ sendQ' \in [Side -> Seq(Nat)]
        /\ sendQ'[s] = Append(sendQ[s], n + 1) /\ sendQ'[o] = sendQ[o]
    BY <1>1, <1>2, <1>3, <1>4, <1>5 DEF ExtInv, ExtTypeOK
  <2>2. ExtTypeOK' /\ ~tooEarly'
    BY <2>1, <1>2, <1>3 DEF ExtInv, ExtTypeOK
  <2>3. Queued(net'[o], passed'[s], sendQ'[s], lastData'[s])
    <3>1. Queued(net[o], <<>>, Append(sendQ[s], n + 1), n + 1)
      BY <1>1, QueuedMore
    <3> QED BY <3>1, <2>1, <1>1, <1>2, <1>3
  <2>4. Queued(net'[s], passed'[o], sendQ'[o], lastData'[o])
    BY <2>1, <1>1, <1>2, <1>3, ExtFacts
  <2>5. Known(s)' /\ Known(o)'
    BY <2>1, <1>1, <1>2, ExtFacts DEF Known
  <2> QED BY <2>2, <2>3, <2>4, <2>5, <1>1, ExtBoth
<1>6. CASE ~MustWait(s)
  <2>1. /\ sendQ' = sendQ /\ passed' \in [Side -> Seq(Nat)]
        /\ passed'[s] = <<n + 1>> /\ passed'[o] = passed[o]
        /\ sendQ[s] = <<>> /\ connected[s]
    BY <1>1, <1>2, <1>3, <1>4, <1>6 DEF ExtInv, ExtTypeOK, MustWait
  <2>2. ExtTypeOK' /\ ~tooEarly'
    BY <2>1, <1>2, <1>3 DEF ExtInv, ExtTypeOK
  <2>3. Queued(net'[o], passed'[s], sendQ'[s], lastData'[s])
    <3>1. Queued(net[o], <<n + 1>>, sendQ[s], n + 1)
      BY <2>1, <1>1, QueuedMore
    <3> QED BY <3>1, <2>1, <1>1, <1>2, <1>3
  <2>4. Queued(net'[s], passed'[o], sendQ'[o], lastData'[o])
    BY <2>1, <1>1, <1>2, <1>3, ExtFacts
  <2>5. Known(s)' /\ Known(o)'
    BY <2>1, <1>1, <1>2, ExtFacts DEF Known
  <2> QED BY <2>2, <2>3, <2>4, <2>5, <1>1, ExtBoth
<1> QED BY <1>5, <1>6

LEMMA SendPassedStep == \A s \in Side : ExtInv /\ SendPassed(s) => ExtInv'
<1> SUFFICES ASSUME ExtInv, NEW s \in Side, SendPassed(s) PROVE ExtInv'
  OBVIOUS
<1>1. PICK o \in Side :
        /\ o = Other(s) /\ o # s /\ Other(o) = s
        /\ net[s] \in Seq(ExtMessages) /\ net[o] \in Seq(ExtMessages)
        /\ bindings[s] \in Nat /\ bindings[o] \in Nat
        /\ sendQ[s] \in Seq(Nat) /\ passed[s] \in Seq(Nat) /\ lastData[s] \in Nat
  BY ExtFacts
<1>2. passed[s] # <<>> /\ Head(passed[s]) \in Nat
  BY <1>1, TailFacts DEF SendPassed
<1>3. PICK m \in ExtMessages : m = Data(Head(passed[s])) /\ IsData(m)
  BY <1>2, ExtMessageFacts
<1>4. /\ net' = [net EXCEPT ![o] = Append(@, m)] /\ passed' = [passed EXCEPT ![s] = <<>>]
      /\ up' = up /\ bindings' = bindings /\ connected' = connected /\ sendQ' = sendQ
      /\ flushDue' = flushDue /\ lastData' = lastData /\ tooEarly' = tooEarly
  BY <1>1, <1>3 DEF SendPassed, Send
<1>5. /\ net'[s] = net[s] /\ net'[o] = Append(net[o], m) /\ net' \in [Side -> Seq(ExtMessages)]
      /\ passed'[s] = <<>> /\ passed'[o] = passed[o] /\ passed' \in [Side -> Seq(Nat)]
  <2>1. <<>> \in Seq(Nat) /\ Append(net[o], m) \in Seq(ExtMessages)
    BY <1>1, AppendFacts
  <2> QED BY <2>1, <1>1, <1>4 DEF ExtInv, ExtTypeOK
<1>6. ExtTypeOK' /\ ~tooEarly'
  BY <1>4, <1>5 DEF ExtInv, ExtTypeOK
<1>7. Queued(net'[o], passed'[s], sendQ'[s], lastData'[s])
  BY <1>1, <1>2, <1>3, <1>4, <1>5, ExtFacts, QueuedOut
<1>8. Queued(net'[s], passed'[o], sendQ'[o], lastData'[o])
  BY <1>1, <1>4, <1>5, ExtFacts
<1>9. Known(s)'
  BY <1>1, <1>4, <1>5, ExtFacts DEF Known
<1>10. Known(o)'
  <2>1. bindings[o] > 0
    BY <1>1, <1>2, ExtFacts DEF Known
  <2> QED BY <2>1, <1>1, <1>3, <1>4, <1>5, ExtFacts, SentFacts DEF Known
<1> QED BY <1>1, <1>6, <1>7, <1>8, <1>9, <1>10, ExtBoth

LEMMA ExtStep == ExtInv /\ ExtNext => ExtInv'
BY AdviseExtStep, SayReadyStep, SayDisconnectedStep, UnadviseStep, ReceiveStateStep,
   ReceiveOtherStep, FlushExtStep, SendDataStep, SendPassedStep DEF ExtNext, ExtHandles

\* What one peer has sent and what it still keeps carry ever higher numbers, at most one
\* message has passed the check and then nothing waits, and a state or a connected ext is
\* a sign that the other peer has been bound.
THEOREM ExtInvariance == Spec => []ExtPart
<1>1. Init => ExtPart
  <2> SUFFICES ASSUME Init PROVE ExtPart
    OBVIOUS
  <2>1. ExtInit /\ <<>> \in Seq(Nat) /\ <<>> \in Seq(ExtMessages) /\ Len(<<>>) = 0 /\ 1..0 = {}
    BY DEF Init
  <2>2. ExtTypeOK /\ ~tooEarly
    BY <2>1 DEF ExtInit, NetInit, ExtTypeOK
  <2>3. \A n \in Nat : Queued(<<>>, <<>>, <<>>, n)
    BY <2>1 DEF Queued, DataSorted, Sorted, Before
  <2>4. \A s \in Side : Known(s)
    BY <2>1, OtherSide DEF ExtInit, NetInit, Known, Sent
  <2> QED BY <2>1, <2>2, <2>3, <2>4, OtherSide
          DEF ExtInit, NetInit, ExtPart, ExtInv, ExtUnused
<1>2. ExtInv /\ [ExtNext]_extVars => ExtInv'
  <2>1. ExtInv /\ UNCHANGED extVars => ExtInv'
    BY DEF extVars, extOnly, ExtInv, ExtTypeOK, Known
  <2> QED BY <2>1, ExtStep
<1>3. ExtPart /\ [Next]_vars => ExtPart'
  BY <1>2, StepOfParts DEF ExtPart, ExtUnused, extOnly
<1> QED BY <1>1, <1>3, PTL DEF Spec

-----------------------------------------------------------------------------
\* Heartbeat

\* Of the pings q on their way to a peer: none is about a later start of it than st, and
\* of its pings those about st have acknowledged, some un more have been sent since.
Heard(q, st, un, cu) ==
  \A i \in 1..Len(q) : q[i].of <= st /\ (q[i].of = st => q[i].heard + un <= cu)

Timed(q, cu) == \A i \in 1..Len(q) : q[i].time <= cu

\* What s knows of its counterpart's hearing is never more than that has heard.
Heeded(s) ==
  /\ seen[Other(s)] <= start[s] /\ meant[s] <= start[s] /\ unheard[s] <= current[s]
  /\ Timed(net[Other(s)], current[s])
  /\ seen[Other(s)] = start[s] => counterpart[Other(s)] + unheard[s] <= current[s]
  /\ Heard(net[s], start[s], unheard[s], current[s])
  /\ meant[s] = start[s] => acknowledged[s] + unheard[s] <= current[s]
  /\ heartbeatAlive[s] /\ ~late[s] => current[s] <= acknowledged[s] + MaximumHeartbeatDelay + 1

BeatInv == BeatTypeOK /\ \A s \in Side : Heeded(s)

BeatUnused == heartbeatAlive = [s \in Side |-> FALSE]

BeatPart == IF busy = "heartbeat" THEN BeatInv ELSE BeatUnused

LEMMA HeardFacts ==
  ASSUME NEW q \in Seq(Pings), NEW st \in Nat, NEW un \in Nat, NEW cu \in Nat,
         Heard(q, st, un, cu)
  PROVE  /\ \A m \in Pings : m.of <= st /\ (m.of = st => m.heard + un <= cu)
                               => Heard(Append(q, m), st, un, cu)
         /\ q # <<>> => /\ Heard(Tail(q), st, un, cu)
                        /\ Head(q).of <= st /\ (Head(q).of = st => Head(q).heard + un <= cu)
         /\ Heard(q, st, un + 1, cu + 1) /\ Heard(q, st, 0, cu)
<1>1. ASSUME NEW m \in Pings, m.of <= st, m.of = st => m.heard + un <= cu
      PROVE  Heard(Append(q, m), st, un, cu)
  <2> SUFFICES ASSUME NEW i \in 1..Len(Append(q, m))
               PROVE  /\ Append(q, m)[i].of <= st
                      /\ Append(q, m)[i].of = st => Append(q, m)[i].heard + un <= cu
    BY DEF Heard
  <2>1. (i \in 1..Len(q) /\ Append(q, m)[i] = q[i]) \/ Append(q, m)[i] = m
    BY AppendFacts
  <2> QED BY <2>1, <1>1 DEF Heard
<1>2. ASSUME q # <<>>
      PROVE  /\ Heard(Tail(q), st, un, cu)
             /\ Head(q).of <= st /\ (Head(q).of = st => Head(q).heard + un <= cu)
  <2>1. Head(q) = q[1] /\ 1 \in 1..Len(q)
    BY <1>2, TailFacts
  <2>2. \A i \in 1..Len(Tail(q)) : i + 1 \in 1..Len(q) /\ Tail(q)[i] = q[i + 1]
    BY <1>2, TailFacts
  <2> QED BY <2>1, <2>2 DEF Heard
<1>3. \A i \in 1..Len(q) : q[i].heard \in Nat
  <2>1. \A i \in 1..Len(q) : q[i] \in Pings
    OBVIOUS
  <2> QED BY <2>1, HeartbeatAssumption DEF Pings
<1>4. Heard(q, st, un + 1, cu + 1)
  BY <1>3 DEF Heard
<1>5. Heard(q, st, 0, cu)
  BY <1>3 DEF Heard
<1> QED BY <1>1, <1>2, <1>4, <1>5

LEMMA TimedFacts ==
  ASSUME NEW q \in Seq(Pings), NEW cu \in Nat, Timed(q, cu)
  PROVE  /\ \A m \in Pings : m.time <= cu => Timed(Append(q, m), cu)
         /\ q # <<>> => Timed(Tail(q), cu) /\ Head(q).time <= cu
         /\ Timed(q, cu + 1)
<1>1. ASSUME NEW m \in Pings, m.time <= cu PROVE Timed(Append(q, m), cu)
  <2> SUFFICES ASSUME NEW i \in 1..Len(Append(q, m)) PROVE Append(q, m)[i].time <= cu
    BY DEF Timed
  <2>1. (i \in 1..Len(q) /\ Append(q, m)[i] = q[i]) \/ Append(q, m)[i] = m
    BY AppendFacts
  <2> QED BY <2>1, <1>1 DEF Timed
<1>2. ASSUME q # <<>> PROVE Timed(Tail(q), cu) /\ Head(q).time <= cu
  <2>1. Head(q) = q[1] /\ 1 \in 1..Len(q)
    BY <1>2, TailFacts
  <2>2. \A i \in 1..Len(Tail(q)) : i + 1 \in 1..Len(q) /\ Tail(q)[i] = q[i + 1]
    BY <1>2, TailFacts
  <2> QED BY <2>1, <2>2 DEF Timed
<1>3. \A i \in 1..Len(q) : q[i].time \in Nat
  <2>1. \A i \in 1..Len(q) : q[i] \in Pings
    OBVIOUS
  <2> QED BY <2>1, HeartbeatAssumption DEF Pings
<1>4. Timed(q, cu + 1)
  BY <1>3 DEF Timed
<1> QED BY <1>1, <1>2, <1>4

LEMMA BeatFacts ==
  ASSUME BeatInv, NEW s \in Side
  PROVE  /\ Other(s) \in Side /\ Other(s) # s /\ Other(Other(s)) = s
         /\ net[s] \in Seq(Pings)
         /\ current[s] \in Nat /\ unheard[s] \in Nat /\ current[s] <= MaxTimestamp
         /\ unheard[s] <= MaxTimestamp
         /\ counterpart[s] \in 0..MaxTimestamp /\ acknowledged[s] \in 0..MaxTimestamp
         /\ counterpart[s] \in Nat /\ acknowledged[s] \in Nat
         /\ start[s] \in Nat /\ seen[s] \in Nat /\ meant[s] \in Nat
         /\ MaxTimestamp \in Nat /\ MaximumHeartbeatDelay \in Nat
         /\ Heeded(s)
BY OtherSide, HeartbeatAssumption DEF BeatInv, BeatTypeOK

LEMMA BeatBoth ==
  ASSUME NEW s \in Side, BeatTypeOK', Heeded(s)', Heeded(Other(s))'
  PROVE  BeatInv'
BY OtherSide DEF BeatInv

LEMMA PingSendsStep == \A s \in Side : BeatInv /\ PingSends(s) => BeatInv'
<1> SUFFICES ASSUME BeatInv, NEW s \in Side, PingSends(s) PROVE BeatInv'
  OBVIOUS
<1>1. PICK o \in Side : o = Other(s) /\ o # s /\ Other(o) = s /\ \A r \in Side : r = s \/ r = o
  BY OtherSide
<1>2. /\ heartbeatAlive' = [heartbeatAlive EXCEPT ![s] = @ /\ ConnectionEstablished(s)]
      /\ late' = [late EXCEPT ![s] = FALSE]
      /\ cut' = cut /\ counterpart' = counterpart /\ acknowledged' = acknowledged
      /\ receiving' = receiving /\ start' = start /\ seen' = seen /\ meant' = meant
  BY DEF PingSends
<1>3. PICK m \in Pings : m = Ping(s)
  <2>1. /\ current[s] \in 0..MaxTimestamp /\ counterpart[s] \in 0..MaxTimestamp
        /\ seen[s] \in Nat
    BY DEF BeatInv, BeatTypeOK
  <2>2. Ping(s) \in Pings
    BY <2>1 DEF Pings, Ping
  <2> QED BY <2>2
<1>4. m.time = current[s] /\ m.heard = counterpart[s] /\ m.of = seen[s]
  BY <1>3 DEF Ping
<1>5. /\ heartbeatAlive'[s] => ConnectionEstablished(s)
      /\ heartbeatAlive'[o] = heartbeatAlive[o] /\ late'[o] = late[o]
      /\ heartbeatAlive' \in [Side -> BOOLEAN] /\ late' \in [Side -> BOOLEAN]
  BY <1>1, <1>2, ZenonT(30) DEF BeatInv, BeatTypeOK
<1>6. CASE /\ current[s] < MaxTimestamp
           /\ IF cut[s] THEN UNCHANGED net ELSE Send(s, m)
           /\ current' = [current EXCEPT ![s] = @ + 1]
           /\ unheard' = [unheard EXCEPT ![s] = @ + 1]
  <2>1. /\ current'[s] = current[s] + 1 /\ current'[o] = current[o]
        /\ unheard'[s] = unheard[s] + 1 /\ unheard'[o] = unheard[o]
        /\ unheard[s] <= current[s]
    BY <1>1, <1>6, BeatFacts DEF BeatInv, BeatTypeOK, Heeded
  <2>2. current' \in [Side -> 0..MaxTimestamp] /\ unheard' \in [Side -> 0..MaxTimestamp]
    <3>1. current[s] + 1 \in 0..MaxTimestamp /\ unheard[s] + 1 \in 0..MaxTimestamp
      BY <2>1, <1>6, BeatFacts
    <3> QED BY <3>1, <1>6 DEF BeatInv, BeatTypeOK
  <2>3. /\ net' \in [Side -> Seq(Pings)] /\ net'[s] = net[s]
        /\ net'[o] = net[o] \/ net'[o] = Append(net[o], m)
    <3>1. Append(net[o], m) \in Seq(Pings) /\ net \in [Side -> Seq(Pings)]
      BY <1>1, AppendFacts DEF BeatInv, BeatTypeOK
    <3> QED BY <3>1, <1>1, <1>6 DEF Send
  <2>4. BeatTypeOK'
    BY <2>2, <2>3, <1>2, <1>5 DEF BeatInv, BeatTypeOK
  <2>5. Timed(net'[o], current'[s])
    <3>1. Timed(net[o], current[s]) /\ net[o] \in Seq(Pings) /\ current[s] \in Nat
      BY <1>1, BeatFacts DEF Heeded
    <3>2. Timed(Append(net[o], m), current[s]) /\ Append(net[o], m) \in Seq(Pings)
      BY <3>1, <1>3, <1>4, TimedFacts, AppendFacts
    <3> QED BY <3>1, <3>2, <2>1, <2>3, TimedFacts
  <2>6. Heard(net'[s], start[s], unheard'[s], current'[s])
    <3>1. Heard(net[s], start[s], unheard[s], current[s])
      BY BeatFacts DEF Heeded
    <3>2. Heard(net[s], start[s], unheard[s] + 1, current[s] + 1)
      BY <3>1, BeatFacts, HeardFacts
    <3> QED BY <3>2, <2>1, <2>3
  <2>7. Heard(net'[o], start[o], unheard[o], current[o])
    <3>1. Heard(net[o], start[o], unheard[o], current[o]) /\ seen[s] <= start[o]
          /\ (seen[s] = start[o] => counterpart[s] + unheard[o] <= current[o])
      BY <1>1, BeatFacts DEF Heeded
    <3>2. Heard(Append(net[o], m), start[o], unheard[o], current[o])
      BY <3>1, <1>1, <1>4, BeatFacts, HeardFacts
    <3> QED BY <3>1, <3>2, <2>3
  <2>8. heartbeatAlive'[s] => current'[s] <= acknowledged[s] + MaximumHeartbeatDelay + 1
    BY <1>5, <2>1, BeatFacts DEF ConnectionEstablished
  <2>9. Heeded(s)'
    <3>1. /\ seen[o] <= start[s] /\ meant[s] <= start[s] /\ unheard[s] <= current[s]
          /\ seen[o] = start[s] => counterpart[o] + unheard[s] <= current[s]
          /\ meant[s] = start[s] => acknowledged[s] + unheard[s] <= current[s]
      BY <1>1, BeatFacts DEF Heeded
    <3>2. /\ unheard'[s] <= current'[s]
          /\ seen[o] = start[s] => counterpart[o] + unheard'[s] <= current'[s]
          /\ meant[s] = start[s] => acknowledged[s] + unheard'[s] <= current'[s]
      BY <3>1, <2>1, <1>1, BeatFacts
    <3> QED BY <3>1, <3>2, <2>5, <2>6, <2>8, <1>1, <1>2 DEF Heeded
  <2>10. Heeded(o)'
    <3>1. Heeded(o)
      BY <1>1, BeatFacts
    <3> QED BY <3>1, <2>1, <2>3, <2>7, <1>1, <1>2, <1>5 DEF Heeded
  <2> QED BY <2>4, <2>9, <2>10, <1>1, BeatBoth
<1>7. CASE UNCHANGED <<net, current, unheard>>
  <2>1. BeatTypeOK'
    BY <1>2, <1>5, <1>7 DEF BeatInv, BeatTypeOK
  <2>2. heartbeatAlive'[s] => current[s] <= acknowledged[s] + MaximumHeartbeatDelay + 1
    BY <1>5, BeatFacts DEF ConnectionEstablished
  <2>3. Heeded(s)'
    BY <2>2, <1>2, <1>7, BeatFacts DEF Heeded
  <2>4. Heeded(o)'
    <3>1. Heeded(o)
      BY <1>1, BeatFacts
    <3> QED BY <3>1, <1>1, <1>2, <1>5, <1>7 DEF Heeded
  <2> QED BY <2>1, <2>3, <2>4, <1>1, BeatBoth
<1>8. \/ /\ current[s] < MaxTimestamp
         /\ IF cut[s] THEN UNCHANGED net ELSE Send(s, m)
         /\ current' = [current EXCEPT ![s] = @ + 1]
         /\ unheard' = [unheard EXCEPT ![s] = @ + 1]
      \/ UNCHANGED <<net, current, unheard>>
  BY <1>3 DEF PingSends
<1> QED BY <1>6, <1>7, <1>8

LEMMA ReceivePingStep == \A s \in Side : BeatInv /\ ReceivePing(s) => BeatInv'
<1> SUFFICES ASSUME BeatInv, NEW s \in Side, ReceivePing(s) PROVE BeatInv'
  OBVIOUS
<1>1. PICK o \in Side : o = Other(s) /\ o # s /\ Other(o) = s /\ \A r \in Side : r = s \/ r = o
  BY OtherSide
<1>2. PICK m \in Pings : m = Head(net[s]) /\ net[s] # <<>>
  BY BeatFacts, TailFacts DEF ReceivePing
<1>3. /\ counterpart' = [counterpart EXCEPT ![s] = m.time]
      /\ acknowledged' = [acknowledged EXCEPT ![s] = m.heard]
      /\ seen' = [seen EXCEPT ![s] = start[o]]
      /\ meant' = [meant EXCEPT ![s] = m.of]
      /\ cut' = cut /\ current' = current /\ heartbeatAlive' = heartbeatAlive /\ start' = start
      /\ late' = [late EXCEPT ![s] = ~ConnectionEstablished(s)']
      /\ receiving' = [receiving EXCEPT ![s] = IF ConnectionEstablished(s)' THEN "tells" ELSE "reads"]
      /\ net' = [net EXCEPT ![s] = Tail(@)]
      /\ unheard' = [unheard EXCEPT ![o] = 0]
  BY <1>1, <1>2 DEF ReceivePing, Take
<1>4. m.time \in 0..MaxTimestamp /\ m.heard \in 0..MaxTimestamp /\ m.of \in Nat
      /\ m.time \in Nat /\ m.heard \in Nat
  BY HeartbeatAssumption DEF Pings
<1>5. Tail(net[s]) \in Seq(Pings)
  BY <1>2, BeatFacts, TailFacts
<1>6. /\ net'[s] = Tail(net[s]) /\ net'[o] = net[o] /\ net' \in [Side -> Seq(Pings)]
      /\ counterpart'[s] = m.time /\ counterpart'[o] = counterpart[o]
      /\ counterpart' \in [Side -> 0..MaxTimestamp]
  BY <1>1, <1>3, <1>4, <1>5 DEF BeatInv, BeatTypeOK
<1>7. /\ acknowledged'[s] = m.heard /\ acknowledged'[o] = acknowledged[o]
      /\ acknowledged' \in [Side -> 0..MaxTimestamp]
      /\ seen'[s] = start[o] /\ seen'[o] = seen[o] /\ seen' \in [Side -> Nat]
      /\ meant'[s] = m.of /\ meant'[o] = meant[o] /\ meant' \in [Side -> Nat]
  BY <1>1, <1>3, <1>4 DEF BeatInv, BeatTypeOK
<1>8. /\ unheard'[s] = unheard[s] /\ unheard'[o] = 0 /\ unheard' \in [Side -> 0..MaxTimestamp]
      /\ receiving' \in [Side -> {"reads", "tells"}]
  <2>1. 0 \in 0..MaxTimestamp
    BY HeartbeatAssumption
  <2> QED BY <2>1, <1>1, <1>3 DEF BeatInv, BeatTypeOK
<1>9. /\ late' \in [Side -> BOOLEAN] /\ late'[o] = late[o]
      /\ ~late'[s] => ConnectionEstablished(s)'
  <2>1. late \in [Side -> BOOLEAN] /\ s \in Side /\ o # s
    BY <1>1 DEF BeatInv, BeatTypeOK
  <2>2. late' = [late EXCEPT ![s] = ~ConnectionEstablished(s)']
    BY <1>3
  <2>3. (~ConnectionEstablished(s)') \in BOOLEAN
    OBVIOUS
  <2> QED BY <2>1, <2>2, <2>3, <1>1, ZenonT(30)
<1>10. BeatTypeOK'
  BY <1>3, <1>6, <1>7, <1>8, <1>9 DEF BeatInv, BeatTypeOK
<1>11. /\ Heard(net'[s], start[s], unheard[s], current[s])
       /\ m.of <= start[s] /\ (m.of = start[s] => m.heard + unheard[s] <= current[s])
  <2>1. Heard(net[s], start[s], unheard[s], current[s])
    BY BeatFacts DEF Heeded
  <2>2. /\ net[s] \in Seq(Pings) /\ start[s] \in Nat /\ unheard[s] \in Nat /\ current[s] \in Nat
    BY BeatFacts
  <2>3. /\ Heard(Tail(net[s]), start[s], unheard[s], current[s])
        /\ m.of <= start[s] /\ (m.of = start[s] => m.heard + unheard[s] <= current[s])
    BY <2>1, <2>2, <1>2, HeardFacts
  <2> QED BY <2>3, <1>6
<1>12. Timed(net'[s], current[o]) /\ m.time <= current[o]
  <2>1. Timed(net[s], current[o]) /\ current[o] \in Nat
    BY <1>1, BeatFacts DEF Heeded
  <2> QED BY <2>1, <1>2, <1>6, BeatFacts, TimedFacts
<1>13. ~late'[s] => current[s] <= acknowledged'[s] + MaximumHeartbeatDelay + 1
  <2>1. ~late'[s] => current'[s] - acknowledged'[s] <= MaximumHeartbeatDelay
    BY <1>9 DEF ConnectionEstablished
  <2>2. /\ current[s] \in Nat /\ MaximumHeartbeatDelay \in Nat
        /\ current'[s] = current[s] /\ acknowledged'[s] = m.heard /\ m.heard \in Nat
    BY <1>3, <1>4, <1>7, BeatFacts
  <2>3. \A a, b, d \in Nat : a - b <= d => a <= b + d + 1
    OBVIOUS
  <2> QED BY <2>1, <2>2, <2>3
<1>14. Heeded(s)'
  <2>1. /\ seen[o] <= start[s] /\ unheard[s] <= current[s] /\ Timed(net[o], current[s])
        /\ seen[o] = start[s] => counterpart[o] + unheard[s] <= current[s]
    BY <1>1, BeatFacts DEF Heeded
  <2> QED BY <2>1, <1>1, <1>3, <1>6, <1>7, <1>8, <1>11, <1>13 DEF Heeded
<1>15. Heard(net[o], start[o], 0, current[o])
  <2>1. /\ Heard(net[o], start[o], unheard[o], current[o])
        /\ net[o] \in Seq(Pings) /\ start[o] \in Nat /\ unheard[o] \in Nat /\ current[o] \in Nat
    BY <1>1, BeatFacts DEF Heeded
  <2> QED BY <2>1, HeardFacts
<1>16. Heeded(o)'
  <2>1. /\ meant[o] <= start[o] /\ 0 <= current[o] /\ start[o] <= start[o]
        /\ meant[o] = start[o] => acknowledged[o] + 0 <= current[o]
        /\ m.time + 0 <= current[o]
        /\ heartbeatAlive[o] /\ ~late[o] => current[o] <= acknowledged[o] + MaximumHeartbeatDelay + 1
    <3>1. /\ start[o] \in Nat /\ current[o] \in Nat /\ acknowledged[o] \in Nat /\ unheard[o] \in Nat
          /\ meant[o] <= start[o]
          /\ meant[o] = start[o] => acknowledged[o] + unheard[o] <= current[o]
          /\ heartbeatAlive[o] /\ ~late[o] => current[o] <= acknowledged[o] + MaximumHeartbeatDelay + 1
      BY <1>1, BeatFacts DEF Heeded
    <3> QED BY <3>1, <1>4, <1>12
  <2> QED BY <2>1, <1>1, <1>3, <1>6, <1>7, <1>8, <1>9, <1>12, <1>15 DEF Heeded
<1> QED BY <1>1, <1>10, <1>14, <1>16, BeatBoth

LEMMA ReceiverTellsStep == \A s \in Side : BeatInv /\ ReceiverTells(s) => BeatInv'
<1> SUFFICES ASSUME BeatInv, NEW s \in Side, ReceiverTells(s) PROVE BeatInv'
  OBVIOUS
<1>1. PICK o \in Side : o = Other(s) /\ o # s /\ Other(o) = s /\ \A r \in Side : r = s \/ r = o
  BY OtherSide
<1>2. /\ heartbeatAlive' = [heartbeatAlive EXCEPT ![s] = TRUE]
      /\ receiving' = [receiving EXCEPT ![s] = "reads"]
      /\ late' = [late EXCEPT ![s] = ~ConnectionEstablished(s)]
      /\ net' = net /\ current' = current /\ counterpart' = counterpart
      /\ acknowledged' = acknowledged /\ start' = start /\ seen' = seen /\ meant' = meant
      /\ unheard' = unheard
  BY DEF ReceiverTells
<1>3. /\ heartbeatAlive' \in [Side -> BOOLEAN] /\ late' \in [Side -> BOOLEAN]
      /\ heartbeatAlive'[o] = heartbeatAlive[o] /\ late'[o] = late[o]
      /\ ~late'[s] => ConnectionEstablished(s)
  BY <1>1, <1>2, ZenonT(30) DEF BeatInv, BeatTypeOK
<1>4. BeatTypeOK'
  BY <1>2, <1>3 DEF BeatInv, BeatTypeOK
<1>5. ~late'[s] => current[s] <= acknowledged[s] + MaximumHeartbeatDelay + 1
  BY <1>3, BeatFacts DEF ConnectionEstablished
<1>6. Heeded(s)'
  BY <1>2, <1>5, BeatFacts DEF Heeded
<1>7. Heeded(o)'
  BY <1>1, <1>2, <1>3, BeatFacts DEF Heeded
<1> QED BY <1>1, <1>4, <1>6, <1>7, BeatBoth

LEMMA NoPings ==
  /\ <<>> \in Seq(Pings)
  /\ \A st, un, cu : Heard(<<>>, st, un, cu) /\ Timed(<<>>, cu)
BY DEF Heard, Timed

LEMMA ReconnectStep == BeatInv /\ Reconnect => BeatInv'
<1> SUFFICES ASSUME BeatInv, Reconnect PROVE BeatInv'
  OBVIOUS
<1>1. /\ net' = [s \in Side |-> <<>>]
      /\ UNCHANGED <<current, counterpart, acknowledged, heartbeatAlive, receiving, beatPast>>
  BY DEF Reconnect, Reconnects
<1>2. BeatTypeOK'
  BY <1>1, NoPings DEF BeatInv, BeatTypeOK, beatPast
<1>3. \A s \in Side : Heeded(s)'
  BY <1>1, NoPings, OtherSide DEF BeatInv, Heeded, beatPast
<1> QED BY <1>2, <1>3 DEF BeatInv

LEMMA CutOffStep == \A s \in Side : BeatInv /\ CutOff(s) => BeatInv'
BY DEF CutOff, BeatInv, BeatTypeOK, Heeded, beatPast

LEMMA RestartStep == \A s \in Side : BeatInv /\ Restart(s) => BeatInv'
<1> SUFFICES ASSUME BeatInv, NEW s \in Side, Restart(s) PROVE BeatInv'
  OBVIOUS
<1>1. PICK o \in Side : o = Other(s) /\ o # s /\ Other(o) = s /\ \A r \in Side : r = s \/ r = o
  BY OtherSide
<1>2. /\ net' = [r \in Side |-> <<>>]
      /\ current' = [current EXCEPT ![s] = 0] /\ counterpart' = [counterpart EXCEPT ![s] = 0]
      /\ acknowledged' = [acknowledged EXCEPT ![s] = 0]
      /\ heartbeatAlive' = [heartbeatAlive EXCEPT ![s] = FALSE]
      /\ receiving' = [receiving EXCEPT ![s] = "reads"]
      /\ start' = [start EXCEPT ![s] = start[s] + 1]
      /\ seen' = [seen EXCEPT ![s] = start[o]] /\ meant' = [meant EXCEPT ![s] = start[s] + 1]
      /\ unheard' = [unheard EXCEPT ![s] = 0, ![o] = 0]
      /\ late' = [late EXCEPT ![s] = FALSE]
  BY <1>1 DEF Restart, Reconnects
<1>3. /\ net'[s] = <<>> /\ net'[o] = <<>>
      /\ current'[s] = 0 /\ current'[o] = current[o]
      /\ counterpart'[s] = 0 /\ counterpart'[o] = counterpart[o]
      /\ acknowledged'[s] = 0 /\ acknowledged'[o] = acknowledged[o]
      /\ ~heartbeatAlive'[s] /\ heartbeatAlive'[o] = heartbeatAlive[o] /\ late'[o] = late[o]
  BY <1>1, <1>2 DEF BeatInv, BeatTypeOK
<1>4. /\ start'[s] = start[s] + 1 /\ start'[o] = start[o]
      /\ seen'[s] = start[o] /\ seen'[o] = seen[o]
      /\ meant'[s] = start[s] + 1 /\ meant'[o] = meant[o]
      /\ unheard'[s] = 0 /\ unheard'[o] = 0
  BY <1>1, <1>2 DEF BeatInv, BeatTypeOK
<1>5. BeatTypeOK'
  <2>1. 0 \in 0..MaxTimestamp /\ start[s] + 1 \in Nat
    BY BeatFacts
  <2>2. /\ net' \in [Side -> Seq(Pings)]
        /\ current' \in [Side -> 0..MaxTimestamp] /\ counterpart' \in [Side -> 0..MaxTimestamp]
        /\ acknowledged' \in [Side -> 0..MaxTimestamp] /\ unheard' \in [Side -> 0..MaxTimestamp]
    BY <2>1, <1>1, <1>2, NoPings DEF BeatInv, BeatTypeOK
  <2>3. /\ receiving' \in [Side -> {"reads", "tells"}] /\ start' \in [Side -> Nat]
        /\ seen' \in [Side -> Nat] /\ meant' \in [Side -> Nat]
    BY <2>1, <1>1, <1>2 DEF BeatInv, BeatTypeOK
  <2>4. heartbeatAlive' \in [Side -> BOOLEAN] /\ late' \in [Side -> BOOLEAN]
    BY <1>2, ZenonT(30) DEF BeatInv, BeatTypeOK
  <2> QED BY <2>2, <2>3, <2>4 DEF BeatTypeOK
<1>6. Heeded(s)'
  <2>1. seen[o] <= start[s]
    BY <1>1, BeatFacts DEF Heeded
  <2>2. seen[o] <= start[s] + 1 /\ seen[o] # start[s] + 1 /\ start[s] + 1 <= start[s] + 1
        /\ 0 + 0 <= 0
    BY <2>1, <1>1, BeatFacts
  <2> QED BY <2>2, <1>1, <1>3, <1>4, NoPings DEF Heeded
<1>7. Heeded(o)'
  <2>1. /\ start[o] \in Nat /\ current[o] \in Nat /\ acknowledged[o] \in Nat /\ unheard[o] \in Nat
        /\ meant[o] <= start[o]
        /\ meant[o] = start[o] => acknowledged[o] + unheard[o] <= current[o]
        /\ heartbeatAlive[o] /\ ~late[o] => current[o] <= acknowledged[o] + MaximumHeartbeatDelay + 1
    BY <1>1, BeatFacts DEF Heeded
  <2>2. /\ start[o] <= start[o] /\ 0 <= current[o] /\ 0 + 0 <= current[o]
        /\ meant[o] = start[o] => acknowledged[o] + 0 <= current[o]
    BY <2>1
  <2> QED BY <2>1, <2>2, <1>1, <1>3, <1>4, NoPings DEF Heeded
<1> QED BY <1>1, <1>5, <1>6, <1>7, BeatBoth

LEMMA BeatStep == BeatInv /\ BeatNext => BeatInv'
BY PingSendsStep, ReceivePingStep, ReceiverTellsStep, CutOffStep, RestartStep, ReconnectStep
   DEF BeatNext

\* What a process has acknowledged of its pings, together with those it has sent since
\* its counterpart took one in, is never more than it has sent; and while it takes the
\* connection for alive, and was not overtaken, it has sent few beyond those.
THEOREM BeatInvariance == Spec => []BeatPart
<1>1. Init => BeatPart
  <2> SUFFICES ASSUME Init PROVE BeatPart
    OBVIOUS
  <2>1. BeatInit
    BY DEF Init
  <2>2. BeatTypeOK
    BY <2>1, NoPings, HeartbeatAssumption DEF BeatInit, NetInit, BeatTypeOK
  <2>3. \A s \in Side : Heeded(s)
    BY <2>1, NoPings, OtherSide DEF BeatInit, NetInit, Heeded
  <2> QED BY <2>1, <2>2, <2>3 DEF BeatInit, BeatPart, BeatInv, BeatUnused
<1>2. BeatInv /\ [BeatNext]_beatVars => BeatInv'
  <2>1. BeatInv /\ UNCHANGED beatVars => BeatInv'
    BY DEF beatVars, BeatInv, BeatTypeOK, Heeded
  <2> QED BY <2>1, BeatStep
<1>3. BeatPart /\ [Next]_vars => BeatPart'
  BY <1>2, StepOfParts DEF BeatPart, BeatUnused, beatOnly
<1> QED BY <1>1, <1>3, PTL DEF Spec

\* SilenceNoticed: a peer that no longer hears this one is not taken for alive for long.
THEOREM SilenceIsNoticed == Spec => []SilenceNoticed
<1>1. BeatInv => SilenceNoticed
  <2> SUFFICES ASSUME BeatInv, NEW s \in Side, heartbeatAlive[s], ~late[s], meant[s] = start[s]
               PROVE  unheard[s] <= MaximumHeartbeatDelay + 1
    BY DEF SilenceNoticed
  <2> QED BY BeatFacts DEF Heeded
<1>2. BeatPart => SilenceNoticed
  BY <1>1 DEF BeatPart, BeatUnused, SilenceNoticed
<1> QED BY <1>2, BeatInvariance, PTL

-----------------------------------------------------------------------------
\* RdIntern

InternMessages == UseMessages \cup ValueMessages

\* What a number stands for: a are the values that the peer which sends it has numbered,
\* b those of the one which reads it.
Means(a, b, id, v) ==
  \/ \E k \in 1..Len(a) : id = 2 * (k - 1) /\ a[k] = v
  \/ \E k \in 1..Len(b) : id = 2 * (k - 1) + 1 /\ b[k] = v

Has(f, k, v) == k \in DOMAIN f /\ f[k] = v

\* Of the values a that a peer has numbered, the other has each, in f, or it is on its
\* way to it, in q; and every number in q is that of a value in f or before it in q.
Arrives(a, b, q, f) ==
  /\ \A k \in 1..Len(a) :
       Has(f, k - 1, a[k]) \/ \E i \in 1..Len(q) : q[i] = Interned(2 * (k - 1), a[k])
  /\ \A j \in 1..Len(q) :
       q[j].kind = "value" => \E k \in 1..Len(a) : q[j] = Interned(2 * (k - 1), a[k])
  /\ \A j \in 1..Len(q) :
       q[j].kind = "use" =>
         /\ Means(a, b, q[j].id, q[j].meant)
         /\ \A k \in 1..Len(a) :
              q[j].id = 2 * (k - 1) =>
                \/ Has(f, k - 1, a[k])
                \/ \E i \in 1..Len(q) : i < j /\ q[i] = Interned(2 * (k - 1), a[k])

\* The numbers that have come wait for a reader that has their values.
Readable(a, b, f, u) ==
  \A j \in 1..Len(u) :
    /\ Means(a, b, u[j].id, u[j].meant)
    /\ \A k \in 1..Len(a) : u[j].id = 2 * (k - 1) => Has(f, k - 1, a[k])

Written(a, b, w) == \A u \in w : Means(a, b, u.id, u.meant)

NumbersOf(a, b, g) == \A v \in DOMAIN g : Means(a, b, g[v], v)

InternInv ==
  /\ InternTypeOK
  /\ \A s \in Side : reading[s] # NoUse => uses[s] # <<>>
  /\ \A s \in Side :
       /\ Arrives(mine[s], mine[Other(s)], net[Other(s)], others[Other(s)])
       /\ Readable(mine[s], mine[Other(s)], others[Other(s)], uses[Other(s)])
       /\ Written(mine[s], mine[Other(s)], written[s])
       /\ NumbersOf(mine[s], mine[Other(s)], inverse[s])

InternUnused == uses = [s \in Side |-> <<>>]

InternPart == IF busy = "intern" THEN InternInv ELSE InternUnused

LEMMA MoreMeans ==
  ASSUME NEW a \in Seq(InternValues), NEW b \in Seq(InternValues), NEW v \in InternValues,
         NEW id, NEW x, Means(a, b, id, x)
  PROVE  Means(Append(a, v), b, id, x) /\ Means(a, Append(b, v), id, x)
<1>1. /\ Len(a) \in Nat /\ Len(b) \in Nat
      /\ Len(Append(a, v)) = Len(a) + 1 /\ Len(Append(b, v)) = Len(b) + 1
      /\ \A k \in 1..Len(a) : Append(a, v)[k] = a[k] /\ k \in 1..(Len(a) + 1)
      /\ \A k \in 1..Len(b) : Append(b, v)[k] = b[k] /\ k \in 1..(Len(b) + 1)
  BY AppendFacts
<1> QED BY <1>1 DEF Means

\* No number was there before its value.
LEMMA NewNumber ==
  ASSUME NEW a \in Seq(InternValues), NEW b \in Seq(InternValues), NEW v, NEW x
  PROVE  ~Means(a, b, 2 * Len(a), x)
<1>1. Len(a) \in Nat /\ Len(b) \in Nat
  OBVIOUS
<1>2. \A k \in 1..Len(a) : 2 * Len(a) # 2 * (k - 1)
  BY <1>1
<1>3. \A k \in 1..Len(b) : 2 * Len(a) # 2 * (k - 1) + 1
  BY <1>1
<1> QED BY <1>2, <1>3 DEF Means

LEMMA OwnNumber ==
  ASSUME NEW a \in Seq(InternValues), NEW b \in Seq(InternValues), NEW v \in InternValues
  PROVE  Means(Append(a, v), b, 2 * Len(a), v)
<1>1. PICK n \in Nat : n = Len(a) /\ Len(Append(a, v)) = n + 1 /\ Append(a, v)[n + 1] = v
  BY AppendFacts
<1>2. n + 1 \in 1..(n + 1) /\ 2 * n = 2 * ((n + 1) - 1)
  OBVIOUS
<1> QED BY <1>1, <1>2 DEF Means

LEMMA ArrivesMore ==
  ASSUME NEW a \in Seq(InternValues), NEW b \in Seq(InternValues), NEW v \in InternValues,
         NEW q \in Seq(InternMessages), NEW f, Arrives(a, b, q, f)
  PROVE  Arrives(a, Append(b, v), q, f)
BY MoreMeans DEF Arrives

LEMMA ReadableMore ==
  ASSUME NEW a \in Seq(InternValues), NEW b \in Seq(InternValues), NEW v \in InternValues,
         NEW u \in Seq(UseMessages), NEW f, Readable(a, b, f, u)
  PROVE  Readable(a, Append(b, v), f, u) /\ Readable(Append(a, v), b, f, u)
<1>1. Readable(a, Append(b, v), f, u)
  BY MoreMeans DEF Readable
<1>2. ASSUME NEW j \in 1..Len(u)
      PROVE  /\ Means(Append(a, v), b, u[j].id, u[j].meant)
             /\ \A k \in 1..Len(Append(a, v)) :
                  u[j].id = 2 * (k - 1) => Has(f, k - 1, Append(a, v)[k])
  BY MoreMeans, NewNumber, AppendFacts DEF Readable
<1> QED BY <1>1, <1>2 DEF Readable

LEMMA WrittenMore ==
  ASSUME NEW a \in Seq(InternValues), NEW b \in Seq(InternValues), NEW v \in InternValues,
         NEW w
  PROVE  /\ Written(a, b, w) => Written(Append(a, v), b, w) /\ Written(a, Append(b, v), w)
         /\ NumbersOf(a, b, w) => NumbersOf(Append(a, v), b, w) /\ NumbersOf(a, Append(b, v), w)
BY MoreMeans DEF Written, NumbersOf

\* A value gets its number, and is sent.
LEMMA ArrivesValue ==
  ASSUME NEW a \in Seq(InternValues), NEW b \in Seq(InternValues), NEW v \in InternValues,
         NEW q \in Seq(InternMessages), NEW f, Arrives(a, b, q, f)
  PROVE  Arrives(Append(a, v), b, Append(q, Interned(2 * Len(a), v)), f)
<1>1. PICK n \in Nat, c \in Seq(InternValues) :
        /\ n = Len(a) /\ c = Append(a, v) /\ Len(c) = n + 1 /\ c[n + 1] = v
        /\ \A k \in 1..n : c[k] = a[k]
  <2>1. /\ Append(a, v) \in Seq(InternValues) /\ Len(a) \in Nat
        /\ Len(Append(a, v)) = Len(a) + 1 /\ Append(a, v)[Len(a) + 1] = v
        /\ \A i \in 1..Len(a) : Append(a, v)[i] = a[i]
    BY AppendFacts
  <2> QED BY <2>1
<1>2. PICK m \in InternMessages : m = Interned(2 * n, v) /\ m.kind = "value"
  <2>1. Interned(2 * n, v) \in InternMessages /\ Interned(2 * n, v).kind = "value"
    BY DEF Interned, InternMessages, ValueMessages
  <2> QED BY <2>1
<1>3. PICK l \in Nat, w \in Seq(InternMessages) :
        /\ l = Len(q) /\ w = Append(q, m) /\ Len(w) = l + 1 /\ w[l + 1] = m
        /\ \A i \in 1..l : w[i] = q[i]
  <2>1. /\ Append(q, m) \in Seq(InternMessages) /\ Len(q) \in Nat
        /\ Len(Append(q, m)) = Len(q) + 1 /\ Append(q, m)[Len(q) + 1] = m
        /\ \A i \in 1..Len(q) : Append(q, m)[i] = q[i]
    BY AppendFacts
  <2> QED BY <2>1
<1>4. /\ \A k \in 1..(n + 1) : k \in 1..n \/ k = n + 1
      /\ \A j \in 1..(l + 1) : j \in 1..l \/ j = l + 1
      /\ \A j \in 1..l : j \in 1..(l + 1)
      /\ n + 1 \in 1..(n + 1) /\ l + 1 \in 1..(l + 1) /\ (n + 1) - 1 = n
  OBVIOUS
<1>5. ASSUME NEW k \in 1..(n + 1)
      PROVE  Has(f, k - 1, c[k]) \/ \E i \in 1..(l + 1) : w[i] = Interned(2 * (k - 1), c[k])
  <2>1. CASE k \in 1..n
    BY <2>1, <1>1, <1>3, <1>4 DEF Arrives
  <2>2. CASE k = n + 1
    BY <2>2, <1>1, <1>2, <1>3, <1>4
  <2> QED BY <2>1, <2>2, <1>4
<1>6. ASSUME NEW j \in 1..(l + 1), w[j].kind = "value"
      PROVE  \E k \in 1..(n + 1) : w[j] = Interned(2 * (k - 1), c[k])
  <2>1. CASE j \in 1..l
    <3>1. PICK k \in 1..n : w[j] = Interned(2 * (k - 1), a[k])
      BY <2>1, <1>1, <1>3, <1>6 DEF Arrives
    <3>2. k \in 1..(n + 1)
      OBVIOUS
    <3> QED BY <3>1, <3>2, <1>1
  <2>2. CASE j = l + 1
    BY <2>2, <1>1, <1>2, <1>3, <1>4
  <2> QED BY <2>1, <2>2, <1>4
<1>7. ASSUME NEW j \in 1..(l + 1), w[j].kind = "use"
      PROVE  /\ Means(c, b, w[j].id, w[j].meant)
             /\ \A k \in 1..(n + 1) :
                  w[j].id = 2 * (k - 1) =>
                    \/ Has(f, k - 1, c[k])
                    \/ \E i \in 1..(l + 1) : i < j /\ w[i] = Interned(2 * (k - 1), c[k])
  <2>1. j \in 1..l /\ w[j] = q[j]
    BY <1>2, <1>3, <1>4, <1>7
  <2>2. /\ Means(a, b, q[j].id, q[j].meant)
        /\ \A k \in 1..n :
             q[j].id = 2 * (k - 1) =>
               \/ Has(f, k - 1, a[k])
               \/ \E i \in 1..l : i < j /\ q[i] = Interned(2 * (k - 1), a[k])
    BY <2>1, <1>1, <1>3, <1>7 DEF Arrives
  <2>3. Means(c, b, q[j].id, q[j].meant) /\ q[j].id # 2 * n
    BY <2>2, <1>1, MoreMeans, NewNumber
  <2>4. ASSUME NEW k \in 1..(n + 1), q[j].id = 2 * (k - 1) PROVE k \in 1..n
    BY <2>3, <2>4, <1>4
  <2>5. ASSUME NEW k \in 1..(n + 1), q[j].id = 2 * (k - 1)
        PROVE  \/ Has(f, k - 1, c[k])
               \/ \E i \in 1..(l + 1) : i < j /\ w[i] = Interned(2 * (k - 1), c[k])
    <3>1. k \in 1..n /\ c[k] = a[k]
      BY <2>4, <2>5, <1>1
    <3>2. Has(f, k - 1, a[k]) \/ \E i \in 1..l : i < j /\ q[i] = Interned(2 * (k - 1), a[k])
      BY <3>1, <2>2, <2>5
    <3> QED BY <3>1, <3>2, <1>3, <1>4
  <2> QED BY <2>1, <2>3, <2>5
<1>8. Arrives(c, b, w, f)
  <2>1. \A k \in 1..Len(c) :
          Has(f, k - 1, c[k]) \/ \E i \in 1..Len(w) : w[i] = Interned(2 * (k - 1), c[k])
    BY <1>1, <1>3, <1>5
  <2>2. \A j \in 1..Len(w) :
          w[j].kind = "value" => \E k \in 1..Len(c) : w[j] = Interned(2 * (k - 1), c[k])
    BY <1>1, <1>3, <1>6
  <2>3. \A j \in 1..Len(w) :
          w[j].kind = "use" =>
            /\ Means(c, b, w[j].id, w[j].meant)
            /\ \A k \in 1..Len(c) :
                 w[j].id = 2 * (k - 1) =>
                   \/ Has(f, k - 1, c[k])
                   \/ \E i \in 1..Len(w) : i < j /\ w[i] = Interned(2 * (k - 1), c[k])
    <3>1. Len(w) = l + 1 /\ Len(c) = n + 1
      BY <1>1, <1>3
    <3> QED BY <3>1, <1>7
  <2> QED BY <2>1, <2>2, <2>3 DEF Arrives
<1> QED BY <1>1, <1>2, <1>3, <1>8

\* A number is sent that stands for something.
LEMMA ArrivesUse ==
  ASSUME NEW a \in Seq(InternValues), NEW b \in Seq(InternValues), NEW m \in UseMessages,
         NEW q \in Seq(InternMessages), NEW f, Arrives(a, b, q, f), Means(a, b, m.id, m.meant)
  PROVE  Arrives(a, b, Append(q, m), f)
<1>1. m \in InternMessages /\ m.kind = "use"
  BY DEF InternMessages, UseMessages
<1>2. PICK l \in Nat, w \in Seq(InternMessages) :
        /\ l = Len(q) /\ w = Append(q, m) /\ Len(w) = l + 1 /\ w[l + 1] = m
        /\ \A i \in 1..l : w[i] = q[i]
  <2>1. /\ Append(q, m) \in Seq(InternMessages) /\ Len(q) \in Nat
        /\ Len(Append(q, m)) = Len(q) + 1 /\ Append(q, m)[Len(q) + 1] = m
        /\ \A i \in 1..Len(q) : Append(q, m)[i] = q[i]
    BY <1>1, AppendFacts
  <2> QED BY <2>1
<1>3. /\ \A j \in 1..(l + 1) : j \in 1..l \/ j = l + 1
      /\ \A j \in 1..l : j \in 1..(l + 1) /\ j < l + 1
  OBVIOUS
<1>4. \A k \in 1..Len(a) :
        Has(f, k - 1, a[k]) \/ \E i \in 1..l : w[i] = Interned(2 * (k - 1), a[k])
  BY <1>2 DEF Arrives
<1>5. \A j \in 1..(l + 1) :
        w[j].kind = "value" => \E k \in 1..Len(a) : w[j] = Interned(2 * (k - 1), a[k])
  BY <1>1, <1>2, <1>3 DEF Arrives
<1>6. ASSUME NEW j \in 1..(l + 1), w[j].kind = "use"
      PROVE  /\ Means(a, b, w[j].id, w[j].meant)
             /\ \A k \in 1..Len(a) :
                  w[j].id = 2 * (k - 1) =>
                    \/ Has(f, k - 1, a[k])
                    \/ \E i \in 1..(l + 1) : i < j /\ w[i] = Interned(2 * (k - 1), a[k])
  <2>1. CASE j \in 1..l
    BY <2>1, <1>2, <1>3, <1>6 DEF Arrives
  <2>2. CASE j = l + 1
    BY <2>2, <1>2, <1>3, <1>4
  <2> QED BY <2>1, <2>2, <1>3
<1> QED BY <1>2, <1>3, <1>4, <1>5, <1>6 DEF Arrives

\* The oldest message is taken, and its value, if it has one, kept in g.
LEMMA ArrivesTail ==
  ASSUME NEW a \in Seq(InternValues), NEW b \in Seq(InternValues),
         NEW q \in Seq(InternMessages), q # <<>>, NEW f, NEW g, Arrives(a, b, q, f),
         \A k \in 1..Len(a) :
           Has(f, k - 1, a[k]) \/ Head(q) = Interned(2 * (k - 1), a[k]) => Has(g, k - 1, a[k])
  PROVE  Arrives(a, b, Tail(q), g)
<1>1. PICK w \in Seq(InternMessages), l \in Nat :
        /\ w = Tail(q) /\ Len(w) = l /\ Len(q) = l + 1 /\ Head(q) = q[1]
        /\ \A i \in 1..l : w[i] = q[i + 1]
  <2>1. /\ Tail(q) \in Seq(InternMessages) /\ Len(Tail(q)) = Len(q) - 1 /\ Len(q) - 1 \in Nat
        /\ Len(q) = (Len(q) - 1) + 1 /\ Head(q) = q[1]
        /\ \A i \in 1..(Len(q) - 1) : Tail(q)[i] = q[i + 1]
    BY TailFacts
  <2> QED BY <2>1
<1>2. /\ \A i \in 1..(l + 1) : i = 1 \/ i - 1 \in 1..l
      /\ \A i \in 1..(l + 1) : i # 1 => w[i - 1] = q[i]
      /\ \A i \in 1..l : i + 1 \in 1..(l + 1)
  <2>1. \A i \in 1..(l + 1) : i = 1 \/ (i - 1 \in 1..l /\ (i - 1) + 1 = i)
    OBVIOUS
  <2>2. \A i \in 1..l : i + 1 \in 1..(l + 1)
    OBVIOUS
  <2> QED BY <2>1, <2>2, <1>1
<1>3. ASSUME NEW k \in 1..Len(a)
      PROVE  Has(g, k - 1, a[k]) \/ \E i \in 1..l : w[i] = Interned(2 * (k - 1), a[k])
  <2>1. Has(f, k - 1, a[k]) \/ \E i \in 1..(l + 1) : q[i] = Interned(2 * (k - 1), a[k])
    BY <1>1 DEF Arrives
  <2>2. ASSUME NEW i \in 1..(l + 1), i # 1, q[i] = Interned(2 * (k - 1), a[k])
        PROVE  \E h \in 1..l : w[h] = Interned(2 * (k - 1), a[k])
    BY <2>2, <1>2
  <2> QED BY <2>1, <2>2, <1>1
<1>4. ASSUME NEW j \in 1..l, w[j].kind = "value"
      PROVE  \E k \in 1..Len(a) : w[j] = Interned(2 * (k - 1), a[k])
  BY <1>1, <1>2, <1>4 DEF Arrives
<1>5. ASSUME NEW j \in 1..l, w[j].kind = "use"
      PROVE  /\ Means(a, b, w[j].id, w[j].meant)
             /\ \A k \in 1..Len(a) :
                  w[j].id = 2 * (k - 1) =>
                    \/ Has(g, k - 1, a[k])
                    \/ \E i \in 1..l : i < j /\ w[i] = Interned(2 * (k - 1), a[k])
  <2>1. j + 1 \in 1..(l + 1) /\ w[j] = q[j + 1]
    BY <1>1, <1>2
  <2>2. /\ Means(a, b, w[j].id, w[j].meant)
        /\ \A k \in 1..Len(a) :
             w[j].id = 2 * (k - 1) =>
               \/ Has(f, k - 1, a[k])
               \/ \E i \in 1..(l + 1) : i < j + 1 /\ q[i] = Interned(2 * (k - 1), a[k])
    BY <2>1, <1>1, <1>5 DEF Arrives
  <2>3. ASSUME NEW k \in 1..Len(a), w[j].id = 2 * (k - 1)
        PROVE  \/ Has(g, k - 1, a[k])
               \/ \E i \in 1..l : i < j /\ w[i] = Interned(2 * (k - 1), a[k])
    <3>1. CASE Has(f, k - 1, a[k])
      BY <3>1
    <3>2. ASSUME NEW i \in 1..(l + 1), i < j + 1, q[i] = Interned(2 * (k - 1), a[k])
          PROVE  \/ Has(g, k - 1, a[k])
                 \/ \E h \in 1..l : h < j /\ w[h] = Interned(2 * (k - 1), a[k])
      <4>1. CASE i = 1
        BY <4>1, <3>2, <1>1
      <4>2. CASE i # 1
        <5>1. i - 1 \in 1..l /\ i - 1 < j /\ w[i - 1] = q[i]
          BY <4>2, <3>2, <1>2
        <5> QED BY <5>1, <3>2
      <4> QED BY <4>1, <4>2
    <3> QED BY <3>1, <3>2, <2>2, <2>3
  <2> QED BY <2>2, <2>3
<1>6. Arrives(a, b, w, g)
  BY <1>1, <1>3, <1>4, <1>5 DEF Arrives
<1> QED BY <1>1, <1>6

LEMMA ReadableTail ==
  ASSUME NEW a \in Seq(InternValues), NEW b \in Seq(InternValues), NEW f,
         NEW u \in Seq(UseMessages), Readable(a, b, f, u)
  PROVE  u # <<>> => Readable(a, b, f, Tail(u))
<1> SUFFICES ASSUME u # <<>> PROVE Readable(a, b, f, Tail(u))
  OBVIOUS
<1>1. \A j \in 1..Len(Tail(u)) : j + 1 \in 1..Len(u) /\ Tail(u)[j] = u[j + 1]
  BY TailFacts
<1> QED BY <1>1 DEF Readable

\* A number that is taken can be read.
LEMMA ReadableUse ==
  ASSUME NEW a \in Seq(InternValues), NEW b \in Seq(InternValues), NEW f,
         NEW u \in Seq(UseMessages), Readable(a, b, f, u),
         NEW q \in Seq(InternMessages), q # <<>>, Head(q).kind = "use", Arrives(a, b, q, f)
  PROVE  Head(q) \in UseMessages /\ Readable(a, b, f, Append(u, Head(q)))
<1>1. PICK m \in UseMessages : m = Head(q) /\ m = q[1] /\ 1 \in 1..Len(q)
  <2>1. Head(q) \in InternMessages /\ Head(q) = q[1] /\ 1 \in 1..Len(q)
    BY TailFacts
  <2>2. Head(q) \in UseMessages
    BY <2>1 DEF InternMessages, ValueMessages
  <2> QED BY <2>1, <2>2
<1>2. /\ Means(a, b, m.id, m.meant)
      /\ \A k \in 1..Len(a) : m.id = 2 * (k - 1) => Has(f, k - 1, a[k])
  <2>1. ~\E i \in 1..Len(q) : i < 1
    OBVIOUS
  <2> QED BY <2>1, <1>1 DEF Arrives
<1>3. ASSUME NEW j \in 1..Len(Append(u, m))
      PROVE  (j \in 1..Len(u) /\ Append(u, m)[j] = u[j]) \/ Append(u, m)[j] = m
  BY AppendFacts
<1>4. Readable(a, b, f, Append(u, m))
  BY <1>2, <1>3 DEF Readable
<1> QED BY <1>1, <1>4

LEMMA InternFacts ==
  ASSUME InternInv, NEW s \in Side
  PROVE  /\ Other(s) \in Side /\ Other(s) # s /\ Other(Other(s)) = s
         /\ net[s] \in Seq(InternMessages) /\ mine[s] \in Seq(InternValues)
         /\ uses[s] \in Seq(UseMessages) /\ written[s] \subseteq UseMessages
         /\ Arrives(mine[s], mine[Other(s)], net[Other(s)], others[Other(s)])
         /\ Readable(mine[s], mine[Other(s)], others[Other(s)], uses[Other(s)])
         /\ Written(mine[s], mine[Other(s)], written[s])
         /\ NumbersOf(mine[s], mine[Other(s)], inverse[s])
         /\ DOMAIN inverse[s] \subseteq InternValues
         /\ \A v \in DOMAIN inverse[s] : inverse[s][v] \in Nat
         /\ \A k \in DOMAIN others[s] : k \in Nat /\ others[s][k] \in InternValues
         /\ \A r \in Side : reading[r] # NoUse => uses[r] # <<>>
BY OtherSide DEF InternInv, InternTypeOK, InternMessages

LEMMA InternBoth ==
  ASSUME NEW s \in Side, NEW o \in Side, o = Other(s), s = Other(o), InternTypeOK',
         Arrives(mine'[s], mine'[o], net'[o], others'[o]),
         Arrives(mine'[o], mine'[s], net'[s], others'[s]),
         Readable(mine'[s], mine'[o], others'[o], uses'[o]),
         Readable(mine'[o], mine'[s], others'[s], uses'[s]),
         Written(mine'[s], mine'[o], written'[s]), Written(mine'[o], mine'[s], written'[o]),
         NumbersOf(mine'[s], mine'[o], inverse'[s]), NumbersOf(mine'[o], mine'[s], inverse'[o]),
         \A r \in Side : reading'[r] # NoUse => uses'[r] # <<>>
  PROVE  InternInv'
BY OtherSide DEF InternInv

LEMMA WriteKnownStep ==
  ASSUME InternInv, NEW s \in Side, NEW v \in DOMAIN inverse[s],
         written' = [written EXCEPT ![s] = @ \cup {Use(inverse[s][v], v)}],
         UNCHANGED <<net, mine, inverse, readRace, others, uses, reading>>
  PROVE  InternInv'
<1>1. PICK o \in Side : o = Other(s) /\ o # s /\ Other(o) = s
  BY OtherSide
<1>2. PICK u \in UseMessages : /\ u = Use(inverse[s][v], v)
                               /\ u.id = inverse[s][v] /\ u.meant = v
  <2>1. inverse[s][v] \in Nat /\ v \in InternValues
    BY InternFacts
  <2>2. Use(inverse[s][v], v) \in UseMessages
    BY <2>1 DEF Use, UseMessages
  <2> QED BY <2>2 DEF Use
<1>3. Means(mine[s], mine[o], u.id, u.meant)
  BY <1>1, <1>2, InternFacts DEF NumbersOf
<1>4. /\ written'[s] = written[s] \cup {u} /\ written'[o] = written[o]
      /\ written' \in [Side -> SUBSET UseMessages]
  BY <1>1, <1>2 DEF InternInv, InternTypeOK
<1>5. InternTypeOK'
  BY <1>4 DEF InternInv, InternTypeOK
<1>6. Written(mine[s], mine[o], written'[s])
  BY <1>1, <1>3, <1>4, InternFacts DEF Written
<1> QED BY <1>1, <1>4, <1>5, <1>6, InternFacts, InternBoth

LEMMA WriteNewStep ==
  ASSUME InternInv, NEW s \in Side, NEW v \in InternValues,
         written' = [written EXCEPT ![s] = @ \cup {Use(NextIndex(s), v)}],
         mine' = [mine EXCEPT ![s] = Append(@, v)],
         inverse' = [inverse EXCEPT ![s] = Put(@, v, NextIndex(s))],
         Send(s, Interned(NextIndex(s), v)), readRace' \in BOOLEAN,
         UNCHANGED <<others, uses, reading>>
  PROVE  InternInv'
<1>1. PICK o \in Side : o = Other(s) /\ o # s /\ Other(o) = s
  BY OtherSide
<1>2. PICK id \in Nat : id = NextIndex(s) /\ id = 2 * Len(mine[s])
  <2>1. Len(mine[s]) \in Nat
    BY InternFacts
  <2>2. 2 * Len(mine[s]) \in Nat
    BY <2>1
  <2> QED BY <2>2 DEF NextIndex
<1>3. PICK u \in UseMessages : u = Use(id, v) /\ u.id = id /\ u.meant = v
  <2>1. Use(id, v) \in UseMessages
    BY DEF Use, UseMessages
  <2> QED BY <2>1 DEF Use
<1>4. PICK m \in InternMessages : m = Interned(id, v)
  <2>1. Interned(id, v) \in InternMessages
    BY DEF Interned, ValueMessages, InternMessages
  <2> QED BY <2>1
<1>5. /\ mine[s] \in Seq(InternValues) /\ mine[o] \in Seq(InternValues)
      /\ net[o] \in Seq(InternMessages) /\ uses[o] \in Seq(UseMessages)
      /\ net[s] \in Seq(InternMessages) /\ uses[s] \in Seq(UseMessages)
      /\ Append(mine[s], v) \in Seq(InternValues) /\ Append(net[o], m) \in Seq(InternMessages)
  BY <1>1, InternFacts, AppendFacts
<1>6. /\ mine'[s] = Append(mine[s], v) /\ mine'[o] = mine[o]
      /\ mine' \in [Side -> Seq(InternValues)]
      /\ written'[s] = written[s] \cup {u} /\ written'[o] = written[o]
      /\ written' \in [Side -> SUBSET UseMessages]
  BY <1>1, <1>2, <1>3, <1>5 DEF InternInv, InternTypeOK
<1>7. /\ net'[s] = net[s] /\ net'[o] = Append(net[o], m)
      /\ net' \in [Side -> Seq(InternMessages)]
  BY <1>1, <1>2, <1>4, <1>5 DEF InternInv, InternTypeOK, Send, InternMessages
<1>8. /\ inverse'[s] = Put(inverse[s], v, id) /\ inverse'[o] = inverse[o]
      /\ inverse' = [r \in Side |-> inverse'[r]]
  BY <1>1, <1>2 DEF InternInv, InternTypeOK
<1>16. /\ DOMAIN inverse'[s] = DOMAIN inverse[s] \cup {v} /\ inverse'[s][v] = id
       /\ \A x \in DOMAIN inverse[s] : x # v => inverse'[s][x] = inverse[s][x]
  BY <1>8 DEF Put
<1>9. InternTypeOK'
  <2>1. /\ DOMAIN inverse'[s] \subseteq InternValues
        /\ \A x \in DOMAIN inverse'[s] : inverse'[s][x] \in Nat
    BY <1>16, InternFacts
  <2>2. \A r \in Side : /\ DOMAIN inverse'[r] \subseteq InternValues
                        /\ \A x \in DOMAIN inverse'[r] : inverse'[r][x] \in Nat
    BY <2>1, <1>1, <1>8, InternFacts, OtherSide
  <2> QED BY <2>2, <1>6, <1>7, <1>8 DEF InternInv, InternTypeOK, InternMessages
<1>10. Means(mine'[s], mine'[o], id, v)
  BY <1>2, <1>5, <1>6, OwnNumber
<1>11. Arrives(mine'[s], mine'[o], net'[o], others'[o])
  <2>1. Arrives(mine[s], mine[o], net[o], others[o])
    BY <1>1, InternFacts
  <2>2. Arrives(Append(mine[s], v), mine[o], Append(net[o], m), others[o])
    BY <2>1, <1>2, <1>4, <1>5, ArrivesValue
  <2> QED BY <2>2, <1>6, <1>7
<1>12. Arrives(mine'[o], mine'[s], net'[s], others'[s])
  <2>1. Arrives(mine[o], mine[s], net[s], others[s])
    BY <1>1, InternFacts
  <2>2. Arrives(mine[o], Append(mine[s], v), net[s], others[s])
    BY <2>1, <1>5, ArrivesMore
  <2> QED BY <2>2, <1>6, <1>7
<1>13. /\ Readable(mine'[s], mine'[o], others'[o], uses'[o])
       /\ Readable(mine'[o], mine'[s], others'[s], uses'[s])
  <2>1. Readable(mine[s], mine[o], others[o], uses[o]) /\ Readable(mine[o], mine[s], others[s], uses[s])
    BY <1>1, InternFacts
  <2>2. /\ Readable(Append(mine[s], v), mine[o], others[o], uses[o])
        /\ Readable(mine[o], Append(mine[s], v), others[s], uses[s])
    BY <2>1, <1>5, ReadableMore
  <2> QED BY <2>2, <1>6
<1>14. Written(mine'[s], mine'[o], written'[s]) /\ Written(mine'[o], mine'[s], written'[o])
  <2>1. Written(mine[s], mine[o], written[s]) /\ Written(mine[o], mine[s], written[o])
    BY <1>1, InternFacts
  <2>2. /\ Written(Append(mine[s], v), mine[o], written[s])
        /\ Written(mine[o], Append(mine[s], v), written[o])
    BY <2>1, <1>5, WrittenMore
  <2>3. Written(mine'[s], mine'[o], written'[s])
    BY <2>2, <1>3, <1>6, <1>10 DEF Written
  <2> QED BY <2>2, <2>3, <1>6
<1>15. NumbersOf(mine'[s], mine'[o], inverse'[s]) /\ NumbersOf(mine'[o], mine'[s], inverse'[o])
  <2>1. NumbersOf(mine[s], mine[o], inverse[s]) /\ NumbersOf(mine[o], mine[s], inverse[o])
    BY <1>1, InternFacts
  <2>2. /\ NumbersOf(Append(mine[s], v), mine[o], inverse[s])
        /\ NumbersOf(mine[o], Append(mine[s], v), inverse[o])
    BY <2>1, <1>5, WrittenMore
  <2>3. NumbersOf(mine'[s], mine'[o], inverse'[s])
    BY <2>2, <1>6, <1>10, <1>16 DEF NumbersOf
  <2> QED BY <2>2, <2>3, <1>6, <1>8
<1>17. \A r \in Side : reading'[r] # NoUse => uses'[r] # <<>>
  <2>1. \A r \in Side : reading[r] # NoUse => uses[r] # <<>>
    BY InternFacts
  <2>2. reading' = reading /\ uses' = uses
    OBVIOUS
  <2> QED BY <2>1, <2>2
<1> QED BY <1>1, <1>9, <1>11, <1>12, <1>13, <1>14, <1>15, <1>17, InternBoth

LEMMA WriteInternedStep ==
  ASSUME InternInv, NEW s \in Side, NEW v \in InternValues, WriteInterned(s, v)
  PROVE  InternInv'
<1>1. CASE v \in DOMAIN inverse[s]
  BY <1>1, WriteKnownStep DEF WriteInterned
<1>2. CASE v \notin DOMAIN inverse[s]
  <2>1. readRace' \in BOOLEAN
    BY <1>2 DEF WriteInterned
  <2> QED BY <2>1, <1>2, WriteNewStep DEF WriteInterned
<1> QED BY <1>1, <1>2

LEMMA SendUseStep ==
  ASSUME InternInv, NEW s \in Side, NEW u, SendUse(s, u)
  PROVE  InternInv'
<1>1. PICK o \in Side : o = Other(s) /\ o # s /\ Other(o) = s
  BY OtherSide
<1>2. /\ u \in written[s] /\ u \in UseMessages /\ u \in InternMessages
      /\ net' = [net EXCEPT ![o] = Append(@, u)]
      /\ written' = [written EXCEPT ![s] = @ \ {u}]
      /\ UNCHANGED <<mine, others, inverse, uses, reading, readRace>>
  BY <1>1, InternFacts DEF SendUse, Send, InternMessages
<1>3. /\ mine[s] \in Seq(InternValues) /\ mine[o] \in Seq(InternValues)
      /\ net[o] \in Seq(InternMessages) /\ Append(net[o], u) \in Seq(InternMessages)
  BY <1>1, <1>2, InternFacts, AppendFacts
<1>4. /\ net'[s] = net[s] /\ net'[o] = Append(net[o], u) /\ net' \in [Side -> Seq(InternMessages)]
      /\ written'[s] = written[s] \ {u} /\ written'[o] = written[o]
      /\ written' \in [Side -> SUBSET UseMessages]
  BY <1>1, <1>2, <1>3 DEF InternInv, InternTypeOK, InternMessages
<1>5. InternTypeOK'
  BY <1>2, <1>4 DEF InternInv, InternTypeOK, InternMessages
<1>6. Means(mine[s], mine[o], u.id, u.meant)
  BY <1>1, <1>2, InternFacts DEF Written
<1>7. Arrives(mine[s], mine[o], net'[o], others[o])
  <2>1. Arrives(mine[s], mine[o], net[o], others[o])
    BY <1>1, InternFacts
  <2>2. Arrives(mine[s], mine[o], Append(net[o], u), others[o])
    BY <2>1, <1>2, <1>3, <1>6, ArrivesUse
  <2> QED BY <2>2, <1>4
<1>8. Written(mine[s], mine[o], written'[s])
  BY <1>1, <1>4, InternFacts DEF Written
<1>9. /\ Arrives(mine[o], mine[s], net[s], others[s])
      /\ Readable(mine[s], mine[o], others[o], uses[o])
      /\ Readable(mine[o], mine[s], others[s], uses[s])
      /\ Written(mine[o], mine[s], written[o])
      /\ NumbersOf(mine[s], mine[o], inverse[s]) /\ NumbersOf(mine[o], mine[s], inverse[o])
  BY <1>1, InternFacts
<1>10. \A r \in Side : reading'[r] # NoUse => uses'[r] # <<>>
  <2>1. \A r \in Side : reading[r] # NoUse => uses[r] # <<>>
    BY InternFacts
  <2>2. reading' = reading /\ uses' = uses
    BY <1>2
  <2> QED BY <2>1, <2>2
<1> QED BY <1>1, <1>2, <1>4, <1>5, <1>7, <1>8, <1>9, <1>10, InternBoth

LEMMA FlipFacts ==
  ASSUME NEW k \in Nat
  PROVE  /\ Flip(2 * k) = 2 * k + 1 /\ Flip(2 * k + 1) = 2 * k
         /\ IsIndexOwned(2 * k) /\ ~IsIndexOwned(2 * k + 1)
         /\ (2 * k) \div 2 = k /\ (2 * k + 1) \div 2 = k
BY DEF Flip, IsIndexOwned

LEMMA SetInternedCorrespondenceStep ==
  ASSUME InternInv, NEW s \in Side, SetInternedCorrespondence(s)
  PROVE  InternInv'
<1>1. PICK o \in Side : o = Other(s) /\ o # s /\ Other(o) = s
  BY OtherSide
<1>2. /\ mine[s] \in Seq(InternValues) /\ mine[o] \in Seq(InternValues)
      /\ net[s] \in Seq(InternMessages) /\ net[s] # <<>> /\ Head(net[s]).kind = "value"
      /\ uses[s] \in Seq(UseMessages)
      /\ Tail(net[s]) \in Seq(InternMessages)
  BY <1>1, InternFacts, TailFacts DEF SetInternedCorrespondence
<1>3. PICK k \in 1..Len(mine[o]) : Head(net[s]) = Interned(2 * (k - 1), mine[o][k])
  <2>1. Arrives(mine[o], mine[s], net[s], others[s])
    BY <1>1, InternFacts
  <2>2. Head(net[s]) = net[s][1] /\ 1 \in 1..Len(net[s])
    BY <1>2, TailFacts
  <2> QED BY <2>1, <2>2, <1>2 DEF Arrives
<1>4. PICK n \in Nat, v \in InternValues :
        /\ n = k - 1 /\ v = mine[o][k] /\ Head(net[s]) = Interned(2 * n, v)
        /\ \A j \in 1..Len(mine[o]) : j - 1 = n => j = k
  <2>1. Len(mine[o]) \in Nat /\ k - 1 \in Nat /\ mine[o][k] \in InternValues
    BY <1>2
  <2>2. \A j \in 1..Len(mine[o]) : j - 1 = k - 1 => j = k
    BY <2>1
  <2> QED BY <2>1, <2>2, <1>3
<1>5. Head(net[s]).id = 2 * n /\ Head(net[s]).value = v
  BY <1>4 DEF Interned
<1>6. /\ others' = [others EXCEPT ![s] = Put(@, n, v)]
      /\ inverse' = [inverse EXCEPT ![s] = Put(@, v, 2 * n + 1)]
      /\ readRace' = (readRace \/ Reads(s, FALSE))
      /\ net' = [net EXCEPT ![s] = Tail(@)]
      /\ UNCHANGED <<mine, written, uses, reading>>
  BY <1>5, FlipFacts DEF SetInternedCorrespondence, Take
<1>7. /\ others'[s] = Put(others[s], n, v) /\ others'[o] = others[o]
      /\ others' = [r \in Side |-> others'[r]]
      /\ inverse'[s] = Put(inverse[s], v, 2 * n + 1) /\ inverse'[o] = inverse[o]
      /\ inverse' = [r \in Side |-> inverse'[r]]
      /\ net'[s] = Tail(net[s]) /\ net'[o] = net[o] /\ net' \in [Side -> Seq(InternMessages)]
  BY <1>1, <1>2, <1>6 DEF InternInv, InternTypeOK, InternMessages
<1>8. /\ DOMAIN others'[s] = DOMAIN others[s] \cup {n} /\ others'[s][n] = v
      /\ \A i \in DOMAIN others[s] : i # n => others'[s][i] = others[s][i]
      /\ DOMAIN inverse'[s] = DOMAIN inverse[s] \cup {v} /\ inverse'[s][v] = 2 * n + 1
      /\ \A x \in DOMAIN inverse[s] : x # v => inverse'[s][x] = inverse[s][x]
  BY <1>7 DEF Put
<1>9. InternTypeOK'
  <2>1. /\ DOMAIN inverse'[s] \subseteq InternValues
        /\ \A x \in DOMAIN inverse'[s] : inverse'[s][x] \in Nat
        /\ \A i \in DOMAIN others'[s] : i \in Nat /\ others'[s][i] \in InternValues
    <3>1. 2 * n + 1 \in Nat
      OBVIOUS
    <3> QED BY <3>1, <1>8, InternFacts
  <2>2. /\ DOMAIN inverse'[o] \subseteq InternValues
        /\ \A x \in DOMAIN inverse'[o] : inverse'[o][x] \in Nat
        /\ \A i \in DOMAIN others'[o] : i \in Nat /\ others'[o][i] \in InternValues
    BY <1>7, InternFacts
  <2>3. \A r \in Side : r = s \/ r = o
    BY <1>1, OtherSide
  <2>4. readRace' \in BOOLEAN
    BY <1>6
  <2> QED BY <2>1, <2>2, <2>3, <2>4, <1>6, <1>7 DEF InternInv, InternTypeOK, InternMessages
<1>10. \A i \in 1..Len(mine[o]) :
         Has(others[s], i - 1, mine[o][i]) \/ Head(net[s]) = Interned(2 * (i - 1), mine[o][i])
           => Has(others'[s], i - 1, mine[o][i])
  <2> SUFFICES ASSUME NEW i \in 1..Len(mine[o]),
                      \/ Has(others[s], i - 1, mine[o][i])
                      \/ Head(net[s]) = Interned(2 * (i - 1), mine[o][i])
               PROVE  Has(others'[s], i - 1, mine[o][i])
    OBVIOUS
  <2>1. CASE i - 1 = n
    BY <2>1, <1>4, <1>8 DEF Has
  <2>2. CASE i - 1 # n
    <3>1. ~(Head(net[s]) = Interned(2 * (i - 1), mine[o][i]))
      <4>1. Len(mine[o]) \in Nat /\ 2 * (i - 1) # 2 * n
        BY <2>2, <1>2
      <4> QED BY <4>1, <1>5 DEF Interned
    <3>2. Has(others[s], i - 1, mine[o][i])
      BY <3>1
    <3> QED BY <3>2, <2>2, <1>8 DEF Has
  <2> QED BY <2>1, <2>2
<1>11. Arrives(mine[o], mine[s], net'[s], others'[s])
  <2>1. Arrives(mine[o], mine[s], net[s], others[s])
    BY <1>1, InternFacts
  <2>2. Arrives(mine[o], mine[s], Tail(net[s]), others'[s])
    BY <2>1, <1>2, <1>10, ArrivesTail
  <2> QED BY <2>2, <1>7
<1>12. Readable(mine[o], mine[s], others'[s], uses[s])
  <2>1. Readable(mine[o], mine[s], others[s], uses[s])
    BY <1>1, InternFacts
  <2> QED BY <2>1, <1>10 DEF Readable
<1>13. Means(mine[s], mine[o], 2 * n + 1, v)
  BY <1>3, <1>4 DEF Means
<1>14. NumbersOf(mine[s], mine[o], inverse'[s])
  <2>1. NumbersOf(mine[s], mine[o], inverse[s])
    BY <1>1, InternFacts
  <2> QED BY <2>1, <1>8, <1>13 DEF NumbersOf
<1>15. /\ Arrives(mine[s], mine[o], net[o], others[o])
       /\ Readable(mine[s], mine[o], others[o], uses[o])
       /\ Written(mine[s], mine[o], written[s]) /\ Written(mine[o], mine[s], written[o])
       /\ NumbersOf(mine[o], mine[s], inverse[o])
  BY <1>1, InternFacts
<1>16. \A r \in Side : reading'[r] # NoUse => uses'[r] # <<>>
  <2>1. \A r \in Side : reading[r] # NoUse => uses[r] # <<>>
    BY InternFacts
  <2>2. reading' = reading /\ uses' = uses
    BY <1>6
  <2> QED BY <2>1, <2>2
<1> QED BY <1>1, <1>6, <1>7, <1>9, <1>11, <1>12, <1>14, <1>15, <1>16, InternBoth

LEMMA QueueUseStep ==
  ASSUME InternInv, NEW s \in Side, QueueUse(s)
  PROVE  InternInv'
<1>1. PICK o \in Side : o = Other(s) /\ o # s /\ Other(o) = s
  BY OtherSide
<1>2. /\ mine[s] \in Seq(InternValues) /\ mine[o] \in Seq(InternValues)
      /\ net[s] \in Seq(InternMessages) /\ net[s] # <<>> /\ Head(net[s]).kind = "use"
      /\ uses[s] \in Seq(UseMessages)
      /\ Tail(net[s]) \in Seq(InternMessages)
  BY <1>1, InternFacts, TailFacts DEF QueueUse
<1>3. /\ uses' = [uses EXCEPT ![s] = Append(@, Head(net[s]))]
      /\ net' = [net EXCEPT ![s] = Tail(@)]
      /\ UNCHANGED <<mine, others, inverse, written, reading, readRace>>
  BY DEF QueueUse, Take
<1>4. /\ Arrives(mine[o], mine[s], net[s], others[s])
      /\ Readable(mine[o], mine[s], others[s], uses[s])
  BY <1>1, InternFacts
<1>5. /\ Head(net[s]) \in UseMessages
      /\ Readable(mine[o], mine[s], others[s], Append(uses[s], Head(net[s])))
  BY <1>2, <1>4, ReadableUse
<1>6. /\ net'[s] = Tail(net[s]) /\ net'[o] = net[o] /\ net' \in [Side -> Seq(InternMessages)]
      /\ uses'[s] = Append(uses[s], Head(net[s])) /\ uses'[o] = uses[o]
      /\ uses' \in [Side -> Seq(UseMessages)]
  <2>1. Append(uses[s], Head(net[s])) \in Seq(UseMessages)
    BY <1>2, <1>5, AppendFacts
  <2> QED BY <2>1, <1>1, <1>2, <1>3 DEF InternInv, InternTypeOK, InternMessages
<1>7. InternTypeOK'
  BY <1>3, <1>6 DEF InternInv, InternTypeOK, InternMessages
<1>8. Arrives(mine[o], mine[s], Tail(net[s]), others[s])
  <2>1. \A k \in 1..Len(mine[o]) : Head(net[s]) # Interned(2 * (k - 1), mine[o][k])
    BY <1>2 DEF Interned
  <2> QED BY <2>1, <1>2, <1>4, ArrivesTail
<1>9. /\ Arrives(mine[s], mine[o], net[o], others[o])
      /\ Readable(mine[s], mine[o], others[o], uses[o])
      /\ Written(mine[s], mine[o], written[s]) /\ Written(mine[o], mine[s], written[o])
      /\ NumbersOf(mine[s], mine[o], inverse[s]) /\ NumbersOf(mine[o], mine[s], inverse[o])
  BY <1>1, InternFacts
<1>10. \A r \in Side : reading'[r] # NoUse => uses'[r] # <<>>
  <2>1. uses'[s] # <<>>
    <3>1. \A x \in UseMessages : Append(uses[s], x) # <<>>
      BY <1>2, AppendFacts
    <3> QED BY <3>1, <1>5, <1>6
  <2> QED BY <2>1, <1>1, <1>3, <1>6, InternFacts, OtherSide
<1> QED BY <1>1, <1>3, <1>5, <1>6, <1>7, <1>8, <1>9, <1>10, InternBoth

LEMMA UnInternValueStep ==
  ASSUME InternInv, NEW s \in Side, UnInternValue(s)
  PROVE  InternInv'
<1>1. PICK o \in Side : o = Other(s) /\ o # s /\ Other(o) = s
  BY OtherSide
<1>2. CASE /\ reading[s] = NoUse /\ uses[s] # <<>>
           /\ reading' = [reading EXCEPT ![s] = [Head(uses[s]) EXCEPT !.id = Flip(@)]]
           /\ UNCHANGED <<net, mine, others, inverse, written, uses, readRace>>
  <2>1. InternTypeOK'
    BY <1>2 DEF InternInv, InternTypeOK
  <2>2. \A r \in Side : r = s \/ reading'[r] = reading[r]
    BY <1>2 DEF InternInv, InternTypeOK
  <2>3. \A r \in Side : reading'[r] # NoUse => uses[r] # <<>>
    BY <2>2, <1>2 DEF InternInv
  <2> QED BY <2>1, <2>3, <1>2 DEF InternInv
<1>3. CASE /\ reading[s] # NoUse
           /\ reading' = [reading EXCEPT ![s] = NoUse]
           /\ uses' = [uses EXCEPT ![s] = Tail(@)]
           /\ UNCHANGED <<net, mine, others, inverse, written, readRace>>
  <2>1. /\ mine[s] \in Seq(InternValues) /\ mine[o] \in Seq(InternValues)
        /\ uses[s] \in Seq(UseMessages) /\ uses[s] # <<>> /\ Tail(uses[s]) \in Seq(UseMessages)
    BY <1>1, <1>3, InternFacts, TailFacts
  <2>2. /\ uses'[s] = Tail(uses[s]) /\ uses'[o] = uses[o] /\ uses' \in [Side -> Seq(UseMessages)]
        /\ reading'[s] = NoUse /\ reading'[o] = reading[o]
        /\ reading' = [r \in Side |-> reading'[r]]
    BY <2>1, <1>1, <1>3 DEF InternInv, InternTypeOK
  <2>3. InternTypeOK'
    BY <2>2, <1>3 DEF InternInv, InternTypeOK
  <2>4. /\ Arrives(mine[s], mine[o], net[o], others[o])
        /\ Arrives(mine[o], mine[s], net[s], others[s])
        /\ Readable(mine[s], mine[o], others[o], uses[o])
        /\ Readable(mine[o], mine[s], others[s], uses[s])
        /\ Written(mine[s], mine[o], written[s]) /\ Written(mine[o], mine[s], written[o])
        /\ NumbersOf(mine[s], mine[o], inverse[s]) /\ NumbersOf(mine[o], mine[s], inverse[o])
    BY <1>1, InternFacts
  <2>5. Readable(mine[o], mine[s], others[s], Tail(uses[s]))
    BY <2>1, <2>4, ReadableTail
  <2>6. \A r \in Side : reading'[r] # NoUse => uses'[r] # <<>>
    BY <2>2, <1>1, InternFacts, OtherSide
  <2> QED BY <2>2, <2>3, <2>4, <2>5, <2>6, <1>1, <1>3, InternBoth
<1> QED BY <1>2, <1>3 DEF UnInternValue

LEMMA InternStep == InternInv /\ InternNext => InternInv'
BY WriteInternedStep, SendUseStep, SetInternedCorrespondenceStep, QueueUseStep,
   UnInternValueStep DEF InternNext

\* Every number a peer sends stands for a value that it or the reader has numbered, and
\* its own value the reader has, or it is on its way before the number.
THEOREM InternInvariance == Spec => []InternPart
<1>1. Init => InternPart
  <2> SUFFICES ASSUME Init PROVE InternPart
    OBVIOUS
  <2>1. InternInit /\ Len(<<>>) = 0 /\ 1..0 = {} /\ DOMAIN <<>> = {}
    BY DEF Init
  <2>2. /\ <<>> \in Seq(UseMessages \cup ValueMessages) /\ <<>> \in Seq(InternValues)
        /\ <<>> \in Seq(UseMessages)
    OBVIOUS
  <2>3. InternTypeOK
    BY <2>1, <2>2 DEF InternInit, NetInit, InternTypeOK
  <2>4. \A s \in Side : reading[s] = NoUse
    BY <2>1 DEF InternInit
  <2>5. \A s \in Side : /\ mine[s] = <<>> /\ mine[Other(s)] = <<>> /\ net[Other(s)] = <<>>
                        /\ others[Other(s)] = <<>> /\ uses[Other(s)] = <<>>
                        /\ written[s] = {} /\ inverse[s] = <<>>
    BY <2>1, OtherSide DEF InternInit, NetInit
  <2>6. /\ Arrives(<<>>, <<>>, <<>>, <<>>) /\ Readable(<<>>, <<>>, <<>>, <<>>)
        /\ Written(<<>>, <<>>, {}) /\ NumbersOf(<<>>, <<>>, <<>>)
    BY <2>1 DEF Arrives, Readable, Written, NumbersOf
  <2>7. InternInv
    BY <2>3, <2>4, <2>5, <2>6 DEF InternInv
  <2> QED BY <2>7, <2>1 DEF InternPart, InternUnused, InternInit
<1>2. InternInv /\ [InternNext]_internVars => InternInv'
  <2>1. InternInv /\ UNCHANGED internVars => InternInv'
    BY DEF internVars, InternInv, InternTypeOK
  <2> QED BY <2>1, InternStep
<1>3. InternPart /\ [Next]_vars => InternPart'
  BY <1>2, StepOfParts DEF InternPart, InternUnused, internOnly
<1> QED BY <1>1, <1>3, PTL DEF Spec

\* InternedRead: a number is read as the value it was written for.
THEOREM InternedIsRead == Spec => []InternedRead
<1>1. ASSUME InternInv, NEW s \in Side, NEW i \in DOMAIN uses[s]
      PROVE  Finds(s, Flip(uses[s][i].id)) = {uses[s][i].meant}
  <2>1. PICK o \in Side : o = Other(s) /\ o # s /\ Other(o) = s
    BY OtherSide
  <2>2. PICK id, v : id = uses[s][i].id /\ v = uses[s][i].meant
    OBVIOUS
  <2>3. /\ uses[s] \in Seq(UseMessages) /\ i \in 1..Len(uses[s])
        /\ mine[s] \in Seq(InternValues) /\ mine[o] \in Seq(InternValues)
        /\ Readable(mine[o], mine[s], others[s], uses[s])
    BY <1>1, <2>1, InternFacts
  <2>4. /\ Means(mine[o], mine[s], id, v)
        /\ \A k \in 1..Len(mine[o]) : id = 2 * (k - 1) => Has(others[s], k - 1, mine[o][k])
    BY <2>2, <2>3 DEF Readable
  <2>5. ASSUME NEW k \in 1..Len(mine[o]), id = 2 * (k - 1), mine[o][k] = v
        PROVE  Finds(s, Flip(id)) = {v}
    <3>1. PICK n \in Nat : n = k - 1 /\ id = 2 * n
      BY <2>3, <2>5
    <3>2. /\ Flip(id) = 2 * n + 1 /\ ~IsIndexOwned(2 * n + 1) /\ (2 * n + 1) \div 2 = n
      BY <3>1, FlipFacts
    <3>3. n \in DOMAIN others[s] /\ others[s][n] = v
      BY <2>4, <2>5, <3>1 DEF Has
    <3> QED BY <3>2, <3>3 DEF Finds
  <2>6. ASSUME NEW k \in 1..Len(mine[s]), id = 2 * (k - 1) + 1, mine[s][k] = v
        PROVE  Finds(s, Flip(id)) = {v}
    <3>1. PICK n \in Nat : n = k - 1 /\ id = 2 * n + 1 /\ n + 1 = k /\ n < Len(mine[s])
      BY <2>3, <2>6
    <3>2. /\ Flip(id) = 2 * n /\ IsIndexOwned(2 * n) /\ (2 * n) \div 2 = n
      BY <3>1, FlipFacts
    <3> QED BY <3>1, <3>2, <2>6 DEF Finds
  <2> QED BY <2>2, <2>4, <2>5, <2>6 DEF Means
<1>2. InternPart => InternedRead
  <2>1. CASE InternInv
    BY <2>1, <1>1 DEF InternedRead
  <2>2. CASE InternUnused
    <3>1. DOMAIN <<>> = {}
      OBVIOUS
    <3> QED BY <3>1, <2>2 DEF InternUnused, InternedRead
  <2> QED BY <2>1, <2>2 DEF InternPart
<1> QED BY <1>2, InternInvariance, PTL

-----------------------------------------------------------------------------
\* EditorLink

RequestTasks == [do : {"request"}, of : Nat, id : RequestId]
ReplyTasks == [do : {"reply"}, of : Nat, id : RequestId]
FireTasks == [do : {"fire"}, of : Nat, states : Seq(PlayState) \ {<<>>}]
OtherTasks == [do : {"connect", "uninitialized"}, of : Nat] \cup [do : {"disconnect", "view"}]
Tasks == RequestTasks \cup ReplyTasks \cup FireTasks \cup OtherTasks

\* The connections of q are those after m, up to c, in the order they were made in.
Connects(q, m, c) ==
  /\ \A i \in 1..Len(q) : q[i].do = "connect" => q[i].of \in m+1 .. c
  /\ \A i, j \in 1..Len(q) :
       i < j /\ q[i].do = "connect" /\ q[j].do = "connect" => q[i].of < q[j].of

NoConnect(q) == \A i \in 1..Len(q) : q[i].do # "connect"

\* A disconnection is queued, and no connection before it.
Disconnects(q) ==
  \E i \in 1..Len(q) : q[i].do = "disconnect" /\ \A j \in 1..Len(q) : j < i => q[j].do # "connect"

\* The reports of q are of controls up to that of m.
FiresUpTo(q, m) == \A i \in 1..Len(q) : q[i].do = "fire" => q[i].of \in 1..m

FiredBy(t, c) == t.do = "fire" /\ t.of = c

\* The last report of c, on its way or made, is of the play state p.
Tells(q, c, sh, p) ==
  /\ \A i \in 1..Len(q) :
       FiredBy(q[i], c) /\ (\A j \in 1..Len(q) : i < j => ~FiredBy(q[j], c))
         => q[i].states[Len(q[i].states)] = p
  /\ (\A i \in 1..Len(q) : ~FiredBy(q[i], c)) => (sh[1] = c => sh[2] = p)

Carries(t, r) == t.do \in {"request", "reply"} /\ t.id = r
Holds(q, r) == \E i \in 1..Len(q) : Carries(q[i], r)
Single(q, r) == \A i, j \in 1..Len(q) : Carries(q[i], r) /\ Carries(q[j], r) => i = j

\* A request is in one place at most.
OnePlace(q, u, n, r) ==
  /\ n \in 0..1 /\ Single(q, r) /\ Single(u, r)
  /\ Holds(q, r) => ~Holds(u, r) /\ n = 0
  /\ Holds(u, r) => n = 0

LinkTypes ==
  /\ tasks \in Seq(Tasks) /\ asyncTasks \in Seq(RequestTasks)
  /\ connection \in 0..MaxConnections /\ model \in 0..connection
  /\ subscribed \in {0, model} /\ control \in {0, subscribed}
  /\ live \in BOOLEAN /\ watched \in BOOLEAN
  /\ step \in {"idle", "connecting", "watched", "crashed"}
  /\ alive \in {"unset", "yes", "no"}
  /\ viewing \in {"no", "queued", "yes", "shut"}
  /\ playState \in PlayState /\ shown \in (0..model) \X PlayState
  /\ events \in 0..MaxEvents

\* While the model is said to be alive, or is about to be, its connection is the last one
\* and will queue its end, or has.
WillEnd ==
  alive = "yes" \/ step = "watched" =>
    Disconnects(tasks) \/ (live /\ connection = model /\ watched /\ NoConnect(tasks))

\* A model that is being made is news to everyone.
NewModel ==
  step \in {"connecting", "watched"} =>
    /\ alive # "yes" /\ subscribed = 0 /\ model > 0 /\ shown[1] < model
    /\ FiresUpTo(tasks, model - 1)

NotViewing ==
  viewing \in {"no", "queued"} =>
    subscribed = 0 /\ shown[1] = 0 /\ FiresUpTo(tasks, 0)

LinkInv ==
  /\ LinkTypes
  /\ Connects(tasks, model, connection) /\ FiresUpTo(tasks, model)
  /\ alive = "yes" => model > 0
  /\ subscribed # 0 => alive = "yes"
  /\ WillEnd /\ NewModel /\ NotViewing
  /\ control # 0 /\ Live(control) => Tells(tasks, control, shown, playState)
  /\ replies = [r \in RequestId |-> replies[r]]
  /\ \A r \in RequestId : OnePlace(tasks, asyncTasks, replies[r], r)

LinkUnused ==
  /\ subscribed = 0 /\ control = 0

LinkPart == IF busy = "link" THEN LinkInv ELSE LinkUnused

LEMMA TaskFacts ==
  /\ \A t \in Tasks :
       /\ t.do = "connect" => t.of \in Nat
       /\ t.do = "fire" => t.of \in Nat /\ t.states \in Seq(PlayState) \ {<<>>}
       /\ t.do = "request" => t \in RequestTasks /\ t.of \in Nat /\ t.id \in RequestId
       /\ t.do = "reply" => t.id \in RequestId
       /\ t.do \in {"connect", "disconnect", "view", "request", "fire", "reply", "uninitialized"}
  /\ \A t \in RequestTasks : t \in Tasks /\ t.do = "request" /\ t.of \in Nat /\ t.id \in RequestId
<1>1. \A t \in RequestTasks : /\ t \in Tasks /\ t.do = "request"
                              /\ t.of \in Nat /\ t.id \in RequestId
  BY DEF Tasks, RequestTasks
<1>2. \A t \in ReplyTasks : t.do = "reply" /\ t.id \in RequestId
  BY DEF ReplyTasks
<1>3. \A t \in FireTasks : t.do = "fire" /\ t.of \in Nat /\ t.states \in Seq(PlayState) \ {<<>>}
  BY DEF FireTasks
<1>4. \A t \in OtherTasks : /\ t.do \in {"connect", "disconnect", "view", "uninitialized"}
                            /\ t.do = "connect" => t.of \in Nat
  BY DEF OtherTasks
<1> QED BY <1>1, <1>2, <1>3, <1>4 DEF Tasks

\* A task is queued.
LEMMA QueueTask ==
  ASSUME NEW q \in Seq(Tasks), NEW t \in Tasks, NEW m \in Nat, NEW c \in Nat
  PROVE  /\ Append(q, t) \in Seq(Tasks)
         /\ Disconnects(q) => Disconnects(Append(q, t))
         /\ NoConnect(q) /\ t.do = "disconnect" => Disconnects(Append(q, t))
         /\ NoConnect(q) /\ t.do # "connect" => NoConnect(Append(q, t))
         /\ Connects(q, m, c) /\ t.do # "connect" => Connects(Append(q, t), m, c)
         /\ Connects(q, m, c) /\ m <= c /\ t.do = "connect" /\ t.of = c + 1
              => Connects(Append(q, t), m, c + 1)
         /\ FiresUpTo(q, m) /\ (t.do = "fire" => t.of \in 1..m) => FiresUpTo(Append(q, t), m)
<1>1. PICK n \in Nat, w \in Seq(Tasks) :
        /\ n = Len(q) /\ w = Append(q, t) /\ Len(w) = n + 1 /\ w[n + 1] = t
        /\ \A i \in 1..n : w[i] = q[i]
  <2>1. /\ Append(q, t) \in Seq(Tasks) /\ Len(q) \in Nat
        /\ Len(Append(q, t)) = Len(q) + 1 /\ Append(q, t)[Len(q) + 1] = t
        /\ \A i \in 1..Len(q) : Append(q, t)[i] = q[i]
    BY AppendFacts
  <2> QED BY <2>1
<1>2. /\ \A i \in 1..(n + 1) : i \in 1..n \/ i = n + 1
      /\ \A i \in 1..n : i \in 1..(n + 1) /\ i < n + 1 /\ ~(n + 1 < i)
      /\ n + 1 \in 1..(n + 1) /\ ~(n + 1 < n + 1)
  OBVIOUS
<1>3. Disconnects(q) => Disconnects(w)
  <2> SUFFICES ASSUME NEW i \in 1..n, q[i].do = "disconnect",
                      \A j \in 1..n : j < i => q[j].do # "connect"
               PROVE  Disconnects(w)
    BY <1>1 DEF Disconnects
  <2>1. \A j \in 1..(n + 1) : j < i => w[j].do # "connect"
    BY <1>1, <1>2
  <2> QED BY <2>1, <1>1, <1>2 DEF Disconnects
<1>4. NoConnect(q) /\ t.do = "disconnect" => Disconnects(w)
  <2> SUFFICES ASSUME \A i \in 1..n : q[i].do # "connect", t.do = "disconnect"
               PROVE  Disconnects(w)
    BY <1>1 DEF NoConnect
  <2>1. \A j \in 1..(n + 1) : j < n + 1 => w[j].do # "connect"
    BY <1>1, <1>2
  <2> QED BY <2>1, <1>1, <1>2 DEF Disconnects
<1>5. NoConnect(q) /\ t.do # "connect" => NoConnect(w)
  BY <1>1, <1>2 DEF NoConnect
<1>6. Connects(q, m, c) /\ t.do # "connect" => Connects(w, m, c)
  BY <1>1, <1>2 DEF Connects
<1>7. Connects(q, m, c) /\ m <= c /\ t.do = "connect" /\ t.of = c + 1 => Connects(w, m, c + 1)
  <2> SUFFICES ASSUME Connects(q, m, c), m <= c, t.of = c + 1, t.do = "connect"
               PROVE  Connects(w, m, c + 1)
    OBVIOUS
  <2>1. \A i \in 1..n : q[i].do = "connect" => q[i].of \in m+1 .. c+1 /\ q[i].of < c + 1
    BY <1>1 DEF Connects
  <2>2. c + 1 \in m+1 .. c+1
    OBVIOUS
  <2>3. \A i \in 1..(n + 1) : w[i].do = "connect" => w[i].of \in m+1 .. c+1
    BY <2>1, <2>2, <1>1, <1>2
  <2>4. \A i, j \in 1..(n + 1) :
          i < j /\ w[i].do = "connect" /\ w[j].do = "connect" => w[i].of < w[j].of
    BY <2>1, <1>1, <1>2 DEF Connects
  <2> QED BY <2>3, <2>4, <1>1 DEF Connects
<1>8. FiresUpTo(q, m) /\ (t.do = "fire" => t.of \in 1..m) => FiresUpTo(w, m)
  BY <1>1, <1>2 DEF FiresUpTo
<1> QED BY <1>1, <1>3, <1>4, <1>5, <1>6, <1>7, <1>8

LEMMA QueueReport ==
  ASSUME NEW q \in Seq(Tasks), NEW t \in Tasks, NEW c, NEW sh, NEW p, NEW x, Tells(q, c, sh, p)
  PROVE  /\ ~FiredBy(t, c) => Tells(Append(q, t), c, sh, p)
         /\ FiredBy(t, c) /\ t.states[Len(t.states)] = x => Tells(Append(q, t), c, sh, x)
<1>1. PICK n \in Nat, w \in Seq(Tasks) :
        /\ n = Len(q) /\ w = Append(q, t) /\ Len(w) = n + 1 /\ w[n + 1] = t
        /\ \A i \in 1..n : w[i] = q[i]
  <2>1. /\ Append(q, t) \in Seq(Tasks) /\ Len(q) \in Nat
        /\ Len(Append(q, t)) = Len(q) + 1 /\ Append(q, t)[Len(q) + 1] = t
        /\ \A i \in 1..Len(q) : Append(q, t)[i] = q[i]
    BY AppendFacts
  <2> QED BY <2>1
<1>2. /\ \A i \in 1..(n + 1) : i \in 1..n \/ i = n + 1
      /\ \A i \in 1..n : i \in 1..(n + 1) /\ i < n + 1
      /\ n + 1 \in 1..(n + 1)
  OBVIOUS
<1>3. ASSUME ~FiredBy(t, c) PROVE Tells(w, c, sh, p)
  <2>1. ASSUME NEW i \in 1..(n + 1), FiredBy(w[i], c),
               \A j \in 1..(n + 1) : i < j => ~FiredBy(w[j], c)
        PROVE  w[i].states[Len(w[i].states)] = p
    <3>1. i \in 1..n /\ w[i] = q[i]
      BY <2>1, <1>1, <1>2, <1>3
    <3>2. \A j \in 1..n : i < j => ~FiredBy(q[j], c)
      BY <2>1, <1>1, <1>2
    <3> QED BY <3>1, <3>2, <2>1, <1>1 DEF Tells
  <2>2. (\A i \in 1..(n + 1) : ~FiredBy(w[i], c)) => (\A i \in 1..n : ~FiredBy(q[i], c))
    BY <1>1, <1>2
  <2> QED BY <2>1, <2>2, <1>1 DEF Tells
<1>4. ASSUME FiredBy(t, c), t.states[Len(t.states)] = x PROVE Tells(w, c, sh, x)
  <2>1. ASSUME NEW i \in 1..(n + 1), \A j \in 1..(n + 1) : i < j => ~FiredBy(w[j], c)
        PROVE  w[i] = t
    BY <2>1, <1>1, <1>2, <1>4
  <2>2. ~\A i \in 1..(n + 1) : ~FiredBy(w[i], c)
    BY <1>1, <1>2, <1>4
  <2> QED BY <2>1, <2>2, <1>1, <1>4 DEF Tells
<1> QED BY <1>1, <1>3, <1>4

\* The oldest task is run.
LEMMA RunTask ==
  ASSUME NEW q \in Seq(Tasks), q # <<>>, NEW m \in Nat, NEW c \in Nat
  PROVE  /\ Tail(q) \in Seq(Tasks) /\ Head(q) \in Tasks
         /\ Disconnects(q) /\ Head(q).do # "disconnect"
              => Disconnects(Tail(q)) /\ Head(q).do # "connect"
         /\ NoConnect(q) => NoConnect(Tail(q)) /\ Head(q).do # "connect"
         /\ Connects(q, m, c) => Connects(Tail(q), m, c)
         /\ Connects(q, m, c) /\ Head(q).do = "connect"
              => Head(q).of \in m+1 .. c /\ Connects(Tail(q), Head(q).of, c)
         /\ FiresUpTo(q, m) => FiresUpTo(Tail(q), m)
         /\ FiresUpTo(q, m) /\ Head(q).do = "fire" => Head(q).of \in 1..m
<1>1. PICK w \in Seq(Tasks), l \in Nat, h \in Tasks :
        /\ w = Tail(q) /\ Len(w) = l /\ Len(q) = l + 1 /\ Head(q) = h /\ h = q[1]
        /\ \A i \in 1..l : w[i] = q[i + 1]
  <2>1. /\ Tail(q) \in Seq(Tasks) /\ Len(Tail(q)) = Len(q) - 1 /\ Len(q) - 1 \in Nat
        /\ Len(q) = (Len(q) - 1) + 1 /\ Head(q) = q[1] /\ Head(q) \in Tasks
        /\ \A i \in 1..(Len(q) - 1) : Tail(q)[i] = q[i + 1]
    BY TailFacts
  <2> QED BY <2>1
<1>2. /\ \A i \in 1..(l + 1) : i = 1 \/ i - 1 \in 1..l
      /\ \A i \in 1..(l + 1) : i # 1 => w[i - 1] = q[i] /\ i - 1 \in 1..l
      /\ \A i \in 1..l : i + 1 \in 1..(l + 1)
      /\ 1 \in 1..(l + 1)
  <2>1. \A i \in 1..(l + 1) : i = 1 \/ (i - 1 \in 1..l /\ (i - 1) + 1 = i)
    OBVIOUS
  <2>2. (\A i \in 1..l : i + 1 \in 1..(l + 1)) /\ 1 \in 1..(l + 1)
    OBVIOUS
  <2> QED BY <2>1, <2>2, <1>1
<1>3. ASSUME Disconnects(q), h.do # "disconnect"
      PROVE  Disconnects(w) /\ h.do # "connect"
  <2>1. PICK i \in 1..(l + 1) : /\ q[i].do = "disconnect"
                                /\ \A j \in 1..(l + 1) : j < i => q[j].do # "connect"
    BY <1>1, <1>3 DEF Disconnects
  <2>2. i # 1 /\ i - 1 \in 1..l /\ w[i - 1] = q[i]
    BY <2>1, <1>1, <1>2, <1>3
  <2>3. \A j \in 1..l : j < i - 1 => w[j].do # "connect"
    <3>1. \A j \in 1..l : j < i - 1 => j + 1 < i
      OBVIOUS
    <3> QED BY <3>1, <2>1, <1>1, <1>2
  <2>4. 1 < i
    BY <2>2
  <2> QED BY <2>1, <2>2, <2>3, <2>4, <1>1, <1>2 DEF Disconnects
<1>4. NoConnect(q) => NoConnect(w) /\ h.do # "connect"
  BY <1>1, <1>2 DEF NoConnect
<1>5. ASSUME Connects(q, m, c)
      PROVE  /\ Connects(w, m, c)
             /\ h.do = "connect" => h.of \in m+1 .. c /\ Connects(w, h.of, c)
  BY <1>1, <1>2, <1>5 DEF Connects
<1>6. FiresUpTo(q, m) => FiresUpTo(w, m) /\ (h.do = "fire" => h.of \in 1..m)
  BY <1>1, <1>2 DEF FiresUpTo
<1> QED BY <1>1, <1>3, <1>4, <1>5, <1>6

LEMMA RunReport ==
  ASSUME NEW q \in Seq(Tasks), q # <<>>, NEW c, NEW sh, NEW p, Tells(q, c, sh, p)
  PROVE  /\ ~FiredBy(Head(q), c) => Tells(Tail(q), c, sh, p)
         /\ FiredBy(Head(q), c) => Tells(Tail(q), c, <<c, Head(q).states[Len(Head(q).states)]>>, p)
         /\ \A x, y : ~FiredBy(Head(q), c) /\ x # c => Tells(Tail(q), c, <<x, y>>, p)
<1>1. PICK w \in Seq(Tasks), l \in Nat, h \in Tasks :
        /\ w = Tail(q) /\ Len(w) = l /\ Len(q) = l + 1 /\ Head(q) = h /\ h = q[1]
        /\ \A i \in 1..l : w[i] = q[i + 1]
  <2>1. /\ Tail(q) \in Seq(Tasks) /\ Len(Tail(q)) = Len(q) - 1 /\ Len(q) - 1 \in Nat
        /\ Len(q) = (Len(q) - 1) + 1 /\ Head(q) = q[1] /\ Head(q) \in Tasks
        /\ \A i \in 1..(Len(q) - 1) : Tail(q)[i] = q[i + 1]
    BY TailFacts
  <2> QED BY <2>1
<1>2. /\ \A i \in 1..(l + 1) : i = 1 \/ (i - 1 \in 1..l /\ (i - 1) + 1 = i)
      /\ \A i \in 1..l : i + 1 \in 1..(l + 1)
      /\ 1 \in 1..(l + 1)
  OBVIOUS
<1>3. \A i \in 1..(l + 1) : i = 1 \/ (i - 1 \in 1..l /\ w[i - 1] = q[i])
  BY <1>1, <1>2
<1>4. ASSUME NEW i \in 1..l, FiredBy(w[i], c), \A j \in 1..l : i < j => ~FiredBy(w[j], c)
      PROVE  w[i].states[Len(w[i].states)] = p
  <2>1. \A j \in 1..(l + 1) : i + 1 < j => ~FiredBy(q[j], c)
    <3>1. \A j \in 1..(l + 1) : i + 1 < j => j # 1 /\ i < j - 1
      OBVIOUS
    <3> QED BY <3>1, <1>3, <1>4
  <2>2. i + 1 \in 1..(l + 1) /\ w[i] = q[i + 1]
    BY <1>1, <1>2
  <2> QED BY <2>1, <2>2, <1>1, <1>4 DEF Tells
<1>5. ASSUME \A i \in 1..l : ~FiredBy(w[i], c)
      PROVE  /\ FiredBy(h, c) => h.states[Len(h.states)] = p
             /\ ~FiredBy(h, c) => (sh[1] = c => sh[2] = p)
  <2>1. \A j \in 1..(l + 1) : 1 < j => ~FiredBy(q[j], c)
    <3>1. \A j \in 1..(l + 1) : 1 < j => j # 1
      OBVIOUS
    <3> QED BY <3>1, <1>3, <1>5
  <2>2. FiredBy(h, c) => h.states[Len(h.states)] = p
    BY <2>1, <1>1, <1>2 DEF Tells
  <2>3. ~FiredBy(h, c) => \A i \in 1..(l + 1) : ~FiredBy(q[i], c)
    BY <1>1, <1>3, <1>5
  <2> QED BY <2>2, <2>3, <1>1 DEF Tells
<1>6. \A x, y : <<x, y>>[1] = x /\ <<x, y>>[2] = y
  OBVIOUS
<1> QED BY <1>1, <1>4, <1>5, <1>6 DEF Tells

\* The requests of two queues.
LEMMA QueueRequest ==
  ASSUME NEW q \in Seq(Tasks), NEW t \in Tasks, NEW r
  PROVE  /\ Holds(Append(q, t), r) <=> (Holds(q, r) \/ Carries(t, r))
         /\ Single(q, r) /\ ~(Holds(q, r) /\ Carries(t, r)) => Single(Append(q, t), r)
<1>1. PICK n \in Nat, w \in Seq(Tasks) :
        /\ n = Len(q) /\ w = Append(q, t) /\ Len(w) = n + 1 /\ w[n + 1] = t
        /\ \A i \in 1..n : w[i] = q[i]
  <2>1. /\ Append(q, t) \in Seq(Tasks) /\ Len(q) \in Nat
        /\ Len(Append(q, t)) = Len(q) + 1 /\ Append(q, t)[Len(q) + 1] = t
        /\ \A i \in 1..Len(q) : Append(q, t)[i] = q[i]
    BY AppendFacts
  <2> QED BY <2>1
<1>2. /\ \A i \in 1..(n + 1) : i \in 1..n \/ i = n + 1
      /\ \A i \in 1..n : i \in 1..(n + 1)
      /\ n + 1 \in 1..(n + 1)
  OBVIOUS
<1>3. Holds(w, r) <=> (Holds(q, r) \/ Carries(t, r))
  BY <1>1, <1>2 DEF Holds
<1>4. Single(q, r) /\ ~(Holds(q, r) /\ Carries(t, r)) => Single(w, r)
  BY <1>1, <1>2 DEF Holds, Single
<1> QED BY <1>1, <1>3, <1>4

LEMMA RunRequestFacts ==
  ASSUME NEW q \in Seq(Tasks), q # <<>>, NEW r
  PROVE  /\ Holds(q, r) <=> (Holds(Tail(q), r) \/ Carries(Head(q), r))
         /\ Single(q, r) => Single(Tail(q), r) /\ ~(Holds(Tail(q), r) /\ Carries(Head(q), r))
<1>1. PICK w \in Seq(Tasks), l \in Nat, h \in Tasks :
        /\ w = Tail(q) /\ Len(w) = l /\ Len(q) = l + 1 /\ Head(q) = h /\ h = q[1]
        /\ \A i \in 1..l : w[i] = q[i + 1]
  <2>1. /\ Tail(q) \in Seq(Tasks) /\ Len(Tail(q)) = Len(q) - 1 /\ Len(q) - 1 \in Nat
        /\ Len(q) = (Len(q) - 1) + 1 /\ Head(q) = q[1] /\ Head(q) \in Tasks
        /\ \A i \in 1..(Len(q) - 1) : Tail(q)[i] = q[i + 1]
    BY TailFacts
  <2> QED BY <2>1
<1>2. /\ \A i \in 1..(l + 1) : i = 1 \/ (i - 1 \in 1..l /\ (i - 1) + 1 = i)
      /\ \A i \in 1..l : i + 1 \in 1..(l + 1) /\ i + 1 # 1
      /\ \A i, j \in 1..l : i + 1 = j + 1 => i = j
      /\ 1 \in 1..(l + 1)
  OBVIOUS
<1>3. Holds(q, r) <=> (Holds(w, r) \/ Carries(h, r))
  BY <1>1, <1>2 DEF Holds
<1>4. Single(q, r) => Single(w, r) /\ ~(Holds(w, r) /\ Carries(h, r))
  BY <1>1, <1>2 DEF Holds, Single
<1> QED BY <1>1, <1>3, <1>4

\* What the invariant says of a queue q holds of w.
KeepsEnd(q, w) ==
  /\ w \in Seq(Tasks)
  /\ Disconnects(q) => Disconnects(w)
  /\ NoConnect(q) => NoConnect(w)
  /\ \A m, c \in Nat : Connects(q, m, c) => Connects(w, m, c)
  /\ \A m \in Nat : FiresUpTo(q, m) => FiresUpTo(w, m)
KeepsReports(q, w) == \A c, sh, p : Tells(q, c, sh, p) => Tells(w, c, sh, p)
KeepsRequests(q, w) ==
  \A r \in RequestId : (Holds(w, r) <=> Holds(q, r)) /\ (Single(q, r) => Single(w, r))

LEMMA KeptByQueueing ==
  ASSUME NEW q \in Seq(Tasks), NEW t \in Tasks
  PROVE  /\ t.do \notin {"connect", "fire"} => KeepsEnd(q, Append(q, t))
         /\ t.do # "fire" => KeepsReports(q, Append(q, t))
         /\ t.do \notin {"request", "reply"} => KeepsRequests(q, Append(q, t))
<1>1. t.do \notin {"connect", "fire"} => KeepsEnd(q, Append(q, t))
  BY QueueTask DEF KeepsEnd
<1>2. t.do # "fire" => KeepsReports(q, Append(q, t))
  BY QueueReport DEF KeepsReports, FiredBy
<1>3. t.do \notin {"request", "reply"} => KeepsRequests(q, Append(q, t))
  BY QueueRequest DEF KeepsRequests, Carries
<1> QED BY <1>1, <1>2, <1>3

LEMMA KeptByRunning ==
  ASSUME NEW q \in Seq(Tasks), q # <<>>
  PROVE  /\ Head(q).do \notin {"connect", "disconnect"} => KeepsEnd(q, Tail(q))
         /\ Head(q).do # "fire" => KeepsReports(q, Tail(q))
         /\ Head(q).do \notin {"request", "reply"} => KeepsRequests(q, Tail(q))
<1>1. Head(q).do \notin {"connect", "disconnect"} => KeepsEnd(q, Tail(q))
  BY RunTask DEF KeepsEnd
<1>2. Head(q).do # "fire" => KeepsReports(q, Tail(q))
  BY RunReport DEF KeepsReports, FiredBy
<1>3. Head(q).do \notin {"request", "reply"} => KeepsRequests(q, Tail(q))
  BY RunRequestFacts DEF KeepsRequests, Carries
<1> QED BY <1>1, <1>2, <1>3

LEMMA KeptByNothing ==
  \A q \in Seq(Tasks) : KeepsEnd(q, q) /\ KeepsReports(q, q) /\ KeepsRequests(q, q)
BY DEF KeepsEnd, KeepsReports, KeepsRequests

LEMMA LinkFacts ==
  ASSUME LinkInv
  PROVE  /\ tasks \in Seq(Tasks) /\ asyncTasks \in Seq(RequestTasks) /\ asyncTasks \in Seq(Tasks)
         /\ connection \in Nat /\ model \in Nat /\ model <= connection
         /\ connection <= MaxConnections /\ MaxConnections \in Nat
         /\ subscribed \in Nat /\ control \in Nat /\ subscribed <= model
         /\ shown[1] \in Nat /\ shown[1] <= model /\ shown[2] \in PlayState
         /\ shown = <<shown[1], shown[2]>>
         /\ alive = "yes" => model - 1 \in Nat
         /\ model > 0 => model - 1 \in Nat
<1>1. asyncTasks \in Seq(Tasks)
  <2>1. RequestTasks \subseteq Tasks
    BY TaskFacts
  <2> QED BY <2>1, SeqOfMore DEF LinkInv, LinkTypes
<1>2. /\ connection \in Nat /\ model \in Nat /\ model <= connection
      /\ connection <= MaxConnections /\ MaxConnections \in Nat
      /\ subscribed \in Nat /\ control \in Nat /\ subscribed <= model
  BY LinkAssumption DEF LinkInv, LinkTypes
<1>3. /\ shown[1] \in Nat /\ shown[1] <= model /\ shown[2] \in PlayState
      /\ shown = <<shown[1], shown[2]>>
  BY <1>2 DEF LinkInv, LinkTypes
<1> QED BY <1>1, <1>2, <1>3 DEF LinkInv, LinkTypes

LEMMA MadeTasks ==
  /\ [do |-> "disconnect"] \in Tasks /\ [do |-> "view"] \in Tasks
  /\ \A c \in Nat : [do |-> "connect", of |-> c] \in Tasks /\ [do |-> "uninitialized", of |-> c] \in Tasks
  /\ \A c \in Nat, r \in RequestId : /\ [do |-> "request", of |-> c, id |-> r] \in RequestTasks
                                   /\ [do |-> "reply", of |-> c, id |-> r] \in Tasks
  /\ \A c \in Nat, st \in Seq(PlayState) \ {<<>>} : [do |-> "fire", of |-> c, states |-> st] \in Tasks
BY DEF Tasks, OtherTasks, RequestTasks, ReplyTasks, FireTasks

\* The requests are left where they are.
LEMMA PlacesKept ==
  ASSUME LinkInv, KeepsRequests(tasks, tasks'), asyncTasks' = asyncTasks, replies' = replies
  PROVE  /\ replies' = [r \in RequestId |-> replies'[r]]
         /\ \A r \in RequestId : OnePlace(tasks', asyncTasks', replies'[r], r)
BY DEF LinkInv, KeepsRequests, OnePlace

LEMMA ConnectedStep == LinkInv /\ Connected => LinkInv'
<1> SUFFICES ASSUME LinkInv, Connected PROVE LinkInv'
  OBVIOUS
<1>1. PICK t \in Tasks : t = [do |-> "connect", of |-> connection + 1]
  <2>1. connection + 1 \in Nat
    BY LinkFacts
  <2> QED BY <2>1, MadeTasks
<1>2. t.do = "connect" /\ t.of = connection + 1
  BY <1>1
<1>3. /\ tasks' = Append(tasks, t) /\ connection' = connection + 1 /\ live' = TRUE
      /\ watched' = FALSE /\ ~live /\ connection < MaxConnections
      /\ UNCHANGED <<step, model, alive, viewing, control, subscribed, playState, events,
                     asyncTasks, shown, replies>>
  BY <1>1 DEF Connected, Queue, models, controls, editor, peer
<1>4. /\ tasks' \in Seq(Tasks) /\ Connects(tasks', model', connection')
      /\ Disconnects(tasks) => Disconnects(tasks')
      /\ \A m \in Nat : FiresUpTo(tasks, m) => FiresUpTo(tasks', m)
  <2>1. \A m \in Nat : FiresUpTo(tasks, m) => FiresUpTo(tasks', m)
    BY <1>2, <1>3, LinkFacts, QueueTask
  <2>2. Connects(tasks, model, connection)
    BY DEF LinkInv
  <2>3. tasks' \in Seq(Tasks) /\ Connects(tasks', model, connection + 1)
        /\ (Disconnects(tasks) => Disconnects(tasks'))
    BY <2>2, <1>2, <1>3, LinkFacts, QueueTask
  <2> QED BY <2>1, <2>3, <1>3
<1>5. KeepsRequests(tasks, tasks')
  BY <1>2, <1>3, LinkFacts, KeptByQueueing
<1>6. LinkTypes'
  <2>1. connection' \in 0..MaxConnections /\ model' \in 0..connection'
    BY <1>3, LinkFacts
  <2> QED BY <2>1, <1>3, <1>4 DEF LinkInv, LinkTypes
<1>7. WillEnd'
  BY <1>3, <1>4 DEF LinkInv, WillEnd
<1>8. NewModel' /\ NotViewing' /\ FiresUpTo(tasks', model')
  BY <1>3, <1>4, LinkFacts DEF LinkInv, NewModel, NotViewing
<1>9. ~(control' # 0 /\ Live(control)')
  <2>1. control' = 0 \/ control' <= connection
    BY <1>3, LinkFacts DEF LinkInv, LinkTypes
  <2> QED BY <2>1, <1>3, LinkFacts DEF Live
<1>10. (alive' = "yes" => model' > 0) /\ (subscribed' # 0 => alive' = "yes")
  BY <1>3 DEF LinkInv
<1> QED BY <1>3, <1>4, <1>5, <1>6, <1>7, <1>8, <1>9, <1>10, PlacesKept DEF LinkInv

LEMMA DisconnectedStep == LinkInv /\ Disconnected => LinkInv'
<1> SUFFICES ASSUME LinkInv, Disconnected PROVE LinkInv'
  OBVIOUS
<1>1. /\ live /\ live' = FALSE
      /\ UNCHANGED <<connection, watched, step, model, alive, viewing, control, subscribed,
                     playState, events, asyncTasks, shown, replies>>
  BY DEF Disconnected, models, controls, editor, peer
<1>2. PICK t \in Tasks : t = [do |-> "disconnect"] /\ t.do = "disconnect"
  BY MadeTasks
<1>3. \/ watched /\ tasks' = Append(tasks, t)
      \/ ~watched /\ tasks' = tasks
  BY <1>2 DEF Disconnected, Queue
<1>4. KeepsEnd(tasks, tasks') /\ KeepsReports(tasks, tasks') /\ KeepsRequests(tasks, tasks')
  BY <1>2, <1>3, LinkFacts, KeptByQueueing, KeptByNothing
<1>5. LinkTypes'
  BY <1>1, <1>4 DEF LinkInv, LinkTypes, KeepsEnd
<1>6. WillEnd'
  <2>1. NoConnect(tasks) /\ watched => Disconnects(tasks')
    BY <1>2, <1>3, LinkFacts, QueueTask
  <2> QED BY <2>1, <1>1, <1>4 DEF LinkInv, WillEnd, KeepsEnd
<1>7. NewModel' /\ NotViewing' /\ FiresUpTo(tasks', model') /\ Connects(tasks', model', connection')
  BY <1>1, <1>4, LinkFacts DEF LinkInv, NewModel, NotViewing, KeepsEnd
<1>8. ~(control' # 0 /\ Live(control)')
  BY <1>1 DEF Live
<1>9. (alive' = "yes" => model' > 0) /\ (subscribed' # 0 => alive' = "yes")
  BY <1>1 DEF LinkInv
<1> QED BY <1>1, <1>4, <1>5, <1>6, <1>7, <1>8, <1>9, PlacesKept DEF LinkInv

LEMMA RequestedStep == \A r \in RequestId : LinkInv /\ Requested(r) => LinkInv'
<1> SUFFICES ASSUME LinkInv, NEW r \in RequestId, Requested(r) PROVE LinkInv'
  OBVIOUS
<1>1. PICK t \in Tasks :
        /\ t = [do |-> "request", of |-> connection, id |-> r]
        /\ t.do = "request" /\ t.id = r
  <2>1. [do |-> "request", of |-> connection, id |-> r] \in RequestTasks
    BY LinkFacts, MadeTasks
  <2> QED BY <2>1, TaskFacts
<1>2. /\ tasks' = Append(tasks, t) /\ replies[r] = 0
      /\ UNCHANGED <<connection, live, watched, step, model, alive, viewing, control, subscribed,
                     playState, events, asyncTasks, shown, replies>>
  BY <1>1 DEF Requested, Queue, wire, models, controls, editor, peer
<1>3. ~Holds(tasks, r) /\ ~Holds(asyncTasks, r)
  <2>1. \A i \in 1..Len(tasks) : ~Carries(tasks[i], r)
    <3>1. \A i \in 1..Len(tasks) : i \in DOMAIN tasks
      BY LinkFacts
    <3> QED BY <3>1 DEF Requested, Carries
  <2>2. \A i \in 1..Len(asyncTasks) : ~Carries(asyncTasks[i], r)
    <3>1. \A i \in 1..Len(asyncTasks) : i \in DOMAIN asyncTasks
      BY LinkFacts
    <3> QED BY <3>1 DEF Requested, Carries
  <2> QED BY <2>1, <2>2 DEF Holds
<1>4. KeepsEnd(tasks, tasks') /\ KeepsReports(tasks, tasks')
  BY <1>1, <1>2, LinkFacts, KeptByQueueing
<1>5. ASSUME NEW x \in RequestId PROVE OnePlace(tasks', asyncTasks', replies'[x], x)
  <2>1. OnePlace(tasks, asyncTasks, replies[x], x)
    BY DEF LinkInv
  <2>2. /\ Holds(tasks', x) <=> (Holds(tasks, x) \/ Carries(t, x))
        /\ Single(tasks, x) /\ ~(Holds(tasks, x) /\ Carries(t, x)) => Single(tasks', x)
    BY <1>2, LinkFacts, QueueRequest
  <2>3. Carries(t, x) => x = r
    BY <1>1 DEF Carries
  <2> QED BY <2>1, <2>2, <2>3, <1>2, <1>3 DEF OnePlace
<1>6. LinkTypes'
  BY <1>2, <1>4 DEF LinkInv, LinkTypes, KeepsEnd
<1>7. WillEnd' /\ NewModel' /\ NotViewing'
  BY <1>2, <1>4, LinkFacts DEF LinkInv, WillEnd, NewModel, NotViewing, KeepsEnd
<1>8. FiresUpTo(tasks', model') /\ Connects(tasks', model', connection')
  BY <1>2, <1>4, LinkFacts DEF LinkInv, KeepsEnd
<1>9. control' # 0 /\ Live(control)' => Tells(tasks', control', shown', playState')
  BY <1>2, <1>4 DEF LinkInv, Live, KeepsReports
<1>10. (alive' = "yes" => model' > 0) /\ (subscribed' # 0 => alive' = "yes")
  BY <1>2 DEF LinkInv
<1> QED BY <1>2, <1>4, <1>5, <1>6, <1>7, <1>8, <1>9, <1>10 DEF LinkInv

\* The task that the scheduler takes.
LEMMA RunsFacts ==
  ASSUME LinkInv, NEW do, Runs(do)
  PROVE  /\ step = "idle" /\ tasks # <<>> /\ Head(tasks).do = do /\ tasks' = Tail(tasks)
         /\ Head(tasks) \in Tasks /\ Tail(tasks) \in Seq(Tasks)
<1>1. step = "idle" /\ tasks # <<>> /\ Head(tasks).do = do /\ tasks' = Tail(tasks)
  BY DEF Runs
<1> QED BY <1>1, LinkFacts, TailFacts

LEMMA RunConnectStep == LinkInv /\ RunConnect => LinkInv'
<1> SUFFICES ASSUME LinkInv, RunConnect PROVE LinkInv'
  OBVIOUS
<1>1. PICK t \in Tasks : t = Head(tasks) /\ t.do = "connect" /\ t.of \in Nat
  BY RunsFacts, TaskFacts DEF RunConnect
<1>2. /\ step = "idle" /\ tasks # <<>> /\ tasks' = Tail(tasks) /\ model' = t.of
      /\ step' = "connecting" /\ tasks' \in Seq(Tasks)
      /\ UNCHANGED <<connection, live, watched, alive, viewing, control, subscribed,
                     playState, events, asyncTasks, shown, replies>>
  BY <1>1, RunsFacts DEF RunConnect, wire, controls, editor, peer
<1>3. t.of \in model+1 .. connection /\ Connects(tasks', model', connection')
  BY <1>1, <1>2, LinkFacts, RunTask DEF LinkInv
<1>4. alive # "yes" /\ subscribed = 0 /\ control = 0
  <2>1. ~NoConnect(tasks)
    <3>1. 1 \in 1..Len(tasks) /\ tasks[1] = t
      BY <1>1, <1>2, LinkFacts, TailFacts
    <3> QED BY <3>1, <1>1 DEF NoConnect
  <2>2. ~Disconnects(tasks)
    BY <1>1, <1>2, LinkFacts, RunTask
  <2>3. alive # "yes"
    BY <2>1, <2>2 DEF LinkInv, WillEnd
  <2> QED BY <2>3 DEF LinkInv, LinkTypes
<1>5. KeepsRequests(tasks, tasks')
  BY <1>1, <1>2, LinkFacts, KeptByRunning
<1>6. FiresUpTo(tasks', model) /\ (FiresUpTo(tasks, 0) => FiresUpTo(tasks', 0))
  BY <1>2, LinkFacts, RunTask DEF LinkInv
<1>7. FiresUpTo(tasks', model') /\ FiresUpTo(tasks', model' - 1)
  <2>1. \A n \in 1..model : n \in 1..model' /\ n \in 1..(model' - 1)
    BY <1>2, <1>3, LinkFacts
  <2> QED BY <2>1, <1>6 DEF FiresUpTo
<1>8. LinkTypes'
  <2>1. model' \in 0..connection'
    BY <1>2, <1>3, LinkFacts
  <2>2. shown' \in (0..model') \X PlayState
    <3>1. shown[1] \in 0..model'
      BY <1>2, <1>3, LinkFacts
    <3> QED BY <3>1, <1>2, LinkFacts
  <2> QED BY <2>1, <2>2, <1>2, <1>4 DEF LinkInv, LinkTypes
<1>9. WillEnd'
  BY <1>2, <1>4 DEF WillEnd
<1>10. NewModel' /\ NotViewing'
  <2>1. model' > 0 /\ shown[1] < model'
    BY <1>2, <1>3, LinkFacts
  <2> QED BY <2>1, <1>2, <1>4, <1>6, <1>7 DEF LinkInv, NewModel, NotViewing
<1> QED BY <1>2, <1>3, <1>4, <1>5, <1>7, <1>8, <1>9, <1>10, PlacesKept DEF LinkInv

LEMMA AddDisconnectionStep == LinkInv /\ AddDisconnection => LinkInv'
<1> SUFFICES ASSUME LinkInv, AddDisconnection PROVE LinkInv'
  OBVIOUS
<1>1. /\ step = "connecting"
      /\ \/ Live(model) /\ watched' = TRUE /\ step' = "watched"
         \/ watched' = watched /\ step' = "idle"
      /\ UNCHANGED <<connection, live, tasks, model, alive, viewing, control, subscribed,
                     playState, events, asyncTasks, shown, replies>>
  BY DEF AddDisconnection, Watch, controls, editor, peer
<1>2. LinkTypes'
  BY <1>1 DEF LinkInv, LinkTypes
<1>3. WillEnd'
  <2>1. Live(model) => NoConnect(tasks)
    <3>1. \A n : ~(n \in model+1 .. model)
      BY LinkFacts
    <3> QED BY <3>1, LinkFacts DEF LinkInv, Connects, NoConnect, Live
  <2>2. alive # "yes"
    BY <1>1 DEF LinkInv, NewModel
  <2>3. CASE Live(model)
    BY <2>1, <2>2, <2>3, <1>1 DEF LinkInv, LinkTypes, WillEnd, Live
  <2>4. CASE ~Live(model)
    BY <2>2, <2>4, <1>1 DEF WillEnd
  <2> QED BY <2>3, <2>4
<1>4. NewModel' /\ NotViewing' /\ FiresUpTo(tasks', model') /\ Connects(tasks', model', connection')
  BY <1>1 DEF LinkInv, NewModel, NotViewing
<1>5. control' # 0 /\ Live(control)' => Tells(tasks', control', shown', playState')
  BY <1>1 DEF LinkInv, Live
<1>6. (alive' = "yes" => model' > 0) /\ (subscribed' # 0 => alive' = "yes")
  BY <1>1 DEF LinkInv
<1>7. KeepsRequests(tasks, tasks')
  BY <1>1, LinkFacts, KeptByNothing
<1> QED BY <1>1, <1>2, <1>3, <1>4, <1>5, <1>6, <1>7, PlacesKept DEF LinkInv

\* Of a new control nothing is on its way, and nothing was told.
LEMMA NewTells ==
  ASSUME NEW q, NEW m \in Nat, NEW c \in Nat, m < c, FiresUpTo(q, m),
         NEW sh, sh[1] # c, NEW p
  PROVE  Tells(q, c, sh, p)
<1>1. \A n \in 1..m : n # c
  OBVIOUS
<1>2. \A i \in 1..Len(q) : ~FiredBy(q[i], c)
  BY <1>1 DEF FiresUpTo, FiredBy
<1> QED BY <1>2 DEF Tells

LEMMA SetAliveStep == LinkInv /\ SetAlive => LinkInv'
<1> SUFFICES ASSUME LinkInv, SetAlive PROVE LinkInv'
  OBVIOUS
<1>1. /\ step = "watched" /\ step' = "idle" /\ alive' = "yes"
      /\ UNCHANGED <<connection, live, watched, tasks, model, viewing,
                     playState, events, asyncTasks, shown, replies>>
  BY DEF SetAlive, wire, editor, peer
<1>2. /\ alive # "yes" /\ subscribed = 0 /\ control = 0 /\ model > 0 /\ shown[1] < model
      /\ model - 1 \in Nat /\ FiresUpTo(tasks, model - 1)
  BY <1>1, LinkFacts DEF LinkInv, NewModel, LinkTypes
<1>3. \/ viewing = "yes" /\ subscribed' = model /\ control' \in {0, model}
      \/ viewing # "yes" /\ subscribed' = 0 /\ control' = 0
  BY <1>2 DEF SetAlive, MakeControl
<1>4. Tells(tasks, model, shown, playState)
  <2>1. model - 1 < model /\ shown[1] # model
    BY <1>2, LinkFacts
  <2> QED BY <2>1, <1>2, LinkFacts, NewTells
<1>5. LinkTypes'
  BY <1>1, <1>3 DEF LinkInv, LinkTypes
<1>6. WillEnd'
  BY <1>1 DEF LinkInv, WillEnd
<1>7. NewModel' /\ NotViewing' /\ FiresUpTo(tasks', model') /\ Connects(tasks', model', connection')
  BY <1>1, <1>3 DEF LinkInv, NewModel, NotViewing
<1>8. control' # 0 /\ Live(control)' => Tells(tasks', control', shown', playState')
  BY <1>1, <1>3, <1>4
<1>9. KeepsRequests(tasks, tasks')
  BY <1>1, LinkFacts, KeptByNothing
<1>10. (alive' = "yes" => model' > 0) /\ (subscribed' # 0 => alive' = "yes")
  BY <1>1, <1>2
<1> QED BY <1>1, <1>5, <1>6, <1>7, <1>8, <1>9, <1>10, PlacesKept DEF LinkInv

LEMMA RunDisconnectStep == LinkInv /\ RunDisconnect => LinkInv'
<1> SUFFICES ASSUME LinkInv, RunDisconnect PROVE LinkInv'
  OBVIOUS
<1>1. /\ tasks # <<>> /\ Head(tasks).do = "disconnect" /\ tasks' = Tail(tasks)
      /\ tasks' \in Seq(Tasks)
      /\ alive' = "no" /\ control' = 0 /\ subscribed' = 0 /\ step' \in {"idle", "crashed"}
      /\ UNCHANGED <<connection, live, watched, model, viewing,
                     playState, events, asyncTasks, shown, replies>>
  BY RunsFacts DEF RunDisconnect, SetDead, wire, editor, peer
<1>2. KeepsRequests(tasks, tasks')
  BY <1>1, LinkFacts, KeptByRunning
<1>3. /\ Connects(tasks', model, connection)
      /\ \A m \in Nat : FiresUpTo(tasks, m) => FiresUpTo(tasks', m)
  BY <1>1, LinkFacts, RunTask DEF LinkInv
<1>4. LinkTypes'
  BY <1>1 DEF LinkInv, LinkTypes
<1>5. WillEnd' /\ NewModel'
  BY <1>1 DEF WillEnd, NewModel
<1>6. NotViewing' /\ FiresUpTo(tasks', model') /\ Connects(tasks', model', connection')
  BY <1>1, <1>3, LinkFacts DEF LinkInv, NotViewing
<1> QED BY <1>1, <1>2, <1>4, <1>5, <1>6, PlacesKept DEF LinkInv

LEMMA RunViewStep == LinkInv /\ RunView => LinkInv'
<1> SUFFICES ASSUME LinkInv, RunView PROVE LinkInv'
  OBVIOUS
<1>1. /\ step = "idle" /\ tasks # <<>> /\ Head(tasks).do = "view" /\ tasks' = Tail(tasks)
      /\ UNCHANGED <<connection, live, watched, step, model, alive,
                     playState, events, asyncTasks, shown, replies>>
  BY RunsFacts DEF RunView, wire, models, editor, peer
<1>2. \/ /\ viewing = "queued" /\ viewing' = "yes" /\ alive = "yes"
         /\ subscribed' = model /\ control' \in {0, model}
      \/ viewing = "queued" /\ viewing' = "yes" /\ UNCHANGED <<control, subscribed>>
      \/ viewing # "queued" /\ UNCHANGED <<viewing, control, subscribed>>
  BY DEF RunView, MakeControl
<1>3. KeepsEnd(tasks, tasks') /\ KeepsReports(tasks, tasks') /\ KeepsRequests(tasks, tasks')
  BY <1>1, LinkFacts, KeptByRunning
<1>4. LinkTypes'
  BY <1>1, <1>2, <1>3 DEF LinkInv, LinkTypes, KeepsEnd
<1>5. WillEnd'
  BY <1>1, <1>3 DEF LinkInv, WillEnd, KeepsEnd
<1>6. NewModel' /\ NotViewing'
  BY <1>1, <1>2, <1>3 DEF LinkInv, NewModel, NotViewing, KeepsEnd
<1>7. FiresUpTo(tasks', model') /\ Connects(tasks', model', connection')
  BY <1>1, <1>3, LinkFacts DEF LinkInv, KeepsEnd
<1>8. control' # 0 /\ Live(control)' => Tells(tasks', control', shown', playState')
  <2>1. CASE viewing = "queued" /\ alive = "yes" /\ subscribed' = model /\ control' \in {0, model}
    <3>1. model > 0 /\ shown[1] # model /\ FiresUpTo(tasks', 0)
      BY <2>1, <1>3 DEF LinkInv, NotViewing, KeepsEnd
    <3>2. Tells(tasks', model, shown, playState)
      BY <3>1, LinkFacts, NewTells
    <3> QED BY <2>1, <3>2, <1>1
  <2>2. CASE UNCHANGED <<control, subscribed>>
    BY <2>2, <1>1, <1>3 DEF LinkInv, Live, KeepsReports
  <2> QED BY <2>1, <2>2, <1>2
<1>9. (alive' = "yes" => model' > 0) /\ (subscribed' # 0 => alive' = "yes")
  BY <1>1, <1>2 DEF LinkInv
<1> QED BY <1>1, <1>3, <1>4, <1>5, <1>6, <1>7, <1>8, <1>9, PlacesKept DEF LinkInv

\* Nothing but the tasks and the requests change.
LEMMA RequestsMove ==
  ASSUME LinkInv, KeepsEnd(tasks, tasks'), KeepsReports(tasks, tasks'),
         UNCHANGED <<connection, live, watched, step, model, alive, viewing, control,
                     subscribed, playState, events, shown>>,
         asyncTasks' \in Seq(RequestTasks),
         replies' = [r \in RequestId |-> replies'[r]],
         \A r \in RequestId : OnePlace(tasks', asyncTasks', replies'[r], r)
  PROVE  LinkInv'
<1>1. LinkTypes'
  BY DEF LinkInv, LinkTypes, KeepsEnd
<1>2. WillEnd' /\ NewModel' /\ NotViewing'
  BY LinkFacts DEF LinkInv, WillEnd, NewModel, NotViewing, KeepsEnd
<1>3. FiresUpTo(tasks', model') /\ Connects(tasks', model', connection')
  BY LinkFacts DEF LinkInv, KeepsEnd
<1>4. control' # 0 /\ Live(control)' => Tells(tasks', control', shown', playState')
  BY DEF LinkInv, Live, KeepsReports
<1>5. (alive' = "yes" => model' > 0) /\ (subscribed' # 0 => alive' = "yes")
  BY DEF LinkInv
<1> QED BY <1>1, <1>2, <1>3, <1>4, <1>5 DEF LinkInv

LEMMA RunRequestStep == LinkInv /\ RunRequest => LinkInv'
<1> SUFFICES ASSUME LinkInv, RunRequest PROVE LinkInv'
  OBVIOUS
<1>1. PICK t \in RequestTasks :
        t = Head(tasks) /\ t.do = "request" /\ t.id \in RequestId /\ t \in Tasks
  BY RunsFacts, TaskFacts DEF RunRequest
<1>2. /\ tasks # <<>> /\ Head(tasks).do = "request" /\ tasks' = Tail(tasks)
      /\ UNCHANGED <<connection, live, watched, step, model, alive, viewing, control,
                     subscribed, playState, events, shown>>
  BY RunsFacts DEF RunRequest, Runs, wire, models, controls, editor
<1>3. \/ asyncTasks' = Append(asyncTasks, t) /\ replies' = replies
      \/ asyncTasks' = asyncTasks /\ replies' = [replies EXCEPT ![t.id] = @ + 1]
      \/ asyncTasks' = asyncTasks /\ replies' = replies
  BY <1>1 DEF RunRequest
<1>4. KeepsEnd(tasks, tasks') /\ KeepsReports(tasks, tasks')
  BY <1>2, LinkFacts, KeptByRunning
<1>5. ASSUME NEW r \in RequestId PROVE OnePlace(tasks', asyncTasks', replies'[r], r)
  <2>1. OnePlace(tasks, asyncTasks, replies[r], r)
    BY DEF LinkInv
  <2>2. /\ Holds(tasks, r) <=> (Holds(tasks', r) \/ Carries(t, r))
        /\ Single(tasks, r) => Single(tasks', r) /\ ~(Holds(tasks', r) /\ Carries(t, r))
    BY <1>1, <1>2, LinkFacts, RunRequestFacts
  <2>3. Carries(t, r) <=> t.id = r
    BY <1>1 DEF Carries
  <2>4. CASE asyncTasks' = Append(asyncTasks, t) /\ replies' = replies
    <3>1. /\ Holds(asyncTasks', r) <=> (Holds(asyncTasks, r) \/ Carries(t, r))
          /\ Single(asyncTasks, r) /\ ~(Holds(asyncTasks, r) /\ Carries(t, r)) => Single(asyncTasks', r)
      BY <2>4, <1>1, LinkFacts, QueueRequest
    <3> QED BY <3>1, <2>1, <2>2, <2>4 DEF OnePlace
  <2>5. CASE asyncTasks' = asyncTasks /\ replies' = [replies EXCEPT ![t.id] = @ + 1]
    <3>1. replies'[r] = IF r = t.id THEN replies[r] + 1 ELSE replies[r]
      BY <2>5, <1>1 DEF LinkInv
    <3> QED BY <3>1, <2>1, <2>2, <2>3, <2>5 DEF OnePlace
  <2>6. CASE asyncTasks' = asyncTasks /\ replies' = replies
    BY <2>1, <2>2, <2>6 DEF OnePlace
  <2> QED BY <2>4, <2>5, <2>6, <1>3
<1>6. asyncTasks' \in Seq(RequestTasks)
  <2>1. asyncTasks \in Seq(RequestTasks) /\ Append(asyncTasks, t) \in Seq(RequestTasks)
    BY LinkFacts, AppendFacts
  <2> QED BY <1>3, <2>1
<1>7. replies' = [r \in RequestId |-> replies'[r]]
  BY <1>1, <1>3 DEF LinkInv
<1> QED BY <1>2, <1>4, <1>5, <1>6, <1>7, RequestsMove

LEMMA RequestPlayWorldCommandStep == LinkInv /\ RequestPlayWorldCommand => LinkInv'
<1> SUFFICES ASSUME LinkInv, RequestPlayWorldCommand PROVE LinkInv'
  OBVIOUS
<1>1. PICK m \in RequestTasks :
        /\ m = Head(asyncTasks) /\ asyncTasks # <<>>
        /\ m \in Tasks /\ m.do = "request" /\ m.of \in Nat /\ m.id \in RequestId
  <2>1. asyncTasks # <<>> /\ Head(asyncTasks) \in RequestTasks
    BY LinkFacts, TailFacts DEF RequestPlayWorldCommand
  <2> QED BY <2>1, TaskFacts
<1>2. PICK t \in Tasks : /\ t = [do |-> "reply", of |-> m.of, id |-> m.id]
                         /\ t.do = "reply" /\ t.id = m.id
  BY <1>1, MadeTasks
<1>3. /\ tasks' = Append(tasks, t) /\ asyncTasks' = Tail(asyncTasks)
      /\ UNCHANGED <<connection, live, watched, step, model, alive, viewing, control,
                     subscribed, playState, events, shown, replies>>
  BY <1>1, <1>2 DEF RequestPlayWorldCommand, Answered, Reply, wire, models, controls, editor, peer
<1>4. KeepsEnd(tasks, tasks') /\ KeepsReports(tasks, tasks')
  BY <1>2, <1>3, LinkFacts, KeptByQueueing
<1>5. ASSUME NEW r \in RequestId PROVE OnePlace(tasks', asyncTasks', replies'[r], r)
  BY <1>3, LinkFacts, QueueRequest, <1>1, RunRequestFacts, <1>2 DEF LinkInv, Carries, OnePlace
<1>6. asyncTasks' \in Seq(RequestTasks)
  BY <1>1, <1>3, LinkFacts, TailFacts
<1>7. replies' = [r \in RequestId |-> replies'[r]]
  BY <1>3 DEF LinkInv
<1> QED BY <1>3, <1>4, <1>5, <1>6, <1>7, RequestsMove

\* Only the scheduler's step is lost: the editor crashes.
LEMMA RunModelActionStep == LinkInv /\ RunModelAction => LinkInv'
<1> SUFFICES ASSUME LinkInv, RunModelAction PROVE LinkInv'
  OBVIOUS
<1>1. PICK t \in Tasks :
        /\ t = Head(tasks) /\ t.do \in {"fire", "reply", "uninitialized"}
        /\ t.do = "fire" => t.of \in Nat /\ t.states \in Seq(PlayState) \ {<<>>}
        /\ t.do = "reply" => t.id \in RequestId
  BY RunsFacts, TaskFacts DEF RunModelAction
<1>2. /\ step = "idle" /\ tasks # <<>> /\ tasks' = Tail(tasks)
      /\ UNCHANGED <<connection, live, watched, model, alive, viewing, control,
                     subscribed, playState, events, asyncTasks>>
  BY RunsFacts DEF RunModelAction, wire, controls, editor
<1>3. \/ /\ control # 0 /\ Live(control) /\ step' = "idle"
         /\ shown' = IF t.do = "fire" THEN <<t.of, t.states[Len(t.states)]>> ELSE shown
         /\ replies' = IF t.do = "reply" THEN [replies EXCEPT ![t.id] = @ + 1] ELSE replies
      \/ /\ t.of # control \/ ~Live(control)
         /\ shown' = shown /\ replies' = replies /\ step' \in {"idle", "crashed"}
  BY <1>1, <1>2 DEF RunModelAction, Reports
<1>4. KeepsEnd(tasks, tasks')
  BY <1>1, <1>2, LinkFacts, KeptByRunning
<1>5. shown' \in (0..model) \X PlayState /\ (shown'[1] = shown[1] \/ t.do = "fire")
  <2>1. CASE shown' = shown
    BY <2>1 DEF LinkInv, LinkTypes
  <2>2. CASE shown' = <<t.of, t.states[Len(t.states)]>> /\ t.do = "fire"
    <3>1. t.of \in 1..model
      BY <2>2, <1>1, <1>2, LinkFacts, RunTask DEF LinkInv
    <3>2. t.states[Len(t.states)] \in PlayState
      BY <2>2, <1>1
    <3> QED BY <3>1, <3>2, <2>2, LinkFacts
  <2> QED BY <2>1, <2>2, <1>3
<1>6. LinkTypes'
  BY <1>2, <1>3, <1>4, <1>5 DEF LinkInv, LinkTypes, KeepsEnd
<1>7. WillEnd' /\ NewModel'
  BY <1>2, <1>3, <1>4, LinkFacts DEF LinkInv, WillEnd, NewModel, KeepsEnd
<1>8. NotViewing'
  <2>1. ASSUME viewing \in {"no", "queued"} PROVE t.do # "fire"
    <3>1. t.do = "fire" => t.of \in 1..0
      BY <2>1, <1>1, <1>2, LinkFacts, RunTask DEF LinkInv, NotViewing
    <3> QED BY <3>1
  <2> QED BY <2>1, <1>2, <1>4, <1>5 DEF LinkInv, NotViewing, KeepsEnd
<1>9. FiresUpTo(tasks', model') /\ Connects(tasks', model', connection')
  BY <1>2, <1>4, LinkFacts DEF LinkInv, KeepsEnd
<1>10. control' # 0 /\ Live(control)' => Tells(tasks', control', shown', playState')
  <2> SUFFICES ASSUME control # 0, Live(control) PROVE Tells(tasks', control, shown', playState)
    BY <1>2 DEF Live
  <2>1. Tells(tasks, control, shown, playState)
    BY DEF LinkInv
  <2>2. CASE FiredBy(t, control)
    <3>1. Tells(tasks', control, <<control, t.states[Len(t.states)]>>, playState)
      BY <2>1, <2>2, <1>1, <1>2, LinkFacts, RunReport
    <3> QED BY <3>1, <2>2, <1>3 DEF FiredBy
  <2>3. CASE ~FiredBy(t, control)
    <3>1. /\ Tells(tasks', control, shown, playState)
          /\ \A x, y : x # control => Tells(tasks', control, <<x, y>>, playState)
      BY <2>1, <2>3, <1>1, <1>2, LinkFacts, RunReport
    <3>2. \/ shown' = shown
          \/ shown' = <<t.of, t.states[Len(t.states)]>> /\ t.of # control
      BY <2>3, <1>3 DEF FiredBy
    <3> QED BY <3>1, <3>2
  <2> QED BY <2>2, <2>3
<1>11. ASSUME NEW r \in RequestId PROVE OnePlace(tasks', asyncTasks', replies'[r], r)
  BY <1>1, <1>2, LinkFacts, RunRequestFacts, <1>3 DEF LinkInv, Carries, OnePlace
<1>12. replies' = [r \in RequestId |-> replies'[r]]
  BY <1>1, <1>3 DEF LinkInv
<1>13. (alive' = "yes" => model' > 0) /\ (subscribed' # 0 => alive' = "yes")
  BY <1>2 DEF LinkInv
<1> QED BY <1>2, <1>6, <1>7, <1>8, <1>9, <1>10, <1>11, <1>12, <1>13 DEF LinkInv

LEMMA StartupModuleStep == LinkInv /\ StartupModule => LinkInv'
<1> SUFFICES ASSUME LinkInv, StartupModule PROVE LinkInv'
  OBVIOUS
<1>1. PICK t \in Tasks : t = [do |-> "view"] /\ t.do = "view"
  BY MadeTasks
<1>2. /\ viewing = "no" /\ viewing' = "queued" /\ tasks' = Append(tasks, t)
      /\ UNCHANGED <<connection, live, watched, step, model, alive, control, subscribed,
                     playState, events, asyncTasks, shown, replies>>
  BY <1>1 DEF StartupModule, Queue, wire, models, editor, peer
<1>3. KeepsEnd(tasks, tasks') /\ KeepsReports(tasks, tasks') /\ KeepsRequests(tasks, tasks')
  BY <1>1, <1>2, LinkFacts, KeptByQueueing
<1>4. LinkTypes'
  BY <1>2, <1>3 DEF LinkInv, LinkTypes, KeepsEnd
<1>5. WillEnd' /\ NewModel' /\ NotViewing'
  BY <1>2, <1>3, LinkFacts DEF LinkInv, WillEnd, NewModel, NotViewing, KeepsEnd
<1>6. FiresUpTo(tasks', model') /\ Connects(tasks', model', connection')
  BY <1>2, <1>3, LinkFacts DEF LinkInv, KeepsEnd
<1>7. control' # 0 /\ Live(control)' => Tells(tasks', control', shown', playState')
  BY <1>2, <1>3 DEF LinkInv, Live, KeepsReports
<1>8. (alive' = "yes" => model' > 0) /\ (subscribed' # 0 => alive' = "yes")
  BY <1>2 DEF LinkInv
<1> QED BY <1>2, <1>3, <1>4, <1>5, <1>6, <1>7, <1>8, PlacesKept DEF LinkInv

LEMMA ShutdownModuleStep == LinkInv /\ ShutdownModule => LinkInv'
<1> SUFFICES ASSUME LinkInv, ShutdownModule PROVE LinkInv'
  OBVIOUS
<1>1. PICK t \in Tasks : t = [do |-> "uninitialized", of |-> control] /\ t.do = "uninitialized"
  BY LinkFacts, MadeTasks
<1>2. /\ viewing' = "shut" /\ control' = 0 /\ subscribed' = 0
      /\ step' \in {step, "crashed"}
      /\ tasks' = tasks \/ tasks' = Append(tasks, t)
      /\ UNCHANGED <<connection, live, watched, model, alive, playState, events, asyncTasks,
                     shown, replies>>
  BY <1>1 DEF ShutdownModule, Queue, wire, editor, peer
<1>3. KeepsEnd(tasks, tasks') /\ KeepsRequests(tasks, tasks')
  BY <1>1, <1>2, LinkFacts, KeptByQueueing, KeptByNothing
<1>4. LinkTypes'
  BY <1>2, <1>3 DEF LinkInv, LinkTypes, KeepsEnd
<1>5. WillEnd' /\ NewModel' /\ NotViewing'
  BY <1>2, <1>3, LinkFacts DEF LinkInv, WillEnd, NewModel, NotViewing, KeepsEnd
<1>6. FiresUpTo(tasks', model') /\ Connects(tasks', model', connection')
  BY <1>2, <1>3, LinkFacts DEF LinkInv, KeepsEnd
<1>7. (alive' = "yes" => model' > 0) /\ subscribed' = 0 /\ control' = 0
  BY <1>2 DEF LinkInv
<1> QED BY <1>2, <1>3, <1>4, <1>5, <1>6, <1>7, PlacesKept DEF LinkInv

LEMMA PlayEventStep ==
  \A from, to, states :
    LinkInv /\ states \in Seq(PlayState) \ {<<>>} /\ to \in PlayState /\ states[Len(states)] = to
      /\ PlayEvent(from, states, to) => LinkInv'
<1> SUFFICES ASSUME LinkInv, NEW from, NEW to \in PlayState, NEW states \in Seq(PlayState) \ {<<>>},
                    states[Len(states)] = to, PlayEvent(from, states, to)
             PROVE  LinkInv'
  OBVIOUS
<1>1. PICK t \in Tasks : /\ t = [do |-> "fire", of |-> subscribed, states |-> states]
                         /\ t.do = "fire" /\ t.of = subscribed /\ t.states = states
  BY LinkFacts, MadeTasks
<1>2. /\ playState' = to /\ events < MaxEvents /\ events' = events + 1
      /\ \/ subscribed = 0 /\ tasks' = tasks
         \/ subscribed # 0 /\ tasks' = Append(tasks, t)
      /\ UNCHANGED <<connection, live, watched, step, model, alive, viewing, control,
                     subscribed, asyncTasks, shown, replies>>
  BY <1>1 DEF PlayEvent, Queue, wire, models, controls, peer
<1>3. KeepsRequests(tasks, tasks')
  BY <1>1, <1>2, LinkFacts, KeptByQueueing, KeptByNothing
<1>4. /\ tasks' \in Seq(Tasks) /\ Connects(tasks', model, connection)
      /\ Disconnects(tasks) => Disconnects(tasks')
      /\ NoConnect(tasks) => NoConnect(tasks')
      /\ FiresUpTo(tasks', model)
      /\ subscribed = 0 => tasks' = tasks
  <2>1. CASE subscribed = 0 /\ tasks' = tasks
    BY <2>1 DEF LinkInv, LinkTypes
  <2>2. CASE subscribed # 0 /\ tasks' = Append(tasks, t)
    <3>1. t.of \in 1..model /\ t.do # "connect"
      BY <2>2, <1>1, LinkFacts
    <3> QED BY <3>1, <2>2, LinkFacts, QueueTask DEF LinkInv
  <2> QED BY <2>1, <2>2, <1>2
<1>5. LinkTypes'
  <2>1. events' \in 0..MaxEvents
    BY <1>2, LinkAssumption DEF LinkInv, LinkTypes
  <2> QED BY <2>1, <1>2, <1>4 DEF LinkInv, LinkTypes
<1>6. WillEnd' /\ NewModel' /\ NotViewing'
  BY <1>2, <1>4 DEF LinkInv, WillEnd, NewModel, NotViewing
<1>7. control' # 0 /\ Live(control)' => Tells(tasks', control', shown', playState')
  <2> SUFFICES ASSUME control # 0, Live(control) PROVE Tells(tasks', control, shown, playState')
    BY <1>2 DEF Live
  <2>1. Tells(tasks, control, shown, playState) /\ control = subscribed /\ subscribed # 0
    BY DEF LinkInv, LinkTypes
  <2>2. FiredBy(t, control)
    BY <2>1, <1>1 DEF FiredBy
  <2> QED BY <2>1, <2>2, <1>1, <1>2, LinkFacts, QueueReport
<1>8. (alive' = "yes" => model' > 0) /\ (subscribed' # 0 => alive' = "yes")
  BY <1>2 DEF LinkInv
<1> QED BY <1>2, <1>3, <1>4, <1>5, <1>6, <1>7, <1>8, PlacesKept DEF LinkInv

LEMMA PIEStep == LinkInv /\ PIE => LinkInv'
<1>1. /\ {<<"Play">>, <<"Idle">>, <<"Pause">>, SingleStep} \subseteq Seq(PlayState) \ {<<>>}
      /\ <<"Play">>[Len(<<"Play">>)] = "Play" /\ <<"Idle">>[Len(<<"Idle">>)] = "Idle"
      /\ <<"Pause">>[Len(<<"Pause">>)] = "Pause" /\ SingleStep[Len(SingleStep)] = "Pause"
      /\ {"Play", "Idle", "Pause"} \subseteq PlayState
  BY DEF PlayState, SingleStep
<1> QED BY <1>1, PlayEventStep DEF PIE

LEMMA LinkStep == LinkInv /\ LinkNext => LinkInv'
BY ConnectedStep, DisconnectedStep, RequestedStep, RunConnectStep, AddDisconnectionStep,
   SetAliveStep, RunDisconnectStep, RunViewStep, RunRequestStep, RunModelActionStep,
   StartupModuleStep, ShutdownModuleStep, PIEStep, RequestPlayWorldCommandStep
   DEF LinkNext, SchedulerRuns

\* The editor's link: while its model is said to be alive the end of its connection is
\* queued or will be, before the next connection is; what the present game control told
\* last, or is about to, is the editor's play state; and a request is in one place.
THEOREM LinkInvariance == Spec => []LinkPart
<1>1. Init => LinkPart
  <2> SUFFICES ASSUME Init PROVE LinkPart
    OBVIOUS
  <2>1. LinkInit
    BY DEF Init
  <2>2. /\ <<>> \in Seq(Tasks) /\ <<>> \in Seq(RequestTasks) /\ \A i \in 1..Len(<<>>) : FALSE
    OBVIOUS
  <2>3. LinkTypes
    <3>1. live \in BOOLEAN /\ watched \in BOOLEAN
      BY <2>1 DEF LinkInit
    <3>2. tasks \in Seq(Tasks) /\ asyncTasks \in Seq(RequestTasks)
      BY <2>1, <2>2 DEF LinkInit
    <3>3. connection \in 0..MaxConnections /\ model \in 0..connection /\ events \in 0..MaxEvents
      BY <2>1, LinkAssumption DEF LinkInit
    <3>4. playState \in PlayState /\ shown \in (0..model) \X PlayState
      <4>1. <<0, "Idle">> \in (0..0) \X PlayState
        BY DEF PlayState
      <4> QED BY <4>1, <2>1 DEF LinkInit, PlayState
    <3> QED BY <3>1, <3>2, <3>3, <3>4, <2>1 DEF LinkInit, LinkTypes
  <2>4. \A m, c \in Nat : Connects(<<>>, m, c) /\ FiresUpTo(<<>>, m)
    BY <2>2 DEF Connects, FiresUpTo
  <2>5. \A r : OnePlace(<<>>, <<>>, 0, r)
    BY <2>2 DEF OnePlace, Single, Holds
  <2>6. WillEnd /\ NewModel /\ NotViewing
    BY <2>1, <2>4 DEF LinkInit, WillEnd, NewModel, NotViewing
  <2>7. LinkInv
    BY <2>1, <2>3, <2>4, <2>5, <2>6 DEF LinkInit, LinkInv
  <2> QED BY <2>1, <2>7 DEF LinkInit, LinkPart, LinkUnused
<1>2. LinkInv /\ [LinkNext]_linkVars => LinkInv'
  <2>1. LinkInv /\ UNCHANGED linkVars => LinkInv'
    BY DEF linkVars, LinkInv, LinkTypes, WillEnd, NewModel, NotViewing, Live
  <2> QED BY <2>1, LinkStep
<1>3. LinkPart /\ [Next]_vars => LinkPart'
  BY <1>2, StepOfParts DEF LinkPart, LinkUnused, linkVars
<1> QED BY <1>1, <1>3, PTL DEF Spec

\* PlayStateShown: what the other peer was told last is the editor's play state.
THEOREM PlayStateIsShown == Spec => []PlayStateShown
<1>1. LinkInv => PlayStateShown
  <2> SUFFICES ASSUME LinkInv, control # 0, Live(control), shown[1] = control,
                      \A i \in DOMAIN tasks : tasks[i].do # "fire"
               PROVE  shown[2] = playState
    BY DEF PlayStateShown
  <2>1. \A i \in 1..Len(tasks) : ~FiredBy(tasks[i], control)
    <3>1. \A i \in 1..Len(tasks) : i \in DOMAIN tasks
      BY LinkFacts
    <3> QED BY <3>1 DEF FiredBy
  <2> QED BY <2>1 DEF LinkInv, Tells
<1>2. LinkPart => PlayStateShown
  BY <1>1 DEF LinkPart, LinkUnused, PlayStateShown
<1> QED BY <1>2, LinkInvariance, PTL

\* ModelFreedUnseen: nobody holds on to a model that is replaced.
THEOREM FreedUnseen == Spec => ModelFreedUnseen
<1>1. ASSUME LinkInv, RunConnect PROVE alive # "yes" /\ control = 0 /\ subscribed = 0
  <2>1. PICK t \in Tasks : t = Head(tasks) /\ t.do = "connect" /\ tasks # <<>>
    BY <1>1, RunsFacts DEF RunConnect
  <2>2. ~NoConnect(tasks)
    <3>1. 1 \in 1..Len(tasks) /\ tasks[1] = t
      BY <1>1, <2>1, LinkFacts, TailFacts
    <3> QED BY <3>1, <2>1 DEF NoConnect
  <2>3. ~Disconnects(tasks)
    BY <1>1, <2>1, LinkFacts, RunTask
  <2>4. alive # "yes"
    BY <1>1, <2>2, <2>3 DEF LinkInv, WillEnd
  <2> QED BY <1>1, <2>4 DEF LinkInv, LinkTypes
<1>2. LinkNext => RunConnect \/ model' = model
  BY DEF LinkNext, SchedulerRuns, Connected, Disconnected, Requested, AddDisconnection,
         SetAlive, RunDisconnect, RunView, RunRequest, RunModelAction, StartupModule,
         ShutdownModule, PIE, PlayEvent, RequestPlayWorldCommand, models
<1>3. LinkPart /\ [Next]_vars => [model' # model => alive # "yes" /\ control = 0 /\ subscribed = 0]_linkVars
  <2> SUFFICES ASSUME LinkPart, [Next]_vars, model' # model
               PROVE  alive # "yes" /\ control = 0 /\ subscribed = 0
    OBVIOUS
  <2>1. busy = "link" /\ RunConnect
    BY <1>2, StepOfParts DEF linkVars
  <2> QED BY <2>1, <1>1 DEF LinkPart
<1> QED BY <1>3, LinkInvariance, PTL DEF Spec, ModelFreedUnseen

-----------------------------------------------------------------------------
\* Lifetimes

UserActions == [do : {"user"}, n : Nat]
LifeActions == [do : {"terminate", "erase"}, of : Life]
Actions == UserActions \cup LifeActions
Calls == [of : Life, taken : BOOLEAN, todo : Seq(Actions)]

\* A family f of queues holds a; a is there once at most; a is below b in one of them.
In(f, a) == \E s \in DOMAIN f : \E i \in 1..Len(f[s]) : f[s][i] = a
AtOnce(f, a) ==
  \A s, t \in DOMAIN f : \A i \in 1..Len(f[s]), j \in 1..Len(f[t]) :
    f[s][i] = a /\ f[t][j] = a => s = t /\ i = j
Below(f, a, b) ==
  \E s \in DOMAIN f : \E i, j \in 1..Len(f[s]) : i < j /\ f[s][i] = a /\ f[s][j] = b

\* What becomes of the actions when family f of queues becomes g: they are the same; a is
\* added; a is erased; a, the last of its queue, is taken out.
Same(f, g) ==
  /\ \A x : In(g, x) <=> In(f, x)
  /\ \A x : AtOnce(f, x) => AtOnce(g, x)
  /\ \A x, y : Below(f, x, y) => Below(g, x, y)
More(f, g, a) ==
  /\ \A x : In(g, x) <=> (In(f, x) \/ x = a)
  /\ \A x : AtOnce(f, x) /\ (x # a \/ ~In(f, x)) => AtOnce(g, x)
  /\ \A x, y : Below(f, x, y) => Below(g, x, y)
Less(f, g, a) ==
  /\ \A x : In(g, x) => In(f, x)
  /\ \A x : x # a /\ In(f, x) => In(g, x)
  /\ \A x : AtOnce(f, x) => AtOnce(g, x)
  /\ \A x, y : Below(f, x, y) /\ x # a /\ y # a => Below(g, x, y)
Taken(f, g, a) ==
  /\ \A x : In(f, x) <=> (In(g, x) \/ x = a)
  /\ \A x : AtOnce(f, x) => AtOnce(g, x) /\ (x = a => ~In(g, x))
  /\ \A x, y : Below(f, x, y) /\ y # a => Below(g, x, y)
  /\ \A x, y : AtOnce(f, x) /\ Below(f, x, y) => x # a
\* All of queue q is below a.
Under(q, g, a) == \A i \in 1..Len(q) : Below(g, q[i], a)

\* Queue q is of l, its users' actions are of the first n, and its lifetimes were nested.
Fits(q, l, n, par) ==
  \A i \in 1..Len(q) :
    /\ q[i].do = "user" => q[i].n \in 1..n
    /\ q[i].do # "user" => par[q[i].of] \in Life
    /\ q[i].do = "erase" => q[i].of = l

Doings(n) ==
  {Idle} \cup [at : {"bracket"}, of : Life, n : 1..n]
         \cup [at : {"attach", "erase"}, of : Life, nested : Life]

BaseTypes ==
  /\ terminated \in [Life -> BOOLEAN] /\ made \subseteq Life
  /\ actions \in [Life -> Seq(Actions)]
  /\ running \in [Worker -> Seq(Calls)]
  /\ doing \in [Worker -> Doings(added)]
  /\ parent \in [Life -> Life \cup {NoLife}]
  /\ added \in 0..MaxActions /\ halfOpen \subseteq 1..added
  /\ before \in [Life -> SUBSET (1..added)]
  /\ ran \in [1..MaxActions -> 0..1]
  /\ holder \in [1..MaxActions -> Life \cup {NoLife}] /\ removed \subseteq 1..added
  /\ race \in BOOLEAN

\* Only what was made or is nested is terminated; what is to be erased was.
EndedWasMade == \A l \in Life : terminated[l] => l \in made \/ parent[l] # NoLife
NestedDoings ==
  \A w \in Worker : /\ doing[w].at \in {"attach", "erase"} => parent[doing[w].nested] \in Life
                    /\ doing[w].at = "erase" => terminated[doing[w].nested]

MapsFit == \A l \in Life : Fits(actions[l], l, added, parent)

\* A call of terminate: its lifetime has ended, and it has nothing before it took the actions.
FitCall(c, n, par, term) ==
  Fits(c.todo, c.of, n, par) /\ term[c.of] /\ (~c.taken => c.todo = <<>>)
CallsFit ==
  \A w \in Worker : \A k \in 1..Len(running[w]) : FitCall(running[w][k], added, parent, terminated)

LifeTypes == BaseTypes /\ EndedWasMade /\ NestedDoings /\ MapsFit /\ CallsFit

Brackets == {w \in Worker : doing[w].at = "bracket"}

\* A bracket is opened by one thread, and is not given up before.
OneBracket ==
  /\ \A w \in Brackets : doing[w].n \notin halfOpen
  /\ \A v, w \in Brackets : doing[v].n = doing[w].n => v = w

\* Each action is in one place: it waits, was run, is in the middle of a bracket, or was
\* removed before it was run.
InOnePlace(n) ==
  /\ AtOnce(Waits, User(n))
  /\ n \in removed => ~In(Waits, User(n)) /\ ran[n] = 0 /\ ~Closing(n)
  /\ IF n <= added
     THEN \/ In(Waits, User(n)) /\ ran[n] = 0 /\ ~Closing(n)
          \/ ~In(Waits, User(n)) /\ ran[n] = 1 /\ ~Closing(n)
          \/ ~In(Waits, User(n)) /\ ran[n] = 0 /\ (Closing(n) \/ n \in removed)
     ELSE ran[n] = 0

\* Nothing is left behind in a lifetime that has ended.
Emptied == \A l \in Life : terminated[l] /\ ~Ending(l) => actions[l] = <<>>

\* What a lifetime had when c was nested in it is below the end of c, in the same queue.
EndsFirst ==
  \A c \in Life : \A n \in before[c] :
    terminated[c] \/ n \in removed \/ Below(Waits, User(n), End(c))

LifeInv ==
  /\ LifeTypes /\ OneBracket /\ Emptied /\ EndsFirst
  /\ \A n \in 1..MaxActions : InOnePlace(n)

LifeUnused == added = 0 /\ before = [l \in Life |-> {}] /\ terminated = [l \in Life |-> FALSE]

LifePart == IF busy = "lifetimes" THEN LifeInv ELSE LifeUnused

LEMMA ActionFacts ==
  /\ \A n \in Nat : User(n) \in Actions /\ User(n).do = "user" /\ User(n).n = n
  /\ \A c \in Life : /\ End(c) \in Actions /\ End(c).do = "terminate" /\ End(c).of = c
                     /\ Forget(c) \in Actions /\ Forget(c).do = "erase" /\ Forget(c).of = c
  /\ \A a \in Actions :
       /\ a.do \in {"user", "terminate", "erase"}
       /\ a.do = "user" => a.n \in Nat /\ a = User(a.n)
       /\ a.do = "terminate" => a.of \in Life /\ a = End(a.of)
       /\ a.do = "erase" => a.of \in Life /\ a = Forget(a.of)
<1>1. \A n \in Nat : User(n) \in UserActions /\ User(n).do = "user" /\ User(n).n = n
  BY DEF User, UserActions
<1>2. \A c \in Life : /\ End(c) \in LifeActions /\ End(c).do = "terminate" /\ End(c).of = c
                      /\ Forget(c) \in LifeActions /\ Forget(c).do = "erase" /\ Forget(c).of = c
  BY DEF End, Forget, LifeActions
<1>3. \A a \in UserActions : a.do = "user" /\ a.n \in Nat /\ a = User(a.n)
  BY DEF User, UserActions
<1>4. \A a \in LifeActions : /\ a.do \in {"terminate", "erase"} /\ a.of \in Life
                             /\ a.do = "terminate" => a = End(a.of)
                             /\ a.do = "erase" => a = Forget(a.of)
  BY DEF End, Forget, LifeActions
<1> QED BY <1>1, <1>2, <1>3, <1>4 DEF Actions

LEMMA UsersDiffer ==
  /\ \A m, n : User(m) = User(n) => m = n
  /\ \A m, c : User(m) # End(c) /\ User(m) # Forget(c)
  /\ \A b, c : (End(b) = End(c) => b = c) /\ End(b) # Forget(c)
<1>1. \A m, n : User(m) = User(n) => m = n
  <2>1. \A m : User(m).n = m
    BY DEF User
  <2> QED BY <2>1
<1>2. \A m, c : User(m).do = "user" /\ End(c).do = "terminate" /\ Forget(c).do = "erase" /\ End(c).of = c
  BY DEF User, End, Forget
<1> QED BY <1>1, <1>2

\* An action is added to one of the queues.
LEMMA ShelfAppend ==
  ASSUME NEW D, NEW f \in [D -> Seq(Actions)], NEW s \in D, NEW a \in Actions,
         NEW g \in [D -> Seq(Actions)], g[s] = Append(f[s], a), \A t \in D : t # s => g[t] = f[t]
  PROVE  More(f, g, a) /\ Under(f[s], g, a)
<1>1. PICK n \in Nat :
        /\ n = Len(f[s]) /\ Len(g[s]) = n + 1 /\ g[s][n + 1] = a
        /\ \A i \in 1..n : g[s][i] = f[s][i]
  <2>1. /\ Len(f[s]) \in Nat
        /\ Len(Append(f[s], a)) = Len(f[s]) + 1 /\ Append(f[s], a)[Len(f[s]) + 1] = a
        /\ \A i \in 1..Len(f[s]) : Append(f[s], a)[i] = f[s][i]
    BY AppendFacts
  <2> QED BY <2>1
<1>2. /\ \A i \in 1..(n + 1) : i \in 1..n \/ i = n + 1
      /\ \A i \in 1..n : i \in 1..(n + 1) /\ i < n + 1
      /\ n + 1 \in 1..(n + 1)
  OBVIOUS
<1>3. DOMAIN f = D /\ DOMAIN g = D
  OBVIOUS
<1>4. ASSUME NEW t \in D, NEW i \in 1..Len(f[t]) PROVE i \in 1..Len(g[t]) /\ g[t][i] = f[t][i]
  <2>1. CASE t = s
    BY <2>1, <1>1, <1>2
  <2>2. CASE t # s
    BY <2>2
  <2> QED BY <2>1, <2>2
<1>5. ASSUME NEW t \in D, NEW i \in 1..Len(g[t])
      PROVE  (i \in 1..Len(f[t]) /\ g[t][i] = f[t][i]) \/ (t = s /\ i = n + 1 /\ g[t][i] = a)
  <2>1. CASE t = s
    BY <2>1, <1>1, <1>2
  <2>2. CASE t # s
    BY <2>2
  <2> QED BY <2>1, <2>2
<1>6. ASSUME NEW x PROVE In(g, x) <=> (In(f, x) \/ x = a)
  <2>1. ASSUME In(f, x) PROVE In(g, x)
    BY <2>1, <1>3, <1>4 DEF In
  <2>2. In(g, a)
    BY <1>1, <1>2, <1>3 DEF In
  <2>3. ASSUME In(g, x) PROVE In(f, x) \/ x = a
    BY <2>3, <1>3, <1>5 DEF In
  <2> QED BY <2>1, <2>2, <2>3
<1>7. ASSUME NEW x, AtOnce(f, x), x # a \/ ~In(f, x) PROVE AtOnce(g, x)
  <2>1. CASE x # a
    BY <2>1, <1>3, <1>5, <1>7 DEF AtOnce
  <2>2. CASE ~In(f, x)
    <3>1. \A t \in D : \A i \in 1..Len(g[t]) : g[t][i] = x => t = s /\ i = n + 1
      BY <2>2, <1>3, <1>5 DEF In
    <3> QED BY <3>1, <1>3 DEF AtOnce
  <2> QED BY <2>1, <2>2, <1>7
<1>8. ASSUME NEW x, NEW y, Below(f, x, y) PROVE Below(g, x, y)
  BY <1>3, <1>4, <1>8 DEF Below
<1>9. ASSUME NEW i \in 1..Len(f[s]) PROVE Below(g, f[s][i], a)
  BY <1>1, <1>2, <1>3, <1>9 DEF Below
<1> QED BY <1>6, <1>7, <1>8, <1>9 DEF More, Under

\* Empty queues come and go.
EmptyApart(D, E, f, g) ==
  /\ \A s \in D : s \in E => g[s] = f[s]
  /\ \A s \in D : s \in E \/ f[s] = <<>>
  /\ \A s \in E : s \in D \/ g[s] = <<>>

LEMMA ShelfSame ==
  ASSUME NEW D, NEW E, NEW f \in [D -> Seq(Actions)], NEW g \in [E -> Seq(Actions)],
         EmptyApart(D, E, f, g)
  PROVE  Same(f, g)
<1>1. DOMAIN f = D /\ DOMAIN g = E
  OBVIOUS
<1>2. \A i \in 1..Len(<<>>) : FALSE
  OBVIOUS
<1>3. ASSUME NEW s \in D, NEW i \in 1..Len(f[s]) PROVE s \in E /\ g[s] = f[s]
  BY <1>2 DEF EmptyApart
<1>4. ASSUME NEW s \in E, NEW i \in 1..Len(g[s]) PROVE s \in D /\ g[s] = f[s]
  BY <1>2 DEF EmptyApart
<1>5. ASSUME NEW x PROVE In(g, x) <=> In(f, x)
  BY <1>1, <1>3, <1>4 DEF In
<1>6. ASSUME NEW x, AtOnce(f, x) PROVE AtOnce(g, x)
  BY <1>1, <1>4, <1>6 DEF AtOnce
<1>7. ASSUME NEW x, NEW y, Below(f, x, y) PROVE Below(g, x, y)
  BY <1>1, <1>3, <1>7 DEF Below
<1> QED BY <1>5, <1>6, <1>7 DEF Same

\* A queue is moved to where another, an empty one, was.
Moved(D, f, g, s, t) ==
  /\ f \in [D -> Seq(Actions)] /\ g \in [D -> Seq(Actions)]
  /\ s \in D /\ t \in D /\ s # t /\ f[t] = <<>> /\ g[s] = <<>> /\ g[t] = f[s]
  /\ \A u \in D : u # s /\ u # t => g[u] = f[u]

LEMMA ShelfMove ==
  ASSUME NEW D, NEW f, NEW g, NEW s, NEW t, Moved(D, f, g, s, t)
  PROVE  Same(f, g)
<1> USE DEF Moved
<1>1. DOMAIN f = D /\ DOMAIN g = D
  OBVIOUS
<1>2. \A i \in 1..Len(<<>>) : FALSE
  OBVIOUS
<1>3. ASSUME NEW u \in D, NEW i \in 1..Len(f[u])
      PROVE  \/ u = s /\ g[t] = f[u]
             \/ u # s /\ u # t /\ g[u] = f[u]
  BY <1>2
<1>4. ASSUME NEW u \in D, NEW i \in 1..Len(g[u])
      PROVE  \/ u = t /\ f[s] = g[u]
             \/ u # s /\ u # t /\ f[u] = g[u]
  BY <1>2
<1>5. ASSUME NEW x PROVE In(g, x) <=> In(f, x)
  <2>1. ASSUME In(f, x) PROVE In(g, x)
    BY <2>1, <1>1, <1>3 DEF In
  <2>2. ASSUME In(g, x) PROVE In(f, x)
    BY <2>2, <1>1, <1>4 DEF In
  <2> QED BY <2>1, <2>2
<1>6. ASSUME NEW x, AtOnce(f, x) PROVE AtOnce(g, x)
  <2> SUFFICES ASSUME NEW u \in D, NEW v \in D, NEW i \in 1..Len(g[u]), NEW j \in 1..Len(g[v]),
                      g[u][i] = x, g[v][j] = x
               PROVE  u = v /\ i = j
    BY <1>1 DEF AtOnce
  <2>1. PICK p \in D : f[p] = g[u] /\ ((u = t /\ p = s) \/ (u # t /\ p = u /\ u # s))
    BY <1>4
  <2>2. PICK q \in D : f[q] = g[v] /\ ((v = t /\ q = s) \/ (v # t /\ q = v /\ v # s))
    BY <1>4
  <2>3. p = q /\ i = j
    BY <2>1, <2>2, <1>1, <1>6 DEF AtOnce
  <2> QED BY <2>1, <2>2, <2>3
<1>7. ASSUME NEW x, NEW y, Below(f, x, y) PROVE Below(g, x, y)
  BY <1>1, <1>3, <1>7 DEF Below
<1> QED BY <1>5, <1>6, <1>7 DEF Same

\* The last action of a queue is taken.
LEMMA ShelfDrop ==
  ASSUME NEW D, NEW f \in [D -> Seq(Actions)], NEW s \in D, f[s] # <<>>,
         NEW g \in [D -> Seq(Actions)], g[s] = RemoveAt(f[s], Len(f[s])),
         \A t \in D : t # s => g[t] = f[t],
         NEW a, a = f[s][Len(f[s])]
  PROVE  a \in Actions /\ In(f, a) /\ Taken(f, g, a)
<1>1. PICK n \in Nat :
        /\ Len(g[s]) = n /\ Len(f[s]) = n + 1 /\ f[s][n + 1] = a /\ a \in Actions
        /\ \A i \in 1..n : g[s][i] = f[s][i]
  <2>1. f[s] \in Seq(Actions) /\ Len(f[s]) \in Nat /\ Len(f[s]) > 0
    OBVIOUS
  <2>2. PICK q \in Seq(Actions), n \in Nat : q = f[s] /\ Len(q) = n + 1
    <3>1. Len(f[s]) - 1 \in Nat /\ Len(f[s]) = (Len(f[s]) - 1) + 1
      BY <2>1
    <3> QED BY <3>1, <2>1
  <2>3. /\ SubSeq(q, 1, (n + 1) - 1) \in Seq(Actions) /\ Len(SubSeq(q, 1, (n + 1) - 1)) = n
        /\ \A i \in 1..n : SubSeq(q, 1, (n + 1) - 1)[i] = q[i]
    BY <2>2
  <2>4. SubSeq(q, (n + 1) + 1, n + 1) = <<>>
    BY <2>2
  <2>5. RemoveAt(q, n + 1) = SubSeq(q, 1, (n + 1) - 1)
    <3>1. RemoveAt(q, n + 1) = SubSeq(q, 1, (n + 1) - 1) \o SubSeq(q, (n + 1) + 1, Len(q))
      BY DEF RemoveAt
    <3>2. \A z \in Seq(Actions) : z \o <<>> = z
      OBVIOUS
    <3> QED BY <3>1, <3>2, <2>2, <2>3, <2>4
  <2>6. q[n + 1] \in Actions
    BY <2>2
  <2> QED BY <2>2, <2>3, <2>5, <2>6
<1>2. /\ \A i \in 1..(n + 1) : i \in 1..n \/ i = n + 1
      /\ \A i \in 1..n : i \in 1..(n + 1) /\ i # n + 1
      /\ \A i, j \in 1..(n + 1) : i < j => i \in 1..n
      /\ n + 1 \in 1..(n + 1)
  OBVIOUS
<1>3. DOMAIN f = D /\ DOMAIN g = D
  OBVIOUS
<1>4. ASSUME NEW t \in D, NEW i \in 1..Len(g[t])
      PROVE  i \in 1..Len(f[t]) /\ g[t][i] = f[t][i] /\ ~(t = s /\ i = n + 1)
  <2>1. CASE t = s
    BY <2>1, <1>1, <1>2
  <2>2. CASE t # s
    BY <2>2
  <2> QED BY <2>1, <2>2
<1>5. ASSUME NEW t \in D, NEW i \in 1..Len(f[t])
      PROVE  (i \in 1..Len(g[t]) /\ g[t][i] = f[t][i]) \/ (t = s /\ i = n + 1 /\ f[t][i] = a)
  <2>1. CASE t = s
    BY <2>1, <1>1, <1>2
  <2>2. CASE t # s
    BY <2>2
  <2> QED BY <2>1, <2>2
<1>6. In(f, a)
  BY <1>1, <1>2, <1>3 DEF In
<1>7. ASSUME NEW x PROVE In(f, x) <=> (In(g, x) \/ x = a)
  <2>1. ASSUME In(f, x) PROVE In(g, x) \/ x = a
    BY <2>1, <1>3, <1>5 DEF In
  <2>2. ASSUME In(g, x) PROVE In(f, x)
    BY <2>2, <1>3, <1>4 DEF In
  <2> QED BY <2>1, <2>2, <1>6
<1>8. ASSUME NEW x, AtOnce(f, x) PROVE AtOnce(g, x) /\ (x = a => ~In(g, x))
  <2>1. AtOnce(g, x)
    BY <1>3, <1>4, <1>8 DEF AtOnce
  <2>2. ASSUME x = a, NEW t \in D, NEW i \in 1..Len(g[t]), g[t][i] = x PROVE FALSE
    <3>1. i \in 1..Len(f[t]) /\ f[t][i] = x /\ ~(t = s /\ i = n + 1)
      BY <2>2, <1>4
    <3>2. n + 1 \in 1..Len(f[s]) /\ f[s][n + 1] = x
      BY <2>2, <1>1, <1>2
    <3> QED BY <3>1, <3>2, <1>3, <1>8 DEF AtOnce
  <2> QED BY <2>1, <2>2, <1>3 DEF In
<1>9. ASSUME NEW x, NEW y, Below(f, x, y), y # a PROVE Below(g, x, y)
  <2>1. PICK t \in D : \E i, j \in 1..Len(f[t]) : i < j /\ f[t][i] = x /\ f[t][j] = y
    BY <1>3, <1>9 DEF Below
  <2>2. PICK i \in 1..Len(f[t]), j \in 1..Len(f[t]) : i < j /\ f[t][i] = x /\ f[t][j] = y
    BY <2>1
  <2>3. j \in 1..Len(g[t]) /\ g[t][j] = y
    BY <2>2, <1>5, <1>9
  <2>4. i \in 1..Len(g[t]) /\ g[t][i] = x
    <3>1. CASE t = s
      BY <3>1, <2>2, <1>1, <1>2
    <3>2. CASE t # s
      BY <3>2, <2>2
    <3> QED BY <3>1, <3>2
  <2> QED BY <2>2, <2>3, <2>4, <1>3 DEF Below
<1>10. ASSUME NEW x, NEW y, AtOnce(f, x), Below(f, x, y), x = a PROVE FALSE
  <2>1. PICK t \in D : \E i, j \in 1..Len(f[t]) : i < j /\ f[t][i] = x /\ f[t][j] = y
    BY <1>3, <1>10 DEF Below
  <2>2. PICK i \in 1..Len(f[t]), j \in 1..Len(f[t]) : i < j /\ f[t][i] = x
    BY <2>1
  <2>3. n + 1 \in 1..Len(f[s]) /\ f[s][n + 1] = x
    BY <1>1, <1>2, <1>10
  <2>4. t = s /\ i = n + 1
    BY <2>2, <2>3, <1>3, <1>10 DEF AtOnce
  <2>5. j \in 1..(n + 1)
    BY <2>4, <1>1
  <2> QED BY <2>2, <2>4, <2>5
<1> QED BY <1>1, <1>6, <1>7, <1>8, <1>9, <1>10 DEF Taken

\* One place i of a queue is closed up: what follows moves down.
LEMMA RemovedFacts ==
  ASSUME NEW q \in Seq(Actions), NEW i \in 1..Len(q)
  PROVE  /\ RemoveAt(q, i) \in Seq(Actions) /\ Len(RemoveAt(q, i)) = Len(q) - 1
         /\ \A k \in 1..Len(q) - 1 : RemoveAt(q, i)[k] = IF k < i THEN q[k] ELSE q[k + 1]
<1>1. PICK n \in Nat, m \in Nat : Len(q) = n /\ i = m + 1 /\ m + 1 <= n
  <2>1. Len(q) \in Nat /\ i - 1 \in Nat /\ i = (i - 1) + 1 /\ (i - 1) + 1 <= Len(q)
    OBVIOUS
  <2> QED BY <2>1
<1>2. PICK u \in Seq(Actions), v \in Seq(Actions) :
        /\ u = SubSeq(q, 1, (m + 1) - 1) /\ v = SubSeq(q, (m + 1) + 1, n)
        /\ Len(u) = m /\ Len(v) = n - (m + 1)
        /\ \A k \in 1..m : u[k] = q[k]
        /\ \A k \in 1..(n - (m + 1)) : v[k] = q[k + (m + 1)]
  <2>1. /\ SubSeq(q, 1, (m + 1) - 1) \in Seq(Actions) /\ Len(SubSeq(q, 1, (m + 1) - 1)) = m
        /\ \A k \in 1..m : SubSeq(q, 1, (m + 1) - 1)[k] = q[k]
    BY <1>1
  <2>2. /\ SubSeq(q, (m + 1) + 1, n) \in Seq(Actions)
        /\ Len(SubSeq(q, (m + 1) + 1, n)) = n - (m + 1)
    BY <1>1
  <2>3. \A k \in 1..(n - (m + 1)) : SubSeq(q, (m + 1) + 1, n)[k] = q[k + (m + 1)]
    BY <1>1
  <2> QED BY <2>1, <2>2, <2>3
<1>3. RemoveAt(q, i) = u \o v
  BY <1>1, <1>2 DEF RemoveAt
<1>4. /\ u \o v \in Seq(Actions) /\ Len(u \o v) = m + (n - (m + 1))
      /\ \A k \in 1..m : (u \o v)[k] = u[k]
      /\ \A k \in 1..(n - (m + 1)) : (u \o v)[m + k] = v[k]
  <2>1. /\ u \o v \in Seq(Actions) /\ Len(u \o v) = Len(u) + Len(v)
        /\ \A k \in 1..Len(u) : (u \o v)[k] = u[k]
        /\ \A k \in 1..Len(v) : (u \o v)[Len(u) + k] = v[k]
    BY AppendMany
  <2> QED BY <1>2, <2>1
<1>5. ASSUME NEW k \in 1..(n - 1) PROVE (u \o v)[k] = IF k < m + 1 THEN q[k] ELSE q[k + 1]
  <2>1. CASE k < m + 1
    <3>1. k \in 1..m
      BY <2>1
    <3> QED BY <3>1, <2>1, <1>2, <1>4
  <2>2. CASE ~(k < m + 1)
    <3>1. PICK j \in 1..(n - (m + 1)) : k = m + j
      <4>1. k - m \in 1..(n - (m + 1)) /\ k = m + (k - m)
        BY <2>2, <1>1
      <4> QED BY <4>1
    <3>2. j + (m + 1) = k + 1
      BY <3>1
    <3> QED BY <3>1, <3>2, <2>2, <1>2, <1>4
  <2> QED BY <2>1, <2>2
<1>6. m + (n - (m + 1)) = n - 1
  OBVIOUS
<1> QED BY <1>1, <1>3, <1>4, <1>5, <1>6

\* An action is erased from one of the queues, if it is there.
LEMMA ShelfErase ==
  ASSUME NEW D, NEW f \in [D -> Seq(Actions)], NEW s \in D, NEW a,
         NEW g \in [D -> Seq(Actions)], g[s] = Erased(f[s], a), \A t \in D : t # s => g[t] = f[t]
  PROVE  Less(f, g, a)
<1>1. DOMAIN f = D /\ DOMAIN g = D
  OBVIOUS
<1>2. CASE ~\E i \in 1..Len(f[s]) : f[s][i] = a
  <2>1. a \notin Range(f[s])
    <3>1. DOMAIN f[s] = 1..Len(f[s])
      OBVIOUS
    <3> QED BY <3>1, <1>2 DEF Range
  <2>2. \A t \in D : g[t] = f[t]
    BY <2>1 DEF Erased
  <2>3. g = f
    BY <2>2
  <2> QED BY <2>3 DEF Less
<1>3. CASE \E i \in 1..Len(f[s]) : f[s][i] = a
  <2>1. PICK i \in 1..Len(f[s]) : f[s][i] = a /\ g[s] = RemoveAt(f[s], i)
    <3>1. DOMAIN f[s] = 1..Len(f[s])
      OBVIOUS
    <3>2. a \in Range(f[s])
      BY <3>1, <1>3 DEF Range
    <3> DEFINE c == CHOOSE i \in DOMAIN f[s] : f[s][i] = a
    <3>3. c \in 1..Len(f[s]) /\ f[s][c] = a
      BY <3>1, <1>3
    <3>4. g[s] = RemoveAt(f[s], c)
      BY <3>2 DEF Erased
    <3> QED BY <3>3, <3>4
  <2>2. PICK n \in Nat :
          /\ Len(f[s]) = n + 1 /\ Len(g[s]) = n /\ i \in 1..(n + 1)
          /\ \A k \in 1..n : g[s][k] = IF k < i THEN f[s][k] ELSE f[s][k + 1]
    <3>1. f[s] \in Seq(Actions)
      OBVIOUS
    <3>2. /\ Len(RemoveAt(f[s], i)) = Len(f[s]) - 1
          /\ \A k \in 1..Len(f[s]) - 1 : RemoveAt(f[s], i)[k] = IF k < i THEN f[s][k] ELSE f[s][k + 1]
      BY <3>1, RemovedFacts
    <3>3. Len(f[s]) - 1 \in Nat /\ Len(f[s]) = (Len(f[s]) - 1) + 1
      BY <3>1
    <3> QED BY <2>1, <3>2, <3>3
  \* where place k of g was
  <2> DEFINE was(t, k) == IF t = s /\ ~(k < i) THEN k + 1 ELSE k
  <2>3. ASSUME NEW t \in D, NEW k \in 1..Len(g[t])
        PROVE  was(t, k) \in 1..Len(f[t]) /\ f[t][was(t, k)] = g[t][k]
    <3>1. CASE t = s /\ k < i
      <4>1. k \in 1..(n + 1)
        BY <3>1, <2>2
      <4> QED BY <4>1, <3>1, <2>2
    <3>2. CASE t = s /\ ~(k < i)
      <4>1. k + 1 \in 1..(n + 1)
        BY <3>2, <2>2
      <4> QED BY <4>1, <3>2, <2>2
    <3>3. CASE t # s
      BY <3>3
    <3> QED BY <3>1, <3>2, <3>3
  <2>4. ASSUME NEW t \in D, NEW k \in 1..Len(f[t]), f[t][k] # a
        PROVE  \E h \in 1..Len(g[t]) : was(t, h) = k
    <3>1. CASE t = s /\ k < i
      <4>1. k \in 1..n
        BY <3>1, <2>2
      <4> QED BY <4>1, <3>1, <2>2
    <3>2. CASE t = s /\ ~(k < i)
      <4>1. k # i
        BY <3>2, <2>1, <2>4
      <4>2. k - 1 \in 1..n /\ ~(k - 1 < i) /\ (k - 1) + 1 = k
        BY <4>1, <3>2, <2>2
      <4> QED BY <4>2, <3>2, <2>2
    <3>3. CASE t # s
      BY <3>3
    <3> QED BY <3>1, <3>2, <3>3
  <2>5. ASSUME NEW t \in D, NEW k \in 1..Len(g[t]), NEW h \in 1..Len(g[t])
        PROVE  (was(t, k) = was(t, h) => k = h) /\ (was(t, k) < was(t, h) => k < h)
    <3>1. k \in Nat /\ h \in Nat /\ i \in Nat
      BY <2>2
    <3> QED BY <3>1
  <2> HIDE DEF was
  <2>6. ASSUME NEW x, In(g, x) PROVE In(f, x)
    BY <2>3, <2>6, <1>1 DEF In
  <2>7. ASSUME NEW x, x # a, In(f, x) PROVE In(g, x)
    <3>1. PICK t \in D : \E k \in 1..Len(f[t]) : f[t][k] = x
      BY <2>7, <1>1 DEF In
    <3>2. PICK h \in 1..Len(g[t]) : f[t][was(t, h)] = x
      BY <3>1, <2>4, <2>7
    <3> QED BY <3>2, <2>3, <1>1 DEF In
  <2>8. ASSUME NEW x, AtOnce(f, x) PROVE AtOnce(g, x)
    <3> SUFFICES ASSUME NEW t \in D, NEW u \in D, NEW k \in 1..Len(g[t]), NEW h \in 1..Len(g[u]),
                        g[t][k] = x, g[u][h] = x
                 PROVE  t = u /\ k = h
      BY <1>1 DEF AtOnce
    <3>1. was(t, k) \in 1..Len(f[t]) /\ f[t][was(t, k)] = x
      BY <2>3
    <3>2. was(u, h) \in 1..Len(f[u]) /\ f[u][was(u, h)] = x
      BY <2>3
    <3>3. t = u /\ was(t, k) = was(u, h)
      BY <3>1, <3>2, <2>8, <1>1 DEF AtOnce
    <3> QED BY <3>3, <2>5
  <2>9. ASSUME NEW x, NEW y, Below(f, x, y), x # a, y # a PROVE Below(g, x, y)
    <3>1. PICK t \in D : \E k, h \in 1..Len(f[t]) : k < h /\ f[t][k] = x /\ f[t][h] = y
      BY <2>9, <1>1 DEF Below
    <3>2. PICK k \in 1..Len(f[t]), h \in 1..Len(f[t]) : k < h /\ f[t][k] = x /\ f[t][h] = y
      BY <3>1
    <3>3. PICK v \in 1..Len(g[t]), w \in 1..Len(g[t]) : was(t, v) = k /\ was(t, w) = h
      BY <3>2, <2>4, <2>9
    <3>4. g[t][v] = x /\ g[t][w] = y /\ v < w
      BY <3>2, <3>3, <2>3, <2>5
    <3> QED BY <3>4, <1>1 DEF Below
  <2> QED BY <2>6, <2>7, <2>8, <2>9 DEF Less
<1> QED BY <1>2, <1>3


\* Waits over given maps and calls.
Spots(run) == (Life \X {0}) \cup UNION {{w} \X DOMAIN run[w] : w \in Worker}
Shelves(act, run) ==
  [at \in Spots(run) |-> IF at[2] = 0 THEN act[at[1]] ELSE run[at[1]][at[2]].todo]

LEMMA CallShelf ==
  ASSUME NEW act, NEW run \in [Worker -> Seq(Calls)], NEW w \in Worker, NEW k \in 1..Len(run[w])
  PROVE  <<w, k>> \in Spots(run) /\ Shelves(act, run)[<<w, k>>] = run[w][k].todo
<1>1. DOMAIN run[w] = 1..Len(run[w]) /\ k # 0
  OBVIOUS
<1>2. <<w, k>> \in Spots(run)
  BY <1>1 DEF Spots
<1> QED BY <1>1, <1>2 DEF Shelves

ShelvesOfCalls(act, run) ==
  \A v \in Worker : \A k \in 1..Len(run[v]) :
    <<v, k>> \in Spots(run) /\ Shelves(act, run)[<<v, k>>] = run[v][k].todo

LEMMA CallShelves ==
  ASSUME NEW act, NEW run \in [Worker -> Seq(Calls)]
  PROVE  ShelvesOfCalls(act, run)
<1> SUFFICES ASSUME NEW v \in Worker, NEW k \in 1..Len(run[v])
             PROVE  <<v, k>> \in Spots(run) /\ Shelves(act, run)[<<v, k>>] = run[v][k].todo
  BY DEF ShelvesOfCalls
<1> QED BY CallShelf

LEMMA ShelvesAre ==
  ASSUME NEW act \in [Life -> Seq(Actions)], NEW run \in [Worker -> Seq(Calls)]
  PROVE  /\ Shelves(act, run) \in [Spots(run) -> Seq(Actions)]
         /\ \A l \in Life : <<l, 0>> \in Spots(run) /\ Shelves(act, run)[<<l, 0>>] = act[l]
         /\ \A s \in Spots(run) :
              \/ \E l \in Life : s = <<l, 0>>
              \/ \E w \in Worker : \E k \in 1..Len(run[w]) : s = <<w, k>>
<1>1. \A w \in Worker : DOMAIN run[w] = 1..Len(run[w])
  OBVIOUS
<1>2. \A w \in Worker : \A k \in 1..Len(run[w]) : k # 0 /\ run[w][k].todo \in Seq(Actions)
  <2>1. \A w \in Worker : \A k \in 1..Len(run[w]) : k # 0 /\ run[w][k] \in Calls
    OBVIOUS
  <2> QED BY <2>1 DEF Calls
<1>3. ASSUME NEW s \in Spots(run)
      PROVE  \/ \E l \in Life : s = <<l, 0>>
             \/ \E w \in Worker : \E k \in 1..Len(run[w]) : s = <<w, k>>
  BY <1>1 DEF Spots
<1>4. ASSUME NEW l \in Life
      PROVE  <<l, 0>> \in Spots(run) /\ Shelves(act, run)[<<l, 0>>] = act[l]
  BY DEF Spots, Shelves
<1>5. ASSUME NEW w \in Worker, NEW k \in 1..Len(run[w])
      PROVE  Shelves(act, run)[<<w, k>>] = run[w][k].todo
  BY CallShelf
<1>6. Shelves(act, run) \in [Spots(run) -> Seq(Actions)]
  <2>1. \A s \in Spots(run) : Shelves(act, run)[s] \in Seq(Actions)
    BY <1>2, <1>3, <1>4, <1>5
  <2>2. Shelves(act, run) = [s \in Spots(run) |-> Shelves(act, run)[s]]
    BY DEF Shelves
  <2> QED BY <2>1, <2>2
<1> QED BY <1>3, <1>4, <1>5, <1>6

\* Families f and g of queues differ in the t-th only; of maps, of calls.
Apart(D, f, g, t) ==
  /\ f \in [D -> Seq(Actions)] /\ g \in [D -> Seq(Actions)] /\ t \in D
  /\ \A u \in D : u # t => g[u] = f[u]
OneMap(act, act2, l) == \A m \in Life : m # l => act2[m] = act[m]
OneCall(run, run2, w, k) ==
  /\ \A v \in Worker : Len(run2[v]) = Len(run[v])
  /\ \A v \in Worker : \A i \in 1..Len(run[v]) : (v = w /\ i = k) \/ run2[v][i] = run[v][i]

LEMMA OtherShelves ==
  ASSUME NEW act \in [Life -> Seq(Actions)], NEW run \in [Worker -> Seq(Calls)],
         NEW l \in Life, NEW act2 \in [Life -> Seq(Actions)], OneMap(act, act2, l)
  PROVE  /\ Apart(Spots(run), Shelves(act, run), Shelves(act2, run), <<l, 0>>)
         /\ Shelves(act2, run)[<<l, 0>>] = act2[l]
<1>2. Shelves(act2, run) \in [Spots(run) -> Seq(Actions)] /\ Shelves(act2, run)[<<l, 0>>] = act2[l]
  BY ShelvesAre
<1>3. ASSUME NEW t \in Spots(run), t # <<l, 0>> PROVE Shelves(act2, run)[t] = Shelves(act, run)[t]
  <2>1. CASE \E m \in Life : t = <<m, 0>>
    <3>1. PICK m \in Life : t = <<m, 0>>
      BY <2>1
    <3>2. Shelves(act2, run)[<<m, 0>>] = act2[m]
      BY ShelvesAre
    <3>3. Shelves(act, run)[<<m, 0>>] = act[m]
      BY ShelvesAre
    <3> QED BY <3>1, <3>2, <3>3, <1>3 DEF OneMap
  <2>2. CASE \E w \in Worker : \E k \in 1..Len(run[w]) : t = <<w, k>>
    <3>1. PICK w \in Worker : \E k \in 1..Len(run[w]) : t = <<w, k>>
      BY <2>2
    <3>2. PICK k \in 1..Len(run[w]) : t = <<w, k>>
      BY <3>1
    <3>3. Shelves(act2, run)[<<w, k>>] = run[w][k].todo
      BY CallShelf
    <3>4. Shelves(act, run)[<<w, k>>] = run[w][k].todo
      BY CallShelf
    <3> QED BY <3>2, <3>3, <3>4
  <2>3. \/ \E m \in Life : t = <<m, 0>>
        \/ \E w \in Worker : \E k \in 1..Len(run[w]) : t = <<w, k>>
    BY ShelvesAre
  <2> QED BY <2>1, <2>2, <2>3
<1>4. Shelves(act, run) \in [Spots(run) -> Seq(Actions)] /\ <<l, 0>> \in Spots(run)
  BY ShelvesAre
<1> QED BY <1>2, <1>3, <1>4 DEF Apart

\* Only the k-th call of w changes.
LEMMA OtherCalls ==
  ASSUME NEW act \in [Life -> Seq(Actions)], NEW run \in [Worker -> Seq(Calls)],
         NEW run2 \in [Worker -> Seq(Calls)], NEW w \in Worker, NEW k \in 1..Len(run[w]),
         OneCall(run, run2, w, k)
  PROVE  /\ Spots(run2) = Spots(run)
         /\ Apart(Spots(run), Shelves(act, run), Shelves(act, run2), <<w, k>>)
         /\ Shelves(act, run2)[<<w, k>>] = run2[w][k].todo
<1>1. \A v \in Worker : DOMAIN run2[v] = DOMAIN run[v]
  <2> SUFFICES ASSUME NEW v \in Worker PROVE DOMAIN run2[v] = DOMAIN run[v]
    OBVIOUS
  <2>1. DOMAIN run2[v] = 1..Len(run2[v])
    OBVIOUS
  <2>2. DOMAIN run[v] = 1..Len(run[v])
    OBVIOUS
  <2> QED BY <2>1, <2>2 DEF OneCall
<1>2. Spots(run2) = Spots(run)
  BY <1>1 DEF Spots
<1>3. Shelves(act, run2) \in [Spots(run2) -> Seq(Actions)]
  BY ShelvesAre
<1>4. \A v \in Worker : \A i \in 1..Len(run2[v]) : Shelves(act, run2)[<<v, i>>] = run2[v][i].todo
  <2>1. ShelvesOfCalls(act, run2)
    BY CallShelves
  <2> QED BY <2>1 DEF ShelvesOfCalls
<1>5. \A v \in Worker : \A i \in 1..Len(run[v]) :
        <<v, i>> \in Spots(run) /\ Shelves(act, run)[<<v, i>>] = run[v][i].todo
  <2>1. ShelvesOfCalls(act, run)
    BY CallShelves
  <2> QED BY <2>1 DEF ShelvesOfCalls
<1>6. \A m \in Life : Shelves(act, run2)[<<m, 0>>] = act[m]
  BY ShelvesAre
<1>7. \A m \in Life : Shelves(act, run)[<<m, 0>>] = act[m]
  BY ShelvesAre
<1>8. \A t \in Spots(run) : \/ \E m \in Life : t = <<m, 0>>
                            \/ \E v \in Worker : \E i \in 1..Len(run[v]) : t = <<v, i>>
  BY ShelvesAre
<1>9. ASSUME NEW t \in Spots(run), t # <<w, k>> PROVE Shelves(act, run2)[t] = Shelves(act, run)[t]
  <2>1. CASE \E m \in Life : t = <<m, 0>>
    BY <2>1, <1>6, <1>7
  <2>2. ASSUME NEW v \in Worker, NEW i \in 1..Len(run[v]), t = <<v, i>>
        PROVE  Shelves(act, run2)[t] = Shelves(act, run)[t]
    <3>1. run2[v][i] = run[v][i] /\ i \in 1..Len(run2[v])
      BY <2>2, <1>9 DEF OneCall
    <3> QED BY <3>1, <2>2, <1>4, <1>5
  <2> QED BY <2>1, <2>2, <1>8
<1>10. k \in 1..Len(run2[w])
  BY DEF OneCall
<1>11. Shelves(act, run) \in [Spots(run) -> Seq(Actions)]
  BY ShelvesAre
<1> QED BY <1>2, <1>3, <1>4, <1>5, <1>9, <1>10, <1>11 DEF Apart

\* An action is added to the map of l.
LEMMA ShelvesAdded ==
  ASSUME NEW act \in [Life -> Seq(Actions)], NEW run \in [Worker -> Seq(Calls)],
         NEW l \in Life, NEW a \in Actions, NEW act2 \in [Life -> Seq(Actions)],
         act2[l] = Append(act[l], a), OneMap(act, act2, l)
  PROVE  /\ More(Shelves(act, run), Shelves(act2, run), a)
         /\ Under(act[l], Shelves(act2, run), a)
<1> DEFINE f == Shelves(act, run)
           g == Shelves(act2, run)
           D == Spots(run)
           s == <<l, 0>>
<1>1. Apart(D, f, g, s) /\ g[s] = act2[l]
  BY OtherShelves
<1>2. f[s] = act[l]
  BY ShelvesAre
<1> HIDE DEF f, g, D, s
<1>4. /\ f \in [D -> Seq(Actions)] /\ s \in D /\ g \in [D -> Seq(Actions)]
      /\ g[s] = Append(f[s], a) /\ \A t \in D : t # s => g[t] = f[t]
  BY <1>1, <1>2 DEF Apart
<1>5. More(f, g, a) /\ Under(f[s], g, a)
  BY <1>4, ShelfAppend
<1> QED BY <1>2, <1>5 DEF f, g

\* An action is erased from the map of l, if it is there.
LEMMA ShelvesErased ==
  ASSUME NEW act \in [Life -> Seq(Actions)], NEW run \in [Worker -> Seq(Calls)],
         NEW l \in Life, NEW a, NEW act2 \in [Life -> Seq(Actions)],
         act2[l] = Erased(act[l], a), OneMap(act, act2, l)
  PROVE  Less(Shelves(act, run), Shelves(act2, run), a)
<1> DEFINE f == Shelves(act, run)
           g == Shelves(act2, run)
           D == Spots(run)
           s == <<l, 0>>
<1>1. Apart(D, f, g, s) /\ g[s] = act2[l]
  BY OtherShelves
<1>2. f[s] = act[l]
  BY ShelvesAre
<1> HIDE DEF f, g, D, s
<1>3. /\ f \in [D -> Seq(Actions)] /\ s \in D /\ g \in [D -> Seq(Actions)]
      /\ g[s] = Erased(f[s], a) /\ \A t \in D : t # s => g[t] = f[t]
  BY <1>1, <1>2 DEF Apart
<1>4. Less(f, g, a)
  BY <1>3, ShelfErase
<1> QED BY <1>4 DEF f, g

\* Calls without actions come and go at the end of the calls of w.
LEMMA EmptyCalls ==
  ASSUME NEW act \in [Life -> Seq(Actions)], NEW run \in [Worker -> Seq(Calls)],
         NEW run2 \in [Worker -> Seq(Calls)],
         NEW w \in Worker, \A v \in Worker : v # w => run2[v] = run[v],
         \A k \in 1..Len(run[w]) : k \in 1..Len(run2[w]) => run2[w][k] = run[w][k],
         \A k \in 1..Len(run[w]) : k \in 1..Len(run2[w]) \/ run[w][k].todo = <<>>,
         \A k \in 1..Len(run2[w]) : k \in 1..Len(run[w]) \/ run2[w][k].todo = <<>>
  PROVE  Same(Shelves(act, run), Shelves(act, run2))
<1> DEFINE f == Shelves(act, run)
           g == Shelves(act, run2)
           D == Spots(run)
           E == Spots(run2)
<1>1. /\ f \in [D -> Seq(Actions)]
      /\ \A l \in Life : <<l, 0>> \in D /\ f[<<l, 0>>] = act[l]
      /\ \A s \in D : \/ \E l \in Life : s = <<l, 0>>
                      \/ \E v \in Worker : \E k \in 1..Len(run[v]) : s = <<v, k>>
  BY ShelvesAre
<1>2. /\ g \in [E -> Seq(Actions)]
      /\ \A l \in Life : <<l, 0>> \in E /\ g[<<l, 0>>] = act[l]
      /\ \A s \in E : \/ \E l \in Life : s = <<l, 0>>
                      \/ \E v \in Worker : \E k \in 1..Len(run2[v]) : s = <<v, k>>
  BY ShelvesAre
<1>3. \A v \in Worker : \A k \in 1..Len(run[v]) : <<v, k>> \in D /\ f[<<v, k>>] = run[v][k].todo
  BY CallShelves DEF ShelvesOfCalls
<1>4. \A v \in Worker : \A k \in 1..Len(run2[v]) : <<v, k>> \in E /\ g[<<v, k>>] = run2[v][k].todo
  BY CallShelves DEF ShelvesOfCalls
<1> HIDE DEF f, g, D, E
<1>5. ASSUME NEW s \in D PROVE (s \in E => g[s] = f[s]) /\ (s \in E \/ f[s] = <<>>)
  <2>1. CASE \E l \in Life : s = <<l, 0>>
    BY <2>1, <1>1, <1>2
  <2>2. ASSUME NEW v \in Worker, NEW k \in 1..Len(run[v]), s = <<v, k>>
        PROVE  (s \in E => g[s] = f[s]) /\ (s \in E \/ f[s] = <<>>)
    <3>1. f[s] = run[v][k].todo
      BY <2>2, <1>3
    <3>2. CASE k \in 1..Len(run2[v])
      <4>1. run2[v][k] = run[v][k]
        <5>1. CASE v = w
          BY <5>1, <3>2
        <5>2. CASE v # w
          BY <5>2
        <5> QED BY <5>1, <5>2
      <4>2. s \in E /\ g[s] = run2[v][k].todo
        BY <2>2, <3>2, <1>4
      <4> QED BY <3>1, <4>1, <4>2
    <3>3. CASE k \notin 1..Len(run2[v])
      <4>1. v = w /\ f[s] = <<>>
        BY <3>1, <3>3
      <4>2. s \notin E
        <5>1. \A l \in Life : s # <<l, 0>>
          BY <2>2
        <5> QED BY <5>1, <2>2, <3>3, <1>2
      <4> QED BY <4>1, <4>2
    <3> QED BY <3>2, <3>3
  <2> QED BY <2>1, <2>2, <1>1
<1>6. ASSUME NEW s \in E, s \notin D PROVE g[s] = <<>>
  <2>1. PICK v \in Worker : \E k \in 1..Len(run2[v]) : s = <<v, k>>
    BY <1>1, <1>2, <1>6
  <2>2. PICK k \in 1..Len(run2[v]) : s = <<v, k>>
    BY <2>1
  <2>3. k \notin 1..Len(run[v])
    BY <2>2, <1>3, <1>6
  <2>4. v = w
    BY <2>3, <2>2
  <2>5. run2[v][k].todo = <<>>
    BY <2>3, <2>4
  <2> QED BY <2>2, <2>5, <1>4
<1>7. EmptyApart(D, E, f, g)
  BY <1>5, <1>6 DEF EmptyApart
<1>8. Same(f, g)
  <2>1. f \in [D -> Seq(Actions)] /\ g \in [E -> Seq(Actions)]
    BY <1>1, <1>2
  <2> QED BY <2>1, <1>7, ShelfSame
<1> QED BY <1>8 DEF f, g

\* What one action must be to fit.
FitsOne(a, l, n, par) ==
  /\ a.do = "user" => a.n \in 1..n
  /\ a.do # "user" => par[a.of] \in Life
  /\ a.do = "erase" => a.of = l

LEMMA FitsSome ==
  ASSUME NEW q \in Seq(Actions), NEW l, NEW n, NEW par
  PROVE  Fits(q, l, n, par) <=> \A i \in 1..Len(q) : FitsOne(q[i], l, n, par)
BY DEF Fits, FitsOne

LEMMA FitsNone == ASSUME NEW l, NEW n, NEW par PROVE Fits(<<>>, l, n, par)
BY DEF Fits

LEMMA FitsAppend ==
  ASSUME NEW q \in Seq(Actions), NEW l, NEW n, NEW par, NEW a \in Actions,
         Fits(q, l, n, par), FitsOne(a, l, n, par)
  PROVE  Fits(Append(q, a), l, n, par)
<1>1. PICK m \in Nat, p \in Seq(Actions) :
        /\ p = Append(q, a) /\ m = Len(q) /\ Len(p) = m + 1 /\ p[m + 1] = a
        /\ \A i \in 1..m : p[i] = q[i]
  <2>1. /\ Len(q) \in Nat /\ Append(q, a) \in Seq(Actions)
        /\ Len(Append(q, a)) = Len(q) + 1 /\ Append(q, a)[Len(q) + 1] = a
        /\ \A i \in 1..Len(q) : Append(q, a)[i] = q[i]
    BY AppendFacts
  <2> QED BY <2>1
<1>2. \A i \in 1..m : FitsOne(q[i], l, n, par)
  BY <1>1, FitsSome
<1>3. ASSUME NEW i \in 1..Len(p) PROVE FitsOne(p[i], l, n, par)
  <2>1. i \in 1..m \/ i = m + 1
    BY <1>1
  <2> QED BY <2>1, <1>1, <1>2
<1>4. Fits(p, l, n, par)
  BY <1>3, FitsSome
<1> QED BY <1>1, <1>4

LEMMA FitsRemoved ==
  ASSUME NEW q \in Seq(Actions), NEW l, NEW n, NEW par, NEW i \in 1..Len(q), Fits(q, l, n, par)
  PROVE  RemoveAt(q, i) \in Seq(Actions) /\ Fits(RemoveAt(q, i), l, n, par)
<1>1. PICK p \in Seq(Actions) :
        /\ p = RemoveAt(q, i) /\ Len(p) = Len(q) - 1
        /\ \A k \in 1..Len(q) - 1 : p[k] = IF k < i THEN q[k] ELSE q[k + 1]
  BY RemovedFacts
<1>2. \A k \in 1..Len(q) : FitsOne(q[k], l, n, par)
  BY FitsSome
<1>3. ASSUME NEW k \in 1..Len(p) PROVE FitsOne(p[k], l, n, par)
  <2>1. k \in 1..Len(q) /\ k + 1 \in 1..Len(q) /\ (p[k] = q[k] \/ p[k] = q[k + 1])
    BY <1>1
  <2> QED BY <2>1, <1>2
<1>4. Fits(p, l, n, par)
  BY <1>3, FitsSome
<1> QED BY <1>1, <1>4

LEMMA FitsErased ==
  ASSUME NEW q \in Seq(Actions), NEW l, NEW n, NEW par, NEW a, Fits(q, l, n, par)
  PROVE  /\ Erased(q, a) \in Seq(Actions) /\ Fits(Erased(q, a), l, n, par)
         /\ q = <<>> => Erased(q, a) = <<>>
<1>1. DOMAIN q = 1..Len(q)
  OBVIOUS
<1>2. CASE a \in Range(q)
  <2> DEFINE c == CHOOSE i \in DOMAIN q : q[i] = a
  <2>1. \E i \in DOMAIN q : q[i] = a
    BY <1>2 DEF Range
  <2>2. c \in 1..Len(q)
    BY <2>1, <1>1
  <2> HIDE DEF c
  <2>3. RemoveAt(q, c) \in Seq(Actions) /\ Fits(RemoveAt(q, c), l, n, par)
    BY <2>2, FitsRemoved
  <2>4. q # <<>>
    BY <2>2
  <2> QED BY <2>3, <2>4, <1>2 DEF Erased, c
<1>3. CASE a \notin Range(q)
  BY <1>3 DEF Erased
<1> QED BY <1>2, <1>3

\* What fits still does when more actions were added and more lifetimes nested.
LEMMA FitsMore ==
  ASSUME NEW q \in Seq(Actions), NEW l, NEW n \in Nat, NEW par, NEW m \in Nat, NEW par2, n <= m,
         \A c \in Life : par[c] \in Life => par2[c] \in Life, Fits(q, l, n, par)
  PROVE  Fits(q, l, m, par2)
<1>1. ASSUME NEW i \in 1..Len(q) PROVE FitsOne(q[i], l, m, par2)
  <2>1. q[i] \in Actions /\ FitsOne(q[i], l, n, par)
    BY FitsSome
  <2>2. \A k \in 1..n : k \in 1..m
    OBVIOUS
  <2>3. q[i].do # "user" => q[i].of \in Life
    BY <2>1, ActionFacts
  <2> QED BY <2>1, <2>2, <2>3 DEF FitsOne
<1> QED BY <1>1, FitsSome

LEMMA WaitsAre ==
  Waits = Shelves(actions, running) /\ Waits' = Shelves(actions', running')
BY DEF Waits, Shelves, Spots

LEMMA DoingFacts ==
  ASSUME NEW n \in Nat
  PROVE  /\ Idle \in Doings(n) /\ Idle.at = "idle"
         /\ \A d \in Doings(n) :
              /\ d.at \in {"idle", "bracket", "attach", "erase"}
              /\ d.at = "bracket" => d.of \in Life /\ d.n \in 1..n
              /\ d.at \in {"attach", "erase"} => d.of \in Life /\ d.nested \in Life
         /\ Doings(n) \subseteq Doings(n + 1)
<1>1. Idle \in Doings(n) /\ Idle.at = "idle"
  BY DEF Doings, Idle
<1>2. ASSUME NEW d \in Doings(n)
      PROVE  /\ d.at \in {"idle", "bracket", "attach", "erase"}
             /\ d.at = "bracket" => d.of \in Life /\ d.n \in 1..n
             /\ d.at \in {"attach", "erase"} => d.of \in Life /\ d.nested \in Life
  BY DEF Doings, Idle
<1>3. \A i \in 1..n : i \in 1..(n + 1)
  OBVIOUS
<1>4. Doings(n) \subseteq Doings(n + 1)
  BY <1>3 DEF Doings
<1> QED BY <1>1, <1>2, <1>4

\* No lifetime is detached or revived, and no action is taken back.
Grows ==
  /\ added' \in Nat /\ added <= added'
  /\ \A c \in Life : parent[c] \in Life => parent'[c] \in Life
  /\ \A c \in Life : terminated[c] => terminated'[c]

LEMMA MapSet ==
  ASSUME BaseTypes, MapsFit, Grows, NEW l \in Life, NEW q \in Seq(Actions),
         Fits(q, l, added', parent'), actions' = [actions EXCEPT ![l] = q]
  PROVE  MapsFit' /\ actions' \in [Life -> Seq(Actions)]
<1>1. actions' \in [Life -> Seq(Actions)] /\ actions'[l] = q
      /\ \A m \in Life : m # l => actions'[m] = actions[m]
  BY DEF BaseTypes
<1>2. ASSUME NEW m \in Life PROVE Fits(actions'[m], m, added', parent')
  <2>1. CASE m = l
    BY <2>1, <1>1
  <2>2. CASE m # l
    <3>1. actions[m] \in Seq(Actions) /\ added \in Nat /\ Fits(actions[m], m, added, parent)
      BY DEF BaseTypes, MapsFit
    <3>2. Fits(actions[m], m, added', parent')
      BY <3>1, FitsMore DEF Grows
    <3> QED BY <3>2, <2>2, <1>1
  <2> QED BY <2>1, <2>2
<1> QED BY <1>1, <1>2 DEF MapsFit

LEMMA MapsKept ==
  ASSUME BaseTypes, MapsFit, Grows, actions' = actions
  PROVE  MapsFit' /\ actions' \in [Life -> Seq(Actions)]
<1>1. ASSUME NEW m \in Life PROVE Fits(actions'[m], m, added', parent')
  <2>1. actions[m] \in Seq(Actions) /\ added \in Nat /\ Fits(actions[m], m, added, parent)
    BY DEF BaseTypes, MapsFit
  <2>2. Fits(actions[m], m, added', parent')
    BY <2>1, FitsMore DEF Grows
  <2> QED BY <2>2
<1> QED BY <1>1 DEF MapsFit, BaseTypes

LEMMA CallFacts ==
  ASSUME NEW c \in Calls PROVE c.of \in Life /\ c.taken \in BOOLEAN /\ c.todo \in Seq(Actions)
BY DEF Calls

LEMMA CallStillFits ==
  ASSUME BaseTypes, CallsFit, Grows, NEW w \in Worker, NEW k \in 1..Len(running[w])
  PROVE  FitCall(running[w][k], added', parent', terminated')
<1>1. running[w][k] \in Calls /\ added \in Nat
  BY DEF BaseTypes
<1>2. PICK c \in Calls : c = running[w][k]
  BY <1>1
<1>3. c.of \in Life /\ c.todo \in Seq(Actions)
  BY CallFacts
<1>4. FitCall(c, added, parent, terminated)
  BY <1>2 DEF CallsFit
<1>5. Fits(c.todo, c.of, added, parent) /\ terminated[c.of] /\ (~c.taken => c.todo = <<>>)
  BY <1>4 DEF FitCall
<1>6. Fits(c.todo, c.of, added', parent')
  BY <1>1, <1>3, <1>5, FitsMore DEF Grows
<1>7. terminated'[c.of]
  BY <1>3, <1>5 DEF Grows
<1> QED BY <1>2, <1>5, <1>6, <1>7 DEF FitCall

LEMMA CallsKept ==
  ASSUME BaseTypes, CallsFit, Grows, running' = running
  PROVE  CallsFit' /\ running' \in [Worker -> Seq(Calls)]
<1>1. ASSUME NEW w \in Worker, NEW k \in 1..Len(running'[w])
      PROVE  FitCall(running'[w][k], added', parent', terminated')
  <2>1. k \in 1..Len(running[w])
    OBVIOUS
  <2>2. FitCall(running[w][k], added', parent', terminated')
    BY <2>1, CallStillFits
  <2> QED BY <2>2
<1> QED BY <1>1 DEF CallsFit, BaseTypes

LEMMA CallsSet ==
  ASSUME BaseTypes, CallsFit, Grows, NEW w \in Worker, NEW q \in Seq(Calls),
         running' = [running EXCEPT ![w] = q],
         \A k \in 1..Len(q) : FitCall(q[k], added', parent', terminated')
  PROVE  CallsFit' /\ running' \in [Worker -> Seq(Calls)]
<1>1. running' \in [Worker -> Seq(Calls)] /\ running'[w] = q
      /\ \A v \in Worker : v # w => running'[v] = running[v]
  BY DEF BaseTypes
<1>2. ASSUME NEW v \in Worker, NEW k \in 1..Len(running'[v])
      PROVE  FitCall(running'[v][k], added', parent', terminated')
  <2>1. CASE v = w
    BY <2>1, <1>1
  <2>2. CASE v # w
    <3>1. k \in 1..Len(running[v])
      BY <2>2, <1>1
    <3>2. FitCall(running[v][k], added', parent', terminated')
      BY <3>1, CallStillFits
    <3> QED BY <3>2, <2>2, <1>1
  <2> QED BY <2>1, <2>2
<1> QED BY <1>1, <1>2 DEF CallsFit

\* A user's action that waits was added.
LEMMA UserWaits ==
  ASSUME LifeTypes, NEW n \in Nat, In(Waits, User(n))
  PROVE  n \in 1..added
<1>1. actions \in [Life -> Seq(Actions)] /\ running \in [Worker -> Seq(Calls)]
  BY DEF LifeTypes, BaseTypes
<1>2. PICK s \in DOMAIN Waits : \E i \in 1..Len(Waits[s]) : Waits[s][i] = User(n)
  BY DEF In
<1>3. User(n).do = "user" /\ User(n).n = n
  BY ActionFacts
<1>4. Waits = Shelves(actions, running)
  BY WaitsAre
<1>5. /\ Waits \in [Spots(running) -> Seq(Actions)]
      /\ \A l \in Life : Waits[<<l, 0>>] = actions[l]
  BY <1>1, <1>4, ShelvesAre
<1>6. \A t \in Spots(running) :
        \/ \E l \in Life : t = <<l, 0>>
        \/ \E w \in Worker : \E k \in 1..Len(running[w]) : t = <<w, k>>
  BY <1>1, ShelvesAre
<1>7. \A v \in Worker : \A k \in 1..Len(running[v]) : Waits[<<v, k>>] = running[v][k].todo
  BY <1>1, <1>4, CallShelves DEF ShelvesOfCalls
<1>8. CASE \E l \in Life : s = <<l, 0>>
  <2>1. PICK l \in Life : Waits[s] = actions[l]
    BY <1>5, <1>8
  <2>2. Fits(actions[l], l, added, parent)
    BY DEF LifeTypes, MapsFit
  <2> QED BY <1>2, <1>3, <2>1, <2>2 DEF Fits
<1>9. ASSUME NEW w \in Worker, NEW k \in 1..Len(running[w]), s = <<w, k>> PROVE n \in 1..added
  <2>1. Waits[s] = running[w][k].todo
    BY <1>7, <1>9
  <2>2. FitCall(running[w][k], added, parent, terminated)
    BY DEF LifeTypes, CallsFit
  <2>3. Fits(running[w][k].todo, running[w][k].of, added, parent)
    BY <2>2 DEF FitCall
  <2> QED BY <1>2, <1>3, <2>1, <2>3 DEF Fits
<1>10. s \in Spots(running)
  BY <1>2, <1>5
<1> QED BY <1>6, <1>8, <1>9, <1>10

LEMMA PlaceKept ==
  ASSUME NEW n \in 1..MaxActions, InOnePlace(n), In(Waits', User(n)) <=> In(Waits, User(n)),
         AtOnce(Waits, User(n)) => AtOnce(Waits', User(n)),
         Closing(n)' <=> Closing(n), ran'[n] = ran[n], added' = added, UNCHANGED idVars
  PROVE  InOnePlace(n)'
BY DEF InOnePlace, idVars

LEMMA EndsKept ==
  ASSUME EndsFirst, before' = before, removed' = removed, \A c \in Life : terminated[c] => terminated'[c],
         \A x, y : Below(Waits, x, y) => Below(Waits', x, y)
  PROVE  EndsFirst'
BY DEF EndsFirst

LEMMA EmptiedKept ==
  ASSUME Emptied, terminated' = terminated, running' = running,
         \A l \in Life : actions[l] = <<>> /\ terminated[l] => actions'[l] = <<>>
  PROVE  Emptied'
BY DEF Emptied, Ending

\* The brackets under way stay what they are.
LEMMA ClosingKept ==
  ASSUME halfOpen' = halfOpen,
         \A v \in Worker : doing[v].at = "bracket" => doing'[v] = doing[v],
         \A v \in Worker : doing'[v].at = "bracket" => doing'[v] = doing[v]
  PROVE  /\ \A n : Closing(n)' <=> Closing(n)
         /\ OneBracket => OneBracket'
<1>1. ASSUME NEW n PROVE Closing(n)' <=> Closing(n)
  BY DEF Closing
<1>2. \A v \in Worker : v \in Brackets' => v \in Brackets /\ doing'[v] = doing[v]
  BY DEF Brackets
<1>3. Brackets' \subseteq Worker
  BY DEF Brackets
<1> QED BY <1>1, <1>2, <1>3 DEF OneBracket

\* The thread w goes on to do d; the others go on with what they do.
LEMMA DoingSet ==
  ASSUME BaseTypes, NEW w \in Worker, NEW m \in Nat, added <= m, NEW d \in Doings(m),
         doing' = [doing EXCEPT ![w] = d], m <= added + 1
  PROVE  /\ doing' \in [Worker -> Doings(m)] /\ doing'[w] = d
         /\ \A v \in Worker : v # w => doing'[v] = doing[v]
<1>1. added \in Nat /\ doing \in [Worker -> Doings(added)]
  BY DEF BaseTypes
<1>2. m = added \/ m = added + 1
  BY <1>1
<1>3. Doings(added) \subseteq Doings(m)
  BY <1>1, <1>2, DoingFacts
<1>4. \A v \in Worker : doing[v] \in Doings(m)
  BY <1>1, <1>3
<1> QED BY <1>1, <1>4

\* An action is added to the map of a lifetime.
LEMMA WaitsAdded ==
  ASSUME BaseTypes, NEW l \in Life, NEW a \in Actions, Added(l, a), running' = running
  PROVE  More(Waits, Waits', a) /\ Under(actions[l], Waits', a)
<1>1. actions \in [Life -> Seq(Actions)] /\ running \in [Worker -> Seq(Calls)]
  BY DEF BaseTypes
<1>2. actions' = [actions EXCEPT ![l] = Append(actions[l], a)]
  BY DEF Added
<1>3. Waits = Shelves(actions, running) /\ Waits' = Shelves(actions', running)
  BY WaitsAre
<1>4. /\ More(Shelves(actions, running), Shelves(actions', running), a)
      /\ Under(actions[l], Shelves(actions', running), a)
  <2>1. Append(actions[l], a) \in Seq(Actions)
    BY <1>1
  <2>2. /\ actions' \in [Life -> Seq(Actions)] /\ actions'[l] = Append(actions[l], a)
        /\ OneMap(actions, actions', l)
    BY <1>1, <1>2, <2>1 DEF OneMap
  <2> QED BY <1>1, <2>2, ShelvesAdded
<1> QED BY <1>3, <1>4

\* An action that is there once is gone when its map is without it.
LEMMA ErasedGone ==
  ASSUME BaseTypes, NEW l \in Life, NEW a, AtOnce(Waits, a),
         NEW i \in 1..Len(actions[l]), actions[l][i] = a, running' = running,
         actions' \in [Life -> Seq(Actions)], actions'[l] = Erased(actions[l], a),
         OneMap(actions, actions', l)
  PROVE  ~In(Waits', a)
<1>1. actions \in [Life -> Seq(Actions)] /\ running \in [Worker -> Seq(Calls)]
  BY DEF BaseTypes
<1> DEFINE D == Spots(running)
           s == <<l, 0>>
<1>2. /\ Waits \in [D -> Seq(Actions)] /\ Waits' \in [D -> Seq(Actions)]
      /\ s \in D /\ Waits[s] = actions[l] /\ Waits'[s] = actions'[l]
  BY <1>1, WaitsAre, ShelvesAre
<1>3. \A t \in D : t # s => Waits'[t] = Waits[t]
  <2>1. Apart(Spots(running), Shelves(actions, running), Shelves(actions', running), <<l, 0>>)
    BY <1>1, OtherShelves
  <2> QED BY <2>1, WaitsAre DEF Apart
<1> HIDE DEF D, s
<1>4. DOMAIN Waits = D /\ DOMAIN Waits' = D /\ DOMAIN actions[l] = 1..Len(actions[l])
  BY <1>1, <1>2
<1>5. PICK c \in 1..Len(actions[l]) : actions[l][c] = a /\ actions'[l] = RemoveAt(actions[l], c)
  <2> DEFINE c == CHOOSE k \in DOMAIN actions[l] : actions[l][k] = a
  <2>1. c \in 1..Len(actions[l]) /\ actions[l][c] = a
    BY <1>4
  <2>2. a \in Range(actions[l])
    BY <1>4 DEF Range
  <2>3. actions'[l] = RemoveAt(actions[l], c)
    BY <2>2 DEF Erased
  <2> QED BY <2>1, <2>3
<1>6. \A t \in D : \A k \in 1..Len(Waits[t]) : Waits[t][k] = a => t = s /\ k = c
  BY <1>2, <1>4, <1>5 DEF AtOnce
<1>7. ASSUME NEW t \in D, NEW k \in 1..Len(Waits'[t]), Waits'[t][k] = a PROVE FALSE
  <2>1. CASE t # s
    BY <2>1, <1>3, <1>6, <1>7
  <2>2. CASE t = s
    <3>1. actions[l] \in Seq(Actions)
      BY <1>1
    <3>2. PICK q \in Seq(Actions) : q = actions[l]
      BY <3>1
    <3>3. /\ Len(RemoveAt(q, c)) = Len(q) - 1
          /\ \A j \in 1..Len(q) - 1 : RemoveAt(q, c)[j] = IF j < c THEN q[j] ELSE q[j + 1]
      BY <3>2, <1>5, RemovedFacts
    <3>4. k \in 1..Len(q) - 1 /\ (IF k < c THEN q[k] ELSE q[k + 1]) = a
      BY <3>2, <3>3, <2>2, <1>2, <1>5, <1>7
    <3>5. k \in 1..Len(q) /\ k + 1 \in 1..Len(q)
      BY <3>2, <3>4
    <3> QED BY <3>2, <3>4, <3>5, <1>2, <1>5, <1>6
  <2> QED BY <2>1, <2>2
<1> QED BY <1>4, <1>7 DEF In

LEMMA AddUserActionKeeps ==
  ASSUME LifeInv, NEW w \in Worker, NEW l \in Life, AddUserAction(w, l)
  PROVE  LifeInv'
<1> USE DEF LifeInv, LifeTypes, idVars
<1>1. /\ added' = added + 1 /\ added \in Nat /\ added' \in Nat /\ added' \in 1..MaxActions
      /\ added < MaxActions /\ ~terminated[l] /\ race' \in BOOLEAN
      /\ terminated' = terminated /\ running' = running /\ doing' = doing /\ made' = made
      /\ parent' = parent /\ halfOpen' = halfOpen /\ before' = before /\ ran' = ran
      /\ removed' = removed /\ holder' = [holder EXCEPT ![added'] = l]
  <2>1. /\ added \in 0..MaxActions /\ added < MaxActions /\ added' = added + 1
        /\ ~terminated[l] /\ race' = Races(w, l)
        /\ terminated' = terminated /\ running' = running /\ doing' = doing /\ made' = made
        /\ parent' = parent /\ halfOpen' = halfOpen /\ before' = before /\ ran' = ran
        /\ removed' = removed /\ holder' = [holder EXCEPT ![added'] = l]
    BY DEF AddUserAction, BaseTypes, Accepts
  <2>2. race' \in BOOLEAN
    BY <2>1 DEF Races, BaseTypes
  <2> QED BY <2>1, <2>2, LifeAssumption
<1>2. Added(l, User(added')) /\ User(added') \in Actions
  BY <1>1, ActionFacts DEF AddUserAction
<1>3. Grows
  BY <1>1 DEF Grows
<1>4. MapsFit' /\ actions' \in [Life -> Seq(Actions)]
  <2>1. actions[l] \in Seq(Actions) /\ Fits(actions[l], l, added, parent)
    BY DEF BaseTypes, MapsFit
  <2>2. Fits(actions[l], l, added', parent')
    BY <1>1, <2>1, FitsMore
  <2>3. FitsOne(User(added'), l, added', parent')
    BY <1>1, ActionFacts DEF FitsOne
  <2>4. Fits(Append(actions[l], User(added')), l, added', parent')
    BY <1>2, <2>1, <2>2, <2>3, FitsAppend
  <2>5. Append(actions[l], User(added')) \in Seq(Actions)
    BY <1>2, <2>1
  <2>6. actions' = [actions EXCEPT ![l] = Append(actions[l], User(added'))]
    BY <1>2 DEF Added
  <2> QED BY <1>3, <2>4, <2>5, <2>6, MapSet
<1>5. CallsFit' /\ running' \in [Worker -> Seq(Calls)]
  BY <1>1, <1>3, CallsKept
<1>6. BaseTypes'
  <2>1. Doings(added) \subseteq Doings(added')
    BY <1>1, DoingFacts
  <2>2. doing' \in [Worker -> Doings(added')]
    BY <1>1, <2>1 DEF BaseTypes
  <2>3. \A i \in 1..added : i \in 1..added'
    BY <1>1
  <2>4. /\ halfOpen' \subseteq 1..added' /\ before' \in [Life -> SUBSET (1..added')]
        /\ removed' \subseteq 1..added'
    BY <1>1, <2>3 DEF BaseTypes
  <2>5. holder' \in [1..MaxActions -> Life \cup {NoLife}]
    BY <1>1 DEF BaseTypes
  <2> QED BY <1>1, <1>4, <1>5, <2>2, <2>4, <2>5 DEF BaseTypes
<1>7. EndedWasMade' /\ NestedDoings'
  BY <1>1 DEF EndedWasMade, NestedDoings
<1>8. More(Waits, Waits', User(added'))
  BY <1>1, <1>2, WaitsAdded
<1>9. OneBracket' /\ \A n : Closing(n)' <=> Closing(n)
  BY <1>1, ClosingKept
<1>10. EndsFirst'
  BY <1>1, <1>8, EndsKept DEF More
<1>11. Emptied'
  <2>1. \A m \in Life : terminated[m] => actions'[m] = actions[m]
    BY <1>1, <1>2 DEF Added, BaseTypes
  <2> QED BY <1>1, <2>1, EmptiedKept
<1>12. ASSUME NEW n \in 1..MaxActions PROVE InOnePlace(n)'
  <2>1. InOnePlace(n) /\ n \in Nat
    OBVIOUS
  <2>2. CASE n = added'
    <3>1. ~In(Waits, User(n))
      <4>1. n \notin 1..added
        BY <1>1, <2>2
      <4> QED BY <4>1, <2>1, UserWaits
    <3>2. ~Closing(n)
      <4>1. n \notin halfOpen
        BY <1>1, <2>2 DEF BaseTypes
      <4>2. \A v \in Worker : doing[v].at = "bracket" => doing[v].n \in 1..added
        BY <1>1, DoingFacts DEF BaseTypes
      <4>3. n \notin 1..added
        BY <1>1, <2>2
      <4> QED BY <4>1, <4>2, <4>3 DEF Closing
    <3>3. ran[n] = 0
      <4>1. ~(n <= added)
        BY <1>1, <2>2
      <4> QED BY <4>1, <2>1 DEF InOnePlace
    <3>4. AtOnce(Waits', User(n)) /\ In(Waits', User(n))
      BY <3>1, <2>1, <2>2, <1>8 DEF InOnePlace, More
    <3>5. ~Closing(n)'
      BY <3>2, <1>9
    <3>6. n <= added' /\ n \notin removed'
      BY <2>2, <1>1 DEF BaseTypes
    <3> QED BY <3>3, <3>4, <3>5, <3>6, <1>1 DEF InOnePlace
  <2>3. CASE n # added'
    <3>1. User(n) # User(added')
      BY <2>3, UsersDiffer
    <3>2. AtOnce(Waits', User(n)) /\ (In(Waits', User(n)) <=> In(Waits, User(n)))
      BY <3>1, <2>1, <1>8 DEF InOnePlace, More
    <3>3. n <= added' <=> n <= added
      BY <2>1, <2>3, <1>1
    <3>4. (Closing(n)' <=> Closing(n)) /\ ran'[n] = ran[n]
      BY <1>1, <1>9
    <3> QED BY <3>2, <3>3, <3>4, <2>1, <1>1 DEF InOnePlace
  <2> QED BY <2>2, <2>3
<1> QED BY <1>4, <1>5, <1>6, <1>7, <1>9, <1>10, <1>11, <1>12

\* An action is removed: if it has been taken, nothing becomes of it.
LEMMA RemoveActionKeeps ==
  ASSUME LifeInv, NEW w \in Worker, NEW n \in 1..added, RemoveAction(w, n)
  PROVE  LifeInv'
<1> USE DEF LifeInv, LifeTypes
<1>1. added \in Nat /\ n \in 1..MaxActions /\ \A m \in 1..added : m \in 1..MaxActions
  BY LifeAssumption DEF BaseTypes
<1>2. PICK l \in Life : l = holder[n]
  BY <1>1 DEF RemoveAction, BaseTypes
<1>3. /\ actions' = [actions EXCEPT ![l] = Erased(@, User(n))]
      /\ removed' = IF User(n) \in Range(actions[l]) THEN removed \cup {n} ELSE removed
      /\ holder' = [holder EXCEPT ![n] = NoLife] /\ race' = Races(w, l)
      /\ terminated' = terminated /\ running' = running /\ doing' = doing /\ made' = made
      /\ parent' = parent /\ added' = added /\ halfOpen' = halfOpen /\ before' = before
      /\ ran' = ran
  BY <1>2 DEF RemoveAction
<1>4. race' \in BOOLEAN
  BY <1>3 DEF Races, BaseTypes
<1>5. Grows
  BY <1>1, <1>3 DEF Grows
<1>6. /\ Erased(actions[l], User(n)) \in Seq(Actions)
      /\ Fits(Erased(actions[l], User(n)), l, added, parent)
      /\ actions[l] = <<>> => Erased(actions[l], User(n)) = <<>>
  <2>1. actions[l] \in Seq(Actions) /\ Fits(actions[l], l, added, parent)
    BY DEF BaseTypes, MapsFit
  <2> QED BY <2>1, FitsErased
<1>7. MapsFit' /\ actions' \in [Life -> Seq(Actions)]
  BY <1>3, <1>5, <1>6, MapSet
<1>8. CallsFit' /\ running' \in [Worker -> Seq(Calls)]
  BY <1>3, <1>5, CallsKept
<1>9. BaseTypes'
  BY <1>1, <1>3, <1>4, <1>7, <1>8 DEF BaseTypes
<1>10. EndedWasMade' /\ NestedDoings'
  BY <1>3 DEF EndedWasMade, NestedDoings
<1>11. OneBracket' /\ \A m : Closing(m)' <=> Closing(m)
  BY <1>3, ClosingKept
<1>12. actions'[l] = Erased(actions[l], User(n)) /\ OneMap(actions, actions', l)
  BY <1>3 DEF BaseTypes, OneMap
<1>13. actions \in [Life -> Seq(Actions)] /\ running \in [Worker -> Seq(Calls)]
  BY DEF BaseTypes
<1>14. Less(Waits, Waits', User(n))
  <2>1. Less(Shelves(actions, running), Shelves(actions', running), User(n))
    BY <1>7, <1>12, <1>13, ShelvesErased
  <2> QED BY <1>3, <2>1, WaitsAre
<1>15. CASE User(n) \notin Range(actions[l])
  <2>1. Waits' = Waits /\ removed' = removed
    <3>1. actions' = actions
      BY <1>3, <1>13, <1>15 DEF Erased
    <3> QED BY <3>1, <1>3, <1>15, WaitsAre
  <2>2. EndsFirst'
    BY <2>1, <1>3 DEF EndsFirst
  <2>3. Emptied'
    BY <1>3, <1>6, <1>12, EmptiedKept DEF OneMap
  <2>4. ASSUME NEW m \in 1..MaxActions PROVE InOnePlace(m)'
    BY <2>1, <1>3, <1>11 DEF InOnePlace
  <2> QED BY <2>2, <2>3, <2>4, <1>7, <1>8, <1>9, <1>10, <1>11
<1>16. CASE User(n) \in Range(actions[l])
  <2>1. PICK i \in 1..Len(actions[l]) : actions[l][i] = User(n)
    BY <1>13, <1>16 DEF Range
  <2>2. In(Waits, User(n))
    <3>1. /\ <<l, 0>> \in DOMAIN Waits /\ Waits[<<l, 0>>] = actions[l]
      BY <1>13, WaitsAre, ShelvesAre
    <3> QED BY <2>1, <3>1 DEF In
  <2>3. n <= added /\ ran[n] = 0 /\ ~Closing(n) /\ AtOnce(Waits, User(n))
    BY <1>1, <2>2 DEF InOnePlace
  <2>4. removed' = removed \cup {n}
    BY <1>3, <1>16
  <2>5. ~In(Waits', User(n))
    BY <2>1, <2>3, <1>3, <1>7, <1>12, <1>13, ErasedGone
  <2>6. EndsFirst'
    <3>1. ASSUME NEW c \in Life, NEW m \in before[c], m # n
          PROVE  terminated[c] \/ m \in removed \/ Below(Waits', User(m), End(c))
      <4>1. User(m) # User(n) /\ End(c) # User(n)
        BY <3>1, UsersDiffer
      <4> QED BY <4>1, <1>14 DEF EndsFirst, Less
    <3> QED BY <3>1, <2>4, <1>3 DEF EndsFirst
  <2>7. Emptied'
    BY <1>3, <1>6, <1>12, EmptiedKept DEF OneMap
  <2>8. ASSUME NEW m \in 1..MaxActions PROVE InOnePlace(m)'
    <3>1. CASE m = n
      <4>1. AtOnce(Waits', User(n))
        BY <2>3, <1>14 DEF Less
      <4> QED BY <3>1, <4>1, <2>3, <2>4, <2>5, <1>3, <1>11 DEF InOnePlace
    <3>2. CASE m # n
      <4>1. User(m) # User(n)
        BY <3>2, UsersDiffer
      <4>2. /\ In(Waits', User(m)) <=> In(Waits, User(m))
            /\ AtOnce(Waits, User(m)) => AtOnce(Waits', User(m))
        BY <4>1, <1>14 DEF Less
      <4>3. m \in removed' <=> m \in removed
        BY <3>2, <2>4
      <4> QED BY <4>2, <4>3, <1>3, <1>11 DEF InOnePlace
    <3> QED BY <3>1, <3>2
  <2> QED BY <2>6, <2>7, <2>8, <1>7, <1>8, <1>9, <1>10, <1>11
<1> QED BY <1>15, <1>16

LEMMA OpenBracketKeeps ==
  ASSUME LifeInv, NEW w \in Worker, NEW l \in Life, OpenBracket(w, l)
  PROVE  LifeInv'
<1> USE DEF LifeInv, LifeTypes, idVars
<1> DEFINE d == [at |-> "bracket", of |-> l, n |-> added']
<1>1. /\ added \in 0..MaxActions /\ added < MaxActions /\ added' = added + 1
      /\ doing[w] = Idle /\ doing' = [doing EXCEPT ![w] = d]
      /\ terminated' = terminated /\ actions' = actions /\ running' = running /\ made' = made
      /\ parent' = parent /\ halfOpen' = halfOpen /\ before' = before /\ ran' = ran /\ race' = race
      /\ UNCHANGED idVars
  BY DEF OpenBracket, Free, BaseTypes
<1>2. added \in Nat /\ added' \in Nat /\ added' \in 1..MaxActions
  BY <1>1, LifeAssumption
<1>3. d \in Doings(added') /\ d.at = "bracket" /\ d.n = added'
  <2>1. added' \in 1..added'
    BY <1>2
  <2> QED BY <2>1 DEF Doings
<1> HIDE DEF d
<1>4. /\ doing' \in [Worker -> Doings(added')] /\ doing'[w] = d
      /\ \A v \in Worker : v # w => doing'[v] = doing[v]
  <2>1. BaseTypes /\ added <= added' /\ added' <= added + 1
    BY <1>1, <1>2
  <2> QED BY <1>1, <1>2, <1>3, <2>1, DoingSet
<1>5. Grows
  BY <1>1, <1>2 DEF Grows
<1>6. MapsFit' /\ CallsFit'
  BY <1>1, <1>5, MapsKept, CallsKept
<1>7. BaseTypes'
  <2>1. \A i \in 1..added : i \in 1..added'
    BY <1>1
  <2>2. /\ halfOpen' \subseteq 1..added' /\ before' \in [Life -> SUBSET (1..added')]
        /\ removed' \subseteq 1..added'
    BY <1>1, <2>1 DEF BaseTypes
  <2> QED BY <1>1, <1>2, <1>4, <2>2 DEF BaseTypes
<1>8. EndedWasMade' /\ NestedDoings'
  <2>1. EndedWasMade'
    BY <1>1 DEF EndedWasMade
  <2>2. NestedDoings'
    BY <1>1, <1>3, <1>4 DEF NestedDoings
  <2> QED BY <2>1, <2>2
<1>9. Idle.at = "idle" /\ \A v \in Worker : doing[v].at = "bracket" => doing[v].n \in 1..added
  BY <1>2, DoingFacts DEF BaseTypes
<1>10. added' \notin 1..added /\ added' \notin halfOpen
  BY <1>1 DEF BaseTypes
<1>11. OneBracket'
  <2>1. \A v \in Worker : v # w /\ doing'[v].at = "bracket" =>
          v \in Brackets /\ doing'[v].n = doing[v].n /\ doing'[v].n # added'
    BY <1>4, <1>9, <1>10 DEF Brackets
  <2>2. Brackets' \subseteq Worker /\ \A v \in Brackets' : doing'[v].at = "bracket"
    BY DEF Brackets
  <2> QED BY <2>1, <2>2, <1>1, <1>3, <1>4, <1>10 DEF OneBracket
<1>12. Waits' = Waits
  BY <1>1, WaitsAre
<1>13. EndsFirst' /\ Emptied'
  BY <1>1, <1>12 DEF EndsFirst, Emptied, Ending
<1>14. ASSUME NEW n \in 1..MaxActions PROVE InOnePlace(n)'
  BY <1>10, UserWaits, <1>1, <1>3, <1>4, <1>12, <1>9 DEF InOnePlace, Closing, BaseTypes
<1> QED BY <1>6, <1>7, <1>8, <1>11, <1>13, <1>14

\* A thread ends a bracket: its action is added, or, if that is refused, never closed.
LEMMA CloseBracketKeeps ==
  ASSUME LifeInv, NEW w \in Worker, CloseBracket(w)
  PROVE  LifeInv'
<1> USE DEF LifeInv, LifeTypes, idVars
<1> DEFINE l == doing[w].of
           b == doing[w].n
<1>1. /\ doing[w].at = "bracket" /\ doing' = [doing EXCEPT ![w] = Idle]
      /\ terminated' = terminated /\ running' = running /\ made' = made /\ parent' = parent
      /\ added' = added /\ before' = before /\ ran' = ran /\ UNCHANGED idVars
      /\ race' = Races(w, l)
      /\ \/ ~terminated[l] /\ Added(l, User(b)) /\ halfOpen' = halfOpen
         \/ terminated[l] /\ halfOpen' = halfOpen \cup {b} /\ actions' = actions
  BY DEF CloseBracket, Accepts
<1>2. added \in Nat /\ added \in 0..MaxActions /\ race' \in BOOLEAN
  <2>1. race' \in BOOLEAN
    BY <1>1 DEF Races, BaseTypes
  <2> QED BY <2>1, LifeAssumption DEF BaseTypes
<1>3. l \in Life /\ b \in 1..added /\ w \in Brackets
  BY <1>1, <1>2, DoingFacts DEF BaseTypes, Brackets
<1> HIDE DEF l
<1>4. /\ doing' \in [Worker -> Doings(added)] /\ doing'[w] = Idle
      /\ \A v \in Worker : v # w => doing'[v] = doing[v]
      /\ Idle.at = "idle"
  <2>1. BaseTypes /\ added <= added /\ added <= added + 1
    BY <1>2
  <2>2. Idle \in Doings(added) /\ Idle.at = "idle"
    BY <1>2, DoingFacts
  <2> QED BY <1>1, <1>2, <2>1, <2>2, DoingSet
<1>5. Grows
  BY <1>1, <1>2 DEF Grows
<1>6. User(b) \in Actions /\ FitsOne(User(b), l, added, parent)
  BY <1>2, <1>3, ActionFacts DEF FitsOne
<1>7. MapsFit' /\ actions' \in [Life -> Seq(Actions)]
  <2>1. CASE Added(l, User(b))
    <3>1. actions[l] \in Seq(Actions) /\ Fits(actions[l], l, added, parent)
      BY <1>3 DEF BaseTypes, MapsFit
    <3>2. Fits(Append(actions[l], User(b)), l, added', parent')
      BY <1>1, <1>6, <3>1, FitsAppend
    <3>3. Append(actions[l], User(b)) \in Seq(Actions)
      BY <1>6, <3>1
    <3>4. actions' = [actions EXCEPT ![l] = Append(actions[l], User(b))]
      BY <2>1 DEF Added
    <3> QED BY <1>3, <1>5, <3>2, <3>3, <3>4, MapSet
  <2>2. CASE actions' = actions
    BY <2>2, <1>5, MapsKept
  <2> QED BY <2>1, <2>2, <1>1
<1>8. CallsFit' /\ running' \in [Worker -> Seq(Calls)]
  BY <1>1, <1>5, CallsKept
<1>9. BaseTypes'
  <2>1. halfOpen' \subseteq 1..added'
    BY <1>1, <1>3 DEF BaseTypes
  <2> QED BY <1>1, <1>2, <1>4, <1>7, <1>8, <2>1 DEF BaseTypes
<1>10. EndedWasMade' /\ NestedDoings'
  <2>1. EndedWasMade'
    BY <1>1 DEF EndedWasMade
  <2>2. NestedDoings'
    BY <1>1, <1>4 DEF NestedDoings
  <2> QED BY <2>1, <2>2
<1>11. \A v \in Worker : v # w /\ doing[v].at = "bracket" => doing[v].n # b /\ doing[v].n \notin halfOpen
  BY <1>3 DEF OneBracket, Brackets
<1>12. OneBracket'
  <2>1. \A v \in Brackets' : v \in Brackets /\ v # w /\ doing'[v] = doing[v]
    BY <1>4 DEF Brackets
  <2>2. \A v \in Brackets' : doing'[v].n \notin halfOpen'
    <3>1. \A v \in Brackets' : doing'[v].n \notin halfOpen /\ doing'[v].n # b
      BY <2>1, <1>11 DEF Brackets
    <3> QED BY <3>1, <1>1
  <2>3. \A u, v \in Brackets' : doing'[u].n = doing'[v].n => u = v
    BY <2>1 DEF OneBracket
  <2> QED BY <2>2, <2>3 DEF OneBracket
<1>13. \/ More(Waits, Waits', User(b))
       \/ Waits' = Waits
  <2>1. CASE Added(l, User(b))
    BY <2>1, <1>1, <1>3, <1>6, WaitsAdded
  <2>2. CASE actions' = actions
    BY <2>2, <1>1, WaitsAre
  <2> QED BY <2>1, <2>2, <1>1
<1>14. EndsFirst'
  <2>1. \A x, y : Below(Waits, x, y) => Below(Waits', x, y)
    BY <1>13 DEF More
  <2> QED BY <2>1, <1>1, EndsKept
<1>15. Emptied'
  <2>1. \A m \in Life : terminated[m] => actions'[m] = actions[m]
    BY <1>1, <1>3 DEF Added, BaseTypes
  <2> QED BY <1>1, <2>1, EmptiedKept
<1>16. ASSUME NEW n \in 1..MaxActions PROVE InOnePlace(n)'
  <2>1. InOnePlace(n) /\ n \in Nat
    OBVIOUS
  <2>2. CASE n = b
    <3>1. Closing(n) /\ n <= added /\ n \notin halfOpen
      <4>1. Closing(n)
        BY <2>2, <1>1 DEF Closing
      <4>2. n <= added
        BY <2>2, <1>2, <1>3
      <4>3. n \notin halfOpen
        BY <2>2, <1>3 DEF OneBracket
      <4> QED BY <4>1, <4>2, <4>3
    <3>2. ~In(Waits, User(n)) /\ ran[n] = 0 /\ AtOnce(Waits, User(n)) /\ n \notin removed
      BY <3>1, <2>1 DEF InOnePlace
    <3>3. \A v \in Worker : ~(doing'[v].at = "bracket" /\ doing'[v].n = n)
      BY <2>2, <1>4, <1>11
    <3>4. CASE ~terminated[l]
      <4>1. More(Waits, Waits', User(n))
        BY <3>4, <2>2, <1>1, <1>3, <1>6, WaitsAdded
      <4>2. AtOnce(Waits', User(n)) /\ In(Waits', User(n))
        BY <4>1, <3>2 DEF More
      <4>3. ~Closing(n)'
        BY <3>1, <3>3, <3>4, <1>1 DEF Closing
      <4> QED BY <4>2, <4>3, <3>1, <3>2, <1>1 DEF InOnePlace
    <3>5. CASE terminated[l]
      <4>1. Waits' = Waits
        BY <3>5, <1>1, WaitsAre
      <4>2. Closing(n)'
        BY <3>5, <2>2, <1>1 DEF Closing
      <4> QED BY <4>1, <4>2, <3>1, <3>2, <1>1 DEF InOnePlace
    <3> QED BY <3>4, <3>5
  <2>3. CASE n # b
    <3>1. Closing(n)' <=> Closing(n)
      <4>1. \A v \in Worker : doing'[v].at = "bracket" /\ doing'[v].n = n
                                <=> doing[v].at = "bracket" /\ doing[v].n = n
        BY <2>3, <1>1, <1>4
      <4>2. n \in halfOpen' <=> n \in halfOpen
        BY <2>3, <1>1
      <4> QED BY <4>1, <4>2 DEF Closing
    <3>2. User(n) # User(b)
      BY <2>3, UsersDiffer
    <3>3. /\ In(Waits', User(n)) <=> In(Waits, User(n))
          /\ AtOnce(Waits, User(n)) => AtOnce(Waits', User(n))
      BY <3>2, <1>13 DEF More
    <3> QED BY <3>1, <3>3, <2>1, <1>1, PlaceKept
  <2> QED BY <2>2, <2>3
<1> QED BY <1>7, <1>8, <1>9, <1>10, <1>12, <1>14, <1>15, <1>16

\* A thread attaches a lifetime: its end is put above all that the parent has.
LEMMA AttachNestedKeeps ==
  ASSUME LifeInv, NEW w \in Worker, NEW p \in Life, NEW c \in Life, AttachNested(w, p, c)
  PROVE  LifeInv'
<1> USE DEF LifeInv, LifeTypes, idVars
<1> DEFINE d == [at |-> "attach", of |-> p, nested |-> c]
           had == {n \in 1..added : User(n) \in Range(actions[p])}
<1>1. /\ doing[w] = Idle /\ ~terminated[p] /\ doing' = [doing EXCEPT ![w] = d]
      /\ parent' = [parent EXCEPT ![c] = p]
      /\ before' = [before EXCEPT ![c] = had]
      /\ Added(p, End(c)) /\ race' = Races(w, p)
      /\ terminated' = terminated /\ running' = running /\ made' = made /\ added' = added
      /\ halfOpen' = halfOpen /\ ran' = ran /\ UNCHANGED idVars
  BY DEF AttachNested, Free, Accepts
<1>2. added \in Nat /\ race' \in BOOLEAN
  <2>1. race' \in BOOLEAN
    BY <1>1 DEF Races, BaseTypes
  <2> QED BY <2>1, LifeAssumption DEF BaseTypes
<1>3. /\ parent' \in [Life -> Life \cup {NoLife}] /\ parent'[c] = p
      /\ \A m \in Life : m # c => parent'[m] = parent[m]
  BY <1>1 DEF BaseTypes
<1>4. /\ before' \in [Life -> SUBSET (1..added)] /\ before'[c] = had
      /\ \A m \in Life : m # c => before'[m] = before[m]
  BY <1>1 DEF BaseTypes
<1>5. d \in Doings(added) /\ d.at = "attach" /\ d.nested = c
  BY DEF Doings
<1> HIDE DEF d
<1>6. /\ doing' \in [Worker -> Doings(added)] /\ doing'[w] = d
      /\ \A v \in Worker : v # w => doing'[v] = doing[v]
  <2>1. BaseTypes /\ added <= added /\ added <= added + 1
    BY <1>2
  <2> QED BY <1>1, <1>2, <1>5, <2>1, DoingSet
<1>7. Grows
  BY <1>1, <1>2, <1>3 DEF Grows
<1>8. End(c) \in Actions /\ FitsOne(End(c), p, added', parent')
  BY <1>3, ActionFacts DEF FitsOne
<1>9. MapsFit' /\ actions' \in [Life -> Seq(Actions)]
  <2>1. actions[p] \in Seq(Actions) /\ Fits(actions[p], p, added, parent)
    BY DEF BaseTypes, MapsFit
  <2>2. Fits(actions[p], p, added', parent')
    BY <1>2, <1>7, <2>1, FitsMore DEF Grows
  <2>3. Fits(Append(actions[p], End(c)), p, added', parent')
    BY <1>8, <2>1, <2>2, FitsAppend
  <2>4. Append(actions[p], End(c)) \in Seq(Actions)
    BY <1>8, <2>1
  <2>5. actions' = [actions EXCEPT ![p] = Append(actions[p], End(c))]
    BY <1>1 DEF Added
  <2> QED BY <1>7, <2>3, <2>4, <2>5, MapSet
<1>10. CallsFit' /\ running' \in [Worker -> Seq(Calls)]
  BY <1>1, <1>7, CallsKept
<1>11. BaseTypes'
  BY <1>1, <1>2, <1>3, <1>4, <1>6, <1>9, <1>10 DEF BaseTypes
<1>12. EndedWasMade'
  <2>1. parent'[c] # NoLife
    BY <1>3, LifeAssumption
  <2> QED BY <2>1, <1>1, <1>3 DEF EndedWasMade
<1>13. NestedDoings'
  <2>1. \A m \in Life : parent[m] \in Life => parent'[m] \in Life
    BY <1>3
  <2>2. \A v \in Worker : doing[v].at \in {"attach", "erase"} => doing[v].nested \in Life
    BY <1>2, DoingFacts DEF BaseTypes
  <2>3. ASSUME NEW v \in Worker, doing'[v].at \in {"attach", "erase"}
        PROVE  /\ parent'[doing'[v].nested] \in Life
               /\ doing'[v].at = "erase" => terminated'[doing'[v].nested]
    <3>1. CASE v = w
      BY <3>1, <1>3, <1>5, <1>6
    <3>2. CASE v # w
      <4>1. doing'[v] = doing[v] /\ parent[doing[v].nested] \in Life
        BY <2>3, <3>2, <1>6 DEF NestedDoings
      <4>2. doing[v].nested \in Life
        BY <2>2, <2>3, <4>1
      <4>3. doing[v].at = "erase" => terminated[doing[v].nested]
        BY DEF NestedDoings
      <4> QED BY <2>1, <4>1, <4>2, <4>3, <1>1
    <3> QED BY <3>1, <3>2
  <2> QED BY <2>3 DEF NestedDoings
<1>14. More(Waits, Waits', End(c)) /\ Under(actions[p], Waits', End(c))
  BY <1>1, <1>8, WaitsAdded
<1>15. OneBracket' /\ \A n : Closing(n)' <=> Closing(n)
  <2>1. Idle.at = "idle"
    BY <1>2, DoingFacts
  <2>2. /\ \A v \in Worker : doing[v].at = "bracket" => doing'[v] = doing[v]
        /\ \A v \in Worker : doing'[v].at = "bracket" => doing'[v] = doing[v]
    BY <2>1, <1>1, <1>5, <1>6
  <2> QED BY <2>2, <1>1, ClosingKept
<1>16. EndsFirst'
  <2>1. ASSUME NEW n \in had PROVE Below(Waits', User(n), End(c))
    <3>1. DOMAIN actions[p] = 1..Len(actions[p])
      BY DEF BaseTypes
    <3>2. PICK i \in 1..Len(actions[p]) : actions[p][i] = User(n)
      BY <3>1 DEF Range
    <3> QED BY <3>2, <1>14 DEF Under
  <2>2. \A m \in Life : \A n \in before[m] :
          terminated[m] \/ n \in removed \/ Below(Waits', User(n), End(m))
    BY <1>14 DEF EndsFirst, More
  <2> HIDE DEF had
  <2>3. ASSUME NEW m \in Life, NEW n \in before'[m]
        PROVE  terminated'[m] \/ n \in removed' \/ Below(Waits', User(n), End(m))
    <3>1. CASE m = c
      BY <3>1, <2>1, <2>3, <1>4
    <3>2. CASE m # c
      BY <3>2, <2>2, <2>3, <1>1, <1>4
    <3> QED BY <3>1, <3>2
  <2> QED BY <2>3 DEF EndsFirst
<1>17. Emptied'
  <2>1. \A m \in Life : terminated[m] => actions'[m] = actions[m]
    BY <1>1 DEF Added, BaseTypes
  <2> QED BY <1>1, <2>1, EmptiedKept
<1>18. ASSUME NEW n \in 1..MaxActions PROVE InOnePlace(n)'
  <2>1. User(n) # End(c)
    BY UsersDiffer
  <2>2. /\ In(Waits', User(n)) <=> In(Waits, User(n))
        /\ AtOnce(Waits, User(n)) => AtOnce(Waits', User(n))
    BY <2>1, <1>14 DEF More
  <2> QED BY <2>2, <1>1, <1>15, PlaceKept
<1> QED BY <1>9, <1>10, <1>11, <1>12, <1>13, <1>15, <1>16, <1>17, <1>18

LEMMA AttachEndsKeeps ==
  ASSUME LifeInv, NEW w \in Worker, AttachEnds(w)
  PROVE  LifeInv'
<1> USE DEF LifeInv, LifeTypes, idVars
<1> DEFINE c == doing[w].nested
<1>1. /\ doing[w].at = "attach" /\ doing' = [doing EXCEPT ![w] = Idle]
      /\ terminated' = terminated /\ running' = running /\ parent' = parent /\ added' = added
      /\ halfOpen' = halfOpen /\ before' = before /\ ran' = ran /\ race' = race
      /\ UNCHANGED idVars
      /\ \/ ~terminated[c] /\ Added(c, Forget(c)) /\ made' = made \cup {c}
         \/ actions' = actions /\ made' = made
  BY DEF AttachEnds, Accepts, lifePast
<1>2. added \in Nat
  BY LifeAssumption DEF BaseTypes
<1>3. c \in Life /\ parent[c] \in Life
  BY <1>1, <1>2, DoingFacts DEF BaseTypes, NestedDoings
<1> HIDE DEF c
<1>4. /\ doing' \in [Worker -> Doings(added)] /\ doing'[w] = Idle
      /\ \A v \in Worker : v # w => doing'[v] = doing[v]
      /\ Idle.at = "idle"
  <2>1. BaseTypes /\ added <= added /\ added <= added + 1
    BY <1>2
  <2>2. Idle \in Doings(added) /\ Idle.at = "idle"
    BY <1>2, DoingFacts
  <2> QED BY <1>1, <1>2, <2>1, <2>2, DoingSet
<1>5. Grows
  BY <1>1, <1>2 DEF Grows
<1>6. Forget(c) \in Actions /\ FitsOne(Forget(c), c, added', parent')
  BY <1>1, <1>3, ActionFacts DEF FitsOne
<1>7. MapsFit' /\ actions' \in [Life -> Seq(Actions)]
  <2>1. CASE Added(c, Forget(c))
    <3>1. actions[c] \in Seq(Actions) /\ Fits(actions[c], c, added, parent)
      BY <1>3 DEF BaseTypes, MapsFit
    <3>2. Fits(Append(actions[c], Forget(c)), c, added', parent')
      BY <1>1, <1>6, <3>1, FitsAppend
    <3>3. Append(actions[c], Forget(c)) \in Seq(Actions)
      BY <1>6, <3>1
    <3>4. actions' = [actions EXCEPT ![c] = Append(actions[c], Forget(c))]
      BY <2>1 DEF Added
    <3> QED BY <1>3, <1>5, <3>2, <3>3, <3>4, MapSet
  <2>2. CASE actions' = actions
    BY <2>2, <1>5, MapsKept
  <2> QED BY <2>1, <2>2, <1>1
<1>8. CallsFit' /\ running' \in [Worker -> Seq(Calls)]
  BY <1>1, <1>5, CallsKept
<1>9. BaseTypes'
  <2>1. made' \subseteq Life
    BY <1>1, <1>3 DEF BaseTypes
  <2> QED BY <1>1, <1>4, <1>7, <1>8, <2>1 DEF BaseTypes
<1>10. EndedWasMade' /\ NestedDoings'
  <2>1. EndedWasMade'
    BY <1>1 DEF EndedWasMade
  <2>2. NestedDoings'
    BY <1>1, <1>4 DEF NestedDoings
  <2> QED BY <2>1, <2>2
<1>11. OneBracket' /\ \A n : Closing(n)' <=> Closing(n)
  <2>1. /\ \A v \in Worker : doing[v].at = "bracket" => doing'[v] = doing[v]
        /\ \A v \in Worker : doing'[v].at = "bracket" => doing'[v] = doing[v]
    BY <1>1, <1>4
  <2> QED BY <2>1, <1>1, ClosingKept
<1>12. More(Waits, Waits', Forget(c)) \/ Waits' = Waits
  <2>1. CASE Added(c, Forget(c))
    BY <2>1, <1>1, <1>3, <1>6, WaitsAdded
  <2>2. CASE actions' = actions
    BY <2>2, <1>1, WaitsAre
  <2> QED BY <2>1, <2>2, <1>1
<1>13. EndsFirst'
  <2>1. \A x, y : Below(Waits, x, y) => Below(Waits', x, y)
    BY <1>12 DEF More
  <2> QED BY <2>1, <1>1, EndsKept
<1>14. Emptied'
  <2>1. \A m \in Life : terminated[m] => actions'[m] = actions[m]
    BY <1>1, <1>3 DEF Added, BaseTypes
  <2> QED BY <1>1, <2>1, EmptiedKept
<1>15. ASSUME NEW n \in 1..MaxActions PROVE InOnePlace(n)'
  <2>1. User(n) # Forget(c)
    BY UsersDiffer
  <2>2. /\ In(Waits', User(n)) <=> In(Waits, User(n))
        /\ AtOnce(Waits, User(n)) => AtOnce(Waits', User(n))
    BY <2>1, <1>12 DEF More
  <2> QED BY <2>2, <1>1, <1>11, PlaceKept
<1> QED BY <1>7, <1>8, <1>9, <1>10, <1>11, <1>13, <1>14, <1>15

\* Who is ending, in given calls.
EndingIn(run, l) ==
  \E w \in Worker : \E k \in 1..Len(run[w]) : run[w][k].of = l /\ ~run[w][k].taken

LEMMA EndingIs ==
  /\ running \in [Worker -> Seq(Calls)] => \A l : Ending(l) <=> EndingIn(running, l)
  /\ running' \in [Worker -> Seq(Calls)] => \A l : Ending(l)' <=> EndingIn(running', l)
<1>1. ASSUME running \in [Worker -> Seq(Calls)], NEW l PROVE Ending(l) <=> EndingIn(running, l)
  <2>1. \A w \in Worker : DOMAIN running[w] = 1..Len(running[w])
    BY <1>1
  <2> QED BY <2>1 DEF Ending, EndingIn
<1>2. ASSUME running' \in [Worker -> Seq(Calls)], NEW l PROVE Ending(l)' <=> EndingIn(running', l)
  <2>1. \A w \in Worker : DOMAIN running'[w] = 1..Len(running'[w])
    BY <1>2
  <2> QED BY <2>1 DEF Ending, EndingIn
<1> QED BY <1>1, <1>2

\* A call is made: it has nothing to do yet.
NewCall(l) == [of |-> l, taken |-> FALSE, todo |-> <<>>]

LEMMA NewCallFacts ==
  ASSUME NEW l \in Life
  PROVE  /\ NewCall(l) \in Calls /\ NewCall(l).of = l /\ NewCall(l).taken = FALSE
         /\ NewCall(l).todo = <<>>
BY DEF NewCall, Calls

LEMMA ShelvesCalled ==
  ASSUME NEW act \in [Life -> Seq(Actions)], NEW run \in [Worker -> Seq(Calls)],
         NEW run2 \in [Worker -> Seq(Calls)], NEW w \in Worker, NEW l \in Life,
         run2[w] = Append(run[w], NewCall(l)), \A v \in Worker : v # w => run2[v] = run[v]
  PROVE  /\ Same(Shelves(act, run), Shelves(act, run2))
         /\ EndingIn(run2, l) /\ \A m : EndingIn(run, m) => EndingIn(run2, m)
<1>1. PICK n \in Nat : /\ n = Len(run[w]) /\ Len(run2[w]) = n + 1
                       /\ run2[w][n + 1] = NewCall(l)
                       /\ \A k \in 1..n : run2[w][k] = run[w][k]
  <2>1. run[w] \in Seq(Calls) /\ NewCall(l) \in Calls
    BY NewCallFacts
  <2>2. /\ Len(run[w]) \in Nat
        /\ Len(Append(run[w], NewCall(l))) = Len(run[w]) + 1
        /\ Append(run[w], NewCall(l))[Len(run[w]) + 1] = NewCall(l)
        /\ \A k \in 1..Len(run[w]) : Append(run[w], NewCall(l))[k] = run[w][k]
    BY <2>1, AppendFacts
  <2> QED BY <2>2
<1>2. /\ NewCall(l).todo = <<>> /\ NewCall(l).of = l /\ ~NewCall(l).taken
  BY NewCallFacts
<1>3. /\ \A k \in 1..n : k \in 1..(n + 1)
      /\ \A k \in 1..(n + 1) : k \in 1..n \/ k = n + 1
      /\ n + 1 \in 1..(n + 1)
  OBVIOUS
<1>4. \A k \in 1..Len(run[w]) : k \in 1..Len(run2[w]) /\ run2[w][k] = run[w][k]
  BY <1>1, <1>3
<1>5. \A k \in 1..Len(run2[w]) : k \in 1..Len(run[w]) \/ run2[w][k].todo = <<>>
  BY <1>1, <1>2, <1>3
<1>6. Same(Shelves(act, run), Shelves(act, run2))
  BY <1>4, <1>5, EmptyCalls
<1>7. EndingIn(run2, l)
  BY <1>1, <1>2, <1>3 DEF EndingIn
<1>8. ASSUME NEW m, EndingIn(run, m) PROVE EndingIn(run2, m)
  <2>1. PICK v \in Worker : \E k \in 1..Len(run[v]) : run[v][k].of = m /\ ~run[v][k].taken
    BY <1>8 DEF EndingIn
  <2>2. PICK k \in 1..Len(run[v]) : run[v][k].of = m /\ ~run[v][k].taken
    BY <2>1
  <2>3. k \in 1..Len(run2[v]) /\ run2[v][k] = run[v][k]
    <3>1. CASE v = w
      BY <3>1, <1>4
    <3>2. CASE v # w
      BY <3>2
    <3> QED BY <3>1, <3>2
  <2> QED BY <2>2, <2>3 DEF EndingIn
<1> QED BY <1>6, <1>7, <1>8

\* The last call of w, the one after its first n, is done with: it has nothing left to do.
Shorter(run, run2, w, n) ==
  /\ Len(run[w]) = n + 1 /\ Len(run2[w]) = n /\ \A k \in 1..n : run2[w][k] = run[w][k]
  /\ run[w][n + 1].taken /\ run[w][n + 1].todo = <<>>
  /\ \A v \in Worker : v # w => run2[v] = run[v]

LEMMA ShelvesReturned ==
  ASSUME NEW act \in [Life -> Seq(Actions)], NEW run \in [Worker -> Seq(Calls)],
         NEW run2 \in [Worker -> Seq(Calls)], NEW w \in Worker, NEW n \in Nat,
         Shorter(run, run2, w, n)
  PROVE  /\ Same(Shelves(act, run), Shelves(act, run2))
         /\ \A m : EndingIn(run, m) => EndingIn(run2, m)
<1> USE DEF Shorter
<1>1. /\ \A k \in 1..n : k \in 1..(n + 1)
      /\ \A k \in 1..(n + 1) : k \in 1..n \/ k = n + 1
  OBVIOUS
<1>2. \A k \in 1..Len(run[w]) : k \in 1..Len(run2[w]) => run2[w][k] = run[w][k]
  BY <1>1
<1>3. \A k \in 1..Len(run[w]) : k \in 1..Len(run2[w]) \/ run[w][k].todo = <<>>
  BY <1>1
<1>4. \A k \in 1..Len(run2[w]) : k \in 1..Len(run[w])
  BY <1>1
<1>5. Same(Shelves(act, run), Shelves(act, run2))
  BY <1>2, <1>3, <1>4, EmptyCalls
<1>6. ASSUME NEW m, EndingIn(run, m) PROVE EndingIn(run2, m)
  <2>1. PICK v \in Worker : \E k \in 1..Len(run[v]) : run[v][k].of = m /\ ~run[v][k].taken
    BY <1>6 DEF EndingIn
  <2>2. PICK k \in 1..Len(run[v]) : run[v][k].of = m /\ ~run[v][k].taken
    BY <2>1
  <2>3. k \in 1..Len(run2[v]) /\ run2[v][k] = run[v][k]
    <3>1. CASE v = w
      <4>1. k # n + 1
        BY <3>1, <2>2
      <4> QED BY <3>1, <4>1, <1>1
    <3>2. CASE v # w
      BY <3>2
    <3> QED BY <3>1, <3>2
  <2> QED BY <2>2, <2>3 DEF EndingIn
<1> QED BY <1>5, <1>6

\* The last call of w takes the actions of l.
LEMMA ShelvesTaken ==
  ASSUME NEW act \in [Life -> Seq(Actions)], NEW act2 \in [Life -> Seq(Actions)],
         NEW run \in [Worker -> Seq(Calls)], NEW run2 \in [Worker -> Seq(Calls)],
         NEW w \in Worker, NEW k \in 1..Len(run[w]), NEW l \in Life,
         act2[l] = <<>>, OneMap(act, act2, l),
         run[w][k].todo = <<>>, run2[w][k].todo = act[l],
         OneCall(run, run2, w, k)
  PROVE  Same(Shelves(act, run), Shelves(act2, run2))
<1> DEFINE f == Shelves(act, run)
           h == Shelves(act, run2)
           g == Shelves(act2, run2)
           D == Spots(run)
           s == <<l, 0>>
           t == <<w, k>>
<1>1. Spots(run2) = D /\ Apart(D, f, h, t) /\ h[t] = run2[w][k].todo
  BY OtherCalls
<1>2. Apart(Spots(run2), h, g, s) /\ g[s] = act2[l]
  BY OtherShelves
<1>3. f[s] = act[l]
  BY ShelvesAre
<1>4. f[t] = run[w][k].todo
  BY CallShelf
<1>5. s # t
  OBVIOUS
<1> HIDE DEF f, g, h, D, s, t
<1>6. Moved(D, f, g, s, t)
  BY <1>1, <1>2, <1>3, <1>4, <1>5 DEF Apart, Moved
<1>7. Same(f, g)
  BY <1>6, ShelfMove
<1> QED BY <1>7 DEF f, g

\* A call of w has its last action taken out.
LEMMA ShelvesDropped ==
  ASSUME NEW act \in [Life -> Seq(Actions)],
         NEW run \in [Worker -> Seq(Calls)], NEW run2 \in [Worker -> Seq(Calls)],
         NEW w \in Worker, NEW k \in 1..Len(run[w]), NEW a,
         run[w][k].todo # <<>>, a = run[w][k].todo[Len(run[w][k].todo)],
         run2[w][k].todo = RemoveAt(run[w][k].todo, Len(run[w][k].todo)),
         run2[w][k].of = run[w][k].of, run2[w][k].taken = run[w][k].taken,
         OneCall(run, run2, w, k)
  PROVE  /\ a \in Actions /\ In(Shelves(act, run), a)
         /\ Taken(Shelves(act, run), Shelves(act, run2), a)
         /\ \A m : EndingIn(run, m) => EndingIn(run2, m)
<1> DEFINE f == Shelves(act, run)
           g == Shelves(act, run2)
           D == Spots(run)
           t == <<w, k>>
<1>1. Apart(D, f, g, t) /\ g[t] = run2[w][k].todo
  BY OtherCalls
<1>3. f[t] = run[w][k].todo
  BY CallShelf
<1> HIDE DEF f, g, D, t
<1>4. /\ f[t] # <<>> /\ g[t] = RemoveAt(f[t], Len(f[t])) /\ a = f[t][Len(f[t])]
  BY <1>1, <1>3
<1>5. a \in Actions /\ In(f, a) /\ Taken(f, g, a)
  <2>1. /\ f \in [D -> Seq(Actions)] /\ t \in D /\ g \in [D -> Seq(Actions)]
        /\ \A u \in D : u # t => g[u] = f[u]
    BY <1>1 DEF Apart
  <2> QED BY <1>4, <2>1, ShelfDrop
<1>6. ASSUME NEW m, EndingIn(run, m) PROVE EndingIn(run2, m)
  <2>1. PICK v \in Worker : \E i \in 1..Len(run[v]) : run[v][i].of = m /\ ~run[v][i].taken
    BY <1>6 DEF EndingIn
  <2>2. PICK i \in 1..Len(run[v]) : run[v][i].of = m /\ ~run[v][i].taken
    BY <2>1
  <2>3. i \in 1..Len(run2[v]) /\ run2[v][i].of = m /\ ~run2[v][i].taken
    BY <2>2 DEF OneCall
  <2> QED BY <2>3 DEF EndingIn
<1> QED BY <1>5, <1>6 DEF f, g

LEMMA EmptiedMore ==
  ASSUME Emptied, actions' = actions,
         \A m \in Life : terminated'[m] => terminated[m] \/ Ending(m)',
         \A m \in Life : Ending(m) => Ending(m)'
  PROVE  Emptied'
BY DEF Emptied

\* The calls of w with one more: of l, which ends.
LEMMA CallMade ==
  ASSUME BaseTypes, CallsFit, Grows, NEW w \in Worker, NEW l \in Life, NEW q \in Seq(Calls),
         \A k \in 1..Len(q) : FitCall(q[k], added', parent', terminated'), terminated'[l],
         running' = [running EXCEPT ![w] = Append(q, NewCall(l))]
  PROVE  /\ CallsFit' /\ running' \in [Worker -> Seq(Calls)] /\ running'[w] = Append(q, NewCall(l))
         /\ \A v \in Worker : v # w => running'[v] = running[v]
<1>1. PICK m \in Nat, p \in Seq(Calls) :
        /\ p = Append(q, NewCall(l)) /\ m = Len(q) /\ Len(p) = m + 1 /\ p[m + 1] = NewCall(l)
        /\ \A i \in 1..m : p[i] = q[i]
  <2>1. NewCall(l) \in Calls
    BY NewCallFacts
  <2>2. /\ Len(q) \in Nat /\ Append(q, NewCall(l)) \in Seq(Calls)
        /\ Len(Append(q, NewCall(l))) = Len(q) + 1 /\ Append(q, NewCall(l))[Len(q) + 1] = NewCall(l)
        /\ \A i \in 1..Len(q) : Append(q, NewCall(l))[i] = q[i]
    BY <2>1, AppendFacts
  <2> QED BY <2>2
<1>2. FitCall(NewCall(l), added', parent', terminated')
  BY NewCallFacts, FitsNone DEF FitCall
<1>3. ASSUME NEW k \in 1..Len(p) PROVE FitCall(p[k], added', parent', terminated')
  <2>1. k \in 1..m \/ k = m + 1
    BY <1>1
  <2> QED BY <2>1, <1>1, <1>2
<1>4. running' = [running EXCEPT ![w] = p]
  BY <1>1
<1>5. CallsFit' /\ running' \in [Worker -> Seq(Calls)]
  BY <1>3, <1>4, CallsSet
<1>6. running'[w] = p /\ \A v \in Worker : v # w => running'[v] = running[v]
  BY <1>4 DEF BaseTypes
<1> QED BY <1>1, <1>5, <1>6

LEMMA TerminateLifeKeeps ==
  ASSUME LifeInv, NEW w \in Worker, NEW l \in Life, TerminateLife(w, l)
  PROVE  LifeInv'
<1> USE DEF LifeInv, LifeTypes, idVars
<1>1. /\ running[w] = <<>> /\ l \in made
      /\ terminated' = [terminated EXCEPT ![l] = TRUE]
      /\ running' = [running EXCEPT ![w] = Append(<<>>, NewCall(l))]
      /\ actions' = actions /\ doing' = doing /\ made' = made /\ parent' = parent
      /\ added' = added /\ halfOpen' = halfOpen /\ before' = before /\ ran' = ran /\ race' = race
      /\ UNCHANGED idVars
  BY DEF TerminateLife, Call, Free, NewCall, lifePast
<1>2. /\ terminated' \in [Life -> BOOLEAN] /\ terminated'[l] = TRUE
      /\ \A m \in Life : m # l => terminated'[m] = terminated[m]
  BY <1>1 DEF BaseTypes
<1>3. added \in Nat
  BY LifeAssumption DEF BaseTypes
<1>4. Grows
  BY <1>1, <1>2, <1>3 DEF Grows
<1>5. MapsFit' /\ actions' \in [Life -> Seq(Actions)]
  BY <1>1, <1>4, MapsKept
<1>6. /\ CallsFit' /\ running' \in [Worker -> Seq(Calls)]
      /\ running'[w] = Append(running[w], NewCall(l))
      /\ \A v \in Worker : v # w => running'[v] = running[v]
  <2>1. <<>> \in Seq(Calls) /\ \A k \in 1..Len(<<>>) : FALSE
    OBVIOUS
  <2>2. terminated'[l]
    BY <1>2
  <2> QED BY <1>1, <1>4, <2>1, <2>2, CallMade
<1>7. BaseTypes'
  BY <1>1, <1>2, <1>5, <1>6 DEF BaseTypes
<1>8. EndedWasMade' /\ NestedDoings'
  <2>1. EndedWasMade'
    BY <1>1, <1>2 DEF EndedWasMade
  <2>2. \A v \in Worker : doing[v].at = "erase" => doing[v].nested \in Life
    BY <1>3, DoingFacts DEF BaseTypes
  <2>3. NestedDoings'
    BY <1>1, <1>2, <2>2 DEF NestedDoings
  <2> QED BY <2>1, <2>3
<1>9. OneBracket' /\ \A n : Closing(n)' <=> Closing(n)
  BY <1>1, ClosingKept
<1>10. /\ Same(Shelves(actions, running), Shelves(actions, running'))
       /\ EndingIn(running', l) /\ \A m : EndingIn(running, m) => EndingIn(running', m)
  <2>1. actions \in [Life -> Seq(Actions)] /\ running \in [Worker -> Seq(Calls)]
    BY DEF BaseTypes
  <2> QED BY <1>6, <2>1, ShelvesCalled
<1>11. Same(Waits, Waits')
  BY <1>1, <1>10, WaitsAre
<1>12. Emptied'
  <2>1. Ending(l)' /\ \A m : Ending(m) => Ending(m)'
    BY <1>6, <1>10, EndingIs DEF BaseTypes
  <2>2. \A m \in Life : terminated'[m] => terminated[m] \/ Ending(m)'
    BY <1>2, <2>1
  <2> QED BY <1>1, <2>1, <2>2, EmptiedMore
<1>13. EndsFirst'
  <2>1. \A c \in Life : terminated[c] => terminated'[c]
    BY <1>2
  <2> QED BY <1>1, <1>11, <2>1, EndsKept DEF Same
<1>14. ASSUME NEW n \in 1..MaxActions PROVE InOnePlace(n)'
  <2>1. /\ In(Waits', User(n)) <=> In(Waits, User(n))
        /\ AtOnce(Waits, User(n)) => AtOnce(Waits', User(n))
    BY <1>11 DEF Same
  <2> QED BY <2>1, <1>1, <1>9, PlaceKept
<1> QED BY <1>5, <1>6, <1>7, <1>8, <1>9, <1>12, <1>13, <1>14

LEMMA TakeActionsKeeps ==
  ASSUME LifeInv, NEW w \in Worker, TakeActions(w)
  PROVE  LifeInv'
<1> USE DEF LifeInv, LifeTypes, idVars
<1>1. /\ actions \in [Life -> Seq(Actions)] /\ running \in [Worker -> Seq(Calls)] /\ added \in Nat
      /\ \A v \in Worker : \A k \in 1..Len(running[v]) :
           running[v][k] \in Calls /\ FitCall(running[v][k], added, parent, terminated)
  BY LifeAssumption DEF BaseTypes, CallsFit
<1>2. PICK n \in Nat : Len(running[w]) = n + 1
  <2>1. running[w] \in Seq(Calls) /\ running[w] # <<>>
    BY <1>1 DEF TakeActions
  <2>2. Len(running[w]) - 1 \in Nat /\ Len(running[w]) = (Len(running[w]) - 1) + 1
    BY <2>1
  <2> QED BY <2>2
<1>3. n + 1 \in 1..Len(running[w]) /\ \A k \in 1..Len(running[w]) : k \in 1..n \/ k = n + 1
  BY <1>2
<1>4. PICK l, c : /\ l = running[w][n + 1].of /\ c = [of |-> l, taken |-> TRUE, todo |-> actions[l]]
                  /\ ~running[w][n + 1].taken
                  /\ running' = [running EXCEPT ![w] = [running[w] EXCEPT ![n + 1] = c]]
                  /\ actions' = [actions EXCEPT ![l] = <<>>]
                  /\ race' = Races(w, l)
  BY <1>2 DEF TakeActions, Last
<1>5. /\ terminated' = terminated /\ doing' = doing /\ made' = made /\ parent' = parent
      /\ added' = added /\ halfOpen' = halfOpen /\ before' = before /\ ran' = ran
      /\ UNCHANGED idVars
  BY DEF TakeActions, lifePast
<1>6. race' \in BOOLEAN
  BY <1>4 DEF Races, BaseTypes
<1>7. l \in Life /\ terminated[l] /\ running[w][n + 1].todo = <<>>
  <2>1. running[w][n + 1] \in Calls /\ FitCall(running[w][n + 1], added, parent, terminated)
    BY <1>1, <1>3
  <2> QED BY <2>1, <1>4, CallFacts DEF FitCall
<1>8. c \in Calls /\ c.of = l /\ c.taken /\ c.todo = actions[l]
  BY <1>1, <1>4, <1>7 DEF Calls
<1>9. Grows
  BY <1>1, <1>5 DEF Grows
<1>10. MapsFit' /\ actions' \in [Life -> Seq(Actions)]
  <2>1. <<>> \in Seq(Actions) /\ Fits(<<>>, l, added', parent')
    BY FitsNone
  <2> QED BY <2>1, <1>4, <1>7, <1>9, MapSet
<1>11. PICK q \in Seq(Calls) :
         /\ q = [running[w] EXCEPT ![n + 1] = c] /\ Len(q) = n + 1 /\ q[n + 1] = c
         /\ \A k \in 1..n : q[k] = running[w][k]
  <2>1. running[w] \in Seq(Calls)
    BY <1>1
  <2>2. /\ [running[w] EXCEPT ![n + 1] = c] \in Seq(Calls)
        /\ Len([running[w] EXCEPT ![n + 1] = c]) = n + 1
        /\ [running[w] EXCEPT ![n + 1] = c][n + 1] = c
        /\ \A k \in 1..n : [running[w] EXCEPT ![n + 1] = c][k] = running[w][k]
    BY <1>2, <1>8, <2>1
  <2> QED BY <2>2
<1>12. CallsFit' /\ running' \in [Worker -> Seq(Calls)]
  <2>1. ASSUME NEW k \in 1..Len(q) PROVE FitCall(q[k], added', parent', terminated')
    <3>1. CASE k = n + 1
      <4>1. Fits(actions[l], l, added, parent)
        BY <1>7 DEF MapsFit
      <4> QED BY <3>1, <4>1, <1>5, <1>7, <1>8, <1>11 DEF FitCall
    <3>2. CASE k # n + 1
      <4>1. k \in 1..n /\ k \in 1..Len(running[w])
        BY <3>2, <1>2, <1>11
      <4> QED BY <4>1, <1>1, <1>5, <1>11
    <3> QED BY <3>1, <3>2
  <2>2. running' = [running EXCEPT ![w] = q]
    BY <1>4, <1>11
  <2> QED BY <2>1, <2>2, <1>9, CallsSet
<1>13. BaseTypes'
  BY <1>5, <1>6, <1>10, <1>12 DEF BaseTypes
<1>14. EndedWasMade' /\ NestedDoings'
  BY <1>5 DEF EndedWasMade, NestedDoings
<1>15. OneBracket' /\ \A m : Closing(m)' <=> Closing(m)
  BY <1>5, ClosingKept
<1>16. running'[w] = q /\ \A v \in Worker : v # w => running'[v] = running[v]
  BY <1>1, <1>4, <1>11
<1>17. OneCall(running, running', w, n + 1)
  <2>1. \A v \in Worker : Len(running'[v]) = Len(running[v])
    BY <1>2, <1>11, <1>16
  <2>2. ASSUME NEW v \in Worker, NEW i \in 1..Len(running[v])
        PROVE  (v = w /\ i = n + 1) \/ running'[v][i] = running[v][i]
    BY <1>3, <1>11, <1>16
  <2> QED BY <2>1, <2>2 DEF OneCall
<1>18. Same(Waits, Waits')
  <2>1. actions'[l] = <<>> /\ OneMap(actions, actions', l)
    BY <1>1, <1>4, <1>7 DEF OneMap
  <2>2. running'[w][n + 1].todo = actions[l]
    BY <1>8, <1>11, <1>16
  <2>3. Same(Shelves(actions, running), Shelves(actions', running'))
    BY <1>1, <1>3, <1>7, <1>10, <1>12, <1>17, <2>1, <2>2, ShelvesTaken
  <2> QED BY <2>3, WaitsAre
<1>19. Emptied'
  <2>1. ASSUME NEW m \in Life, m # l, Ending(m) PROVE Ending(m)'
    <3>1. EndingIn(running, m)
      BY <1>1, <2>1, EndingIs
    <3>2. PICK v \in Worker : \E k \in 1..Len(running[v]) : running[v][k].of = m /\ ~running[v][k].taken
      BY <3>1 DEF EndingIn
    <3>3. PICK k \in 1..Len(running[v]) : running[v][k].of = m /\ ~running[v][k].taken
      BY <3>2
    <3>4. ~(v = w /\ k = n + 1)
      BY <3>3, <2>1, <1>4
    <3>5. k \in 1..Len(running'[v]) /\ running'[v][k] = running[v][k]
      BY <3>4, <1>17 DEF OneCall
    <3>6. EndingIn(running', m)
      BY <3>3, <3>5 DEF EndingIn
    <3> QED BY <3>6, <1>12, EndingIs
  <2>2. actions'[l] = <<>> /\ \A m \in Life : m # l => actions'[m] = actions[m]
    BY <1>1, <1>4, <1>7
  <2> QED BY <2>1, <2>2, <1>5 DEF Emptied
<1>20. EndsFirst'
  BY <1>5, <1>18, EndsKept DEF Same
<1>21. ASSUME NEW m \in 1..MaxActions PROVE InOnePlace(m)'
  <2>1. /\ In(Waits', User(m)) <=> In(Waits, User(m))
        /\ AtOnce(Waits, User(m)) => AtOnce(Waits', User(m))
    BY <1>18 DEF Same
  <2> QED BY <2>1, <1>5, <1>15, PlaceKept
<1> QED BY <1>10, <1>12, <1>13, <1>14, <1>15, <1>19, <1>20, <1>21

\* The calls of w without the action it runs next, and that action.
CallsLeft(w) == [running[w] EXCEPT ![Len(running[w])].todo = RemoveAt(@, Len(@))]
RunsLeft(w) == [running EXCEPT ![w] = CallsLeft(w)]
NextRun(w) == Last(running[w]).todo[Len(Last(running[w]).todo)]

LEMMA RunNextIs ==
  ASSUME NEW w \in Worker, RunNext(w)
  PROVE  /\ running[w] # <<>> /\ doing[w] = Idle
         /\ Last(running[w]).taken /\ Last(running[w]).todo # <<>>
         /\ actions' = actions /\ made' = made /\ parent' = parent /\ added' = added
         /\ halfOpen' = halfOpen /\ before' = before /\ UNCHANGED idVars
         /\ \/ /\ NextRun(w).do = "user" /\ ran' = [ran EXCEPT ![NextRun(w).n] = @ + 1]
               /\ running' = RunsLeft(w)
               /\ terminated' = terminated /\ doing' = doing /\ race' = race
            \/ /\ NextRun(w).do = "terminate"
               /\ terminated' = [terminated EXCEPT ![NextRun(w).of] = TRUE]
               /\ running' = [running EXCEPT ![w] = Append(CallsLeft(w), NewCall(NextRun(w).of))]
               /\ doing' = doing /\ ran' = ran /\ race' = race
            \/ /\ NextRun(w).do = "erase"
               /\ doing' = [doing EXCEPT ![w] = [at |-> "erase", of |-> parent[NextRun(w).of],
                                                 nested |-> NextRun(w).of]]
               /\ race' = Races(w, parent[NextRun(w).of])
               /\ running' = RunsLeft(w) /\ terminated' = terminated /\ ran' = ran
<1> DEFINE a == NextRun(w)
           calls == CallsLeft(w)
<1>1. /\ running[w] # <<>> /\ doing[w] = Idle
      /\ Last(running[w]).taken /\ Last(running[w]).todo # <<>>
      /\ actions' = actions /\ made' = made /\ parent' = parent /\ added' = added
      /\ halfOpen' = halfOpen /\ before' = before /\ UNCHANGED idVars
  BY DEF RunNext, lifePast
<1>2. calls = [running[w] EXCEPT ![Len(running[w])].todo =
                 RemoveAt(@, NextPlace(Last(running[w]).todo))]
  BY DEF CallsLeft, NextPlace, Last
<1>3. a = Last(running[w]).todo[NextPlace(Last(running[w]).todo)]
  BY DEF NextRun, NextPlace
<1> HIDE DEF a, calls
<1>4. \/ /\ a.do = "user" /\ ran' = [ran EXCEPT ![a.n] = @ + 1]
         /\ running' = [running EXCEPT ![w] = calls]
         /\ terminated' = terminated /\ doing' = doing /\ race' = race
      \/ /\ a.do = "terminate" /\ Call(w, a.of, calls)
         /\ doing' = doing /\ ran' = ran /\ race' = race
      \/ /\ a.do = "erase"
         /\ doing' = [doing EXCEPT ![w] = [at |-> "erase", of |-> parent[a.of], nested |-> a.of]]
         /\ race' = Races(w, parent[a.of])
         /\ running' = [running EXCEPT ![w] = calls]
         /\ terminated' = terminated /\ ran' = ran
  BY <1>2, <1>3 DEF RunNext
<1> QED BY <1>1, <1>4 DEF a, calls, RunsLeft, Call, NewCall

\* What w runs next was the last action of its last call, which goes without it.
LEMMA NextRunFacts ==
  ASSUME LifeTypes, Grows, NEW w \in Worker, running[w] # <<>>,
         Last(running[w]).taken, Last(running[w]).todo # <<>>
  PROVE  /\ CallsLeft(w) \in Seq(Calls)
         /\ \A k \in 1..Len(CallsLeft(w)) : FitCall(CallsLeft(w)[k], added', parent', terminated')
         /\ RunsLeft(w) \in [Worker -> Seq(Calls)] /\ RunsLeft(w)[w] = CallsLeft(w)
         /\ \A v \in Worker : v # w => RunsLeft(w)[v] = running[v]
         /\ NextRun(w) \in Actions /\ In(Waits, NextRun(w))
         /\ Taken(Waits, Shelves(actions, RunsLeft(w)), NextRun(w))
         /\ \A m : EndingIn(running, m) => EndingIn(RunsLeft(w), m)
         /\ NextRun(w).do = "user" => NextRun(w).n \in 1..added
         /\ NextRun(w).do # "user" => NextRun(w).of \in Life /\ parent[NextRun(w).of] \in Life
         /\ NextRun(w).do = "erase" => terminated[NextRun(w).of]
<1> USE DEF LifeTypes
<1>1. /\ actions \in [Life -> Seq(Actions)] /\ running \in [Worker -> Seq(Calls)] /\ added \in Nat
      /\ \A v \in Worker : \A k \in 1..Len(running[v]) :
           running[v][k] \in Calls /\ FitCall(running[v][k], added, parent, terminated)
  BY LifeAssumption DEF BaseTypes, CallsFit
<1>2. PICK n \in Nat : Len(running[w]) = n + 1
  <2>1. running[w] \in Seq(Calls)
    BY <1>1
  <2>2. Len(running[w]) - 1 \in Nat /\ Len(running[w]) = (Len(running[w]) - 1) + 1
    BY <2>1
  <2> QED BY <2>2
<1>3. n + 1 \in 1..Len(running[w]) /\ \A k \in 1..Len(running[w]) : k \in 1..n \/ k = n + 1
  BY <1>2
<1>4. PICK c \in Calls : c = running[w][n + 1]
  BY <1>1, <1>3
<1>5. /\ Last(running[w]) = c /\ c.taken /\ c.todo # <<>> /\ c.todo \in Seq(Actions) /\ c.of \in Life
      /\ NextRun(w) = c.todo[Len(c.todo)]
      /\ Fits(c.todo, c.of, added, parent) /\ terminated[c.of]
  <2>1. Last(running[w]) = c
    BY <1>2, <1>4 DEF Last
  <2>2. FitCall(c, added, parent, terminated)
    BY <1>1, <1>3, <1>4
  <2> QED BY <2>1, <2>2, CallFacts DEF FitCall, NextRun
<1>6. Len(c.todo) \in 1..Len(c.todo)
  BY <1>5
<1>7. /\ RemoveAt(c.todo, Len(c.todo)) \in Seq(Actions)
      /\ Fits(RemoveAt(c.todo, Len(c.todo)), c.of, added, parent)
  BY <1>5, <1>6, FitsRemoved
<1> DEFINE d == [c EXCEPT !.todo = RemoveAt(c.todo, Len(c.todo))]
<1>8. d \in Calls /\ d.of = c.of /\ d.taken = c.taken /\ d.todo = RemoveAt(c.todo, Len(c.todo))
  BY <1>7 DEF Calls
<1>9. CallsLeft(w) = [running[w] EXCEPT ![n + 1] = d]
  BY <1>2, <1>4 DEF CallsLeft
<1> HIDE DEF d
<1>10. /\ CallsLeft(w) \in Seq(Calls) /\ Len(CallsLeft(w)) = n + 1 /\ CallsLeft(w)[n + 1] = d
       /\ \A k \in 1..n : CallsLeft(w)[k] = running[w][k]
  <2>1. running[w] \in Seq(Calls)
    BY <1>1
  <2> QED BY <1>2, <1>8, <1>9, <2>1
<1>11. /\ RunsLeft(w) \in [Worker -> Seq(Calls)] /\ RunsLeft(w)[w] = CallsLeft(w)
       /\ \A v \in Worker : v # w => RunsLeft(w)[v] = running[v]
  BY <1>1, <1>10 DEF RunsLeft
<1>12. ASSUME NEW k \in 1..Len(CallsLeft(w))
       PROVE  FitCall(CallsLeft(w)[k], added', parent', terminated')
  <2>1. CASE k = n + 1
    <3>1. Fits(d.todo, c.of, added', parent')
      BY <1>1, <1>7, <1>8, FitsMore DEF Grows
    <3>2. terminated'[c.of]
      BY <1>5 DEF Grows
    <3> QED BY <2>1, <3>1, <3>2, <1>5, <1>8, <1>10 DEF FitCall
  <2>2. CASE k # n + 1
    <3>1. k \in 1..n /\ k \in 1..Len(running[w])
      BY <2>2, <1>2, <1>10
    <3>2. FitCall(running[w][k], added', parent', terminated')
      BY <3>1, CallStillFits
    <3> QED BY <3>1, <3>2, <1>10
  <2> QED BY <2>1, <2>2
<1>13. OneCall(running, RunsLeft(w), w, n + 1)
  <2>1. \A v \in Worker : Len(RunsLeft(w)[v]) = Len(running[v])
    BY <1>2, <1>10, <1>11
  <2>2. ASSUME NEW v \in Worker, NEW i \in 1..Len(running[v])
        PROVE  (v = w /\ i = n + 1) \/ RunsLeft(w)[v][i] = running[v][i]
    BY <1>3, <1>10, <1>11
  <2> QED BY <2>1, <2>2 DEF OneCall
<1>14. /\ NextRun(w) \in Actions /\ In(Shelves(actions, running), NextRun(w))
       /\ Taken(Shelves(actions, running), Shelves(actions, RunsLeft(w)), NextRun(w))
       /\ \A m : EndingIn(running, m) => EndingIn(RunsLeft(w), m)
  <2>1. /\ running[w][n + 1].todo # <<>>
        /\ NextRun(w) = running[w][n + 1].todo[Len(running[w][n + 1].todo)]
        /\ RunsLeft(w)[w][n + 1].todo = RemoveAt(running[w][n + 1].todo, Len(running[w][n + 1].todo))
        /\ RunsLeft(w)[w][n + 1].of = running[w][n + 1].of
        /\ RunsLeft(w)[w][n + 1].taken = running[w][n + 1].taken
    BY <1>4, <1>5, <1>8, <1>10, <1>11
  <2> QED BY <1>1, <1>3, <1>11, <1>13, <2>1, ShelvesDropped
<1>15. FitsOne(NextRun(w), c.of, added, parent)
  BY <1>5, <1>6, FitsSome
<1>16. NextRun(w).do # "user" => NextRun(w).of \in Life
  BY <1>14, ActionFacts
<1>17. Waits = Shelves(actions, running)
  BY WaitsAre
<1> QED BY <1>5, <1>10, <1>11, <1>12, <1>14, <1>15, <1>16, <1>17 DEF FitsOne

\* An action of a user is run.
LEMMA RunUserKeeps ==
  ASSUME LifeInv, NEW w \in Worker, RunNext(w), NextRun(w).do = "user"
  PROVE  LifeInv'
<1> USE DEF LifeInv, LifeTypes, idVars
<1> DEFINE u == NextRun(w).n
<1>1. /\ running[w] # <<>> /\ Last(running[w]).taken /\ Last(running[w]).todo # <<>>
      /\ running' = RunsLeft(w) /\ ran' = [ran EXCEPT ![u] = @ + 1]
      /\ terminated' = terminated /\ actions' = actions /\ doing' = doing /\ made' = made
      /\ parent' = parent /\ added' = added /\ halfOpen' = halfOpen /\ before' = before
      /\ race' = race /\ UNCHANGED idVars
  BY RunNextIs
<1>2. added \in Nat /\ added <= MaxActions
  BY LifeAssumption DEF BaseTypes
<1>3. Grows
  BY <1>1, <1>2 DEF Grows
<1>4. /\ CallsLeft(w) \in Seq(Calls)
      /\ \A k \in 1..Len(CallsLeft(w)) : FitCall(CallsLeft(w)[k], added', parent', terminated')
      /\ RunsLeft(w) \in [Worker -> Seq(Calls)]
      /\ NextRun(w) \in Actions /\ In(Waits, NextRun(w))
      /\ Taken(Waits, Shelves(actions, RunsLeft(w)), NextRun(w))
      /\ \A m : EndingIn(running, m) => EndingIn(RunsLeft(w), m)
      /\ u \in 1..added
  BY <1>1, <1>3, NextRunFacts
<1>5. NextRun(w) = User(u) /\ u \in 1..MaxActions
  <2>1. \A a \in Actions : a.do = "user" => a = User(a.n)
    BY ActionFacts
  <2>2. u \in 1..MaxActions
    BY <1>2, <1>4, LifeAssumption
  <2> QED BY <1>4, <2>1, <2>2
<1>6. Taken(Waits, Waits', User(u)) /\ In(Waits, User(u))
  BY <1>1, <1>4, <1>5, WaitsAre
<1> HIDE DEF u
<1>7. InOnePlace(u) /\ ran[u] = 0 /\ ~Closing(u) /\ AtOnce(Waits, User(u))
  <2>1. InOnePlace(u) /\ u <= added
    BY <1>4, <1>5
  <2> QED BY <2>1, <1>6 DEF InOnePlace
<1>8. ran' \in [1..MaxActions -> 0..1] /\ ran'[u] = 1 /\ \A n \in 1..MaxActions : n # u => ran'[n] = ran[n]
  BY <1>1, <1>5, <1>7 DEF BaseTypes
<1>9. MapsFit' /\ actions' \in [Life -> Seq(Actions)]
  BY <1>1, <1>3, MapsKept
<1>10. CallsFit' /\ running' \in [Worker -> Seq(Calls)]
  <2>1. running' = [running EXCEPT ![w] = CallsLeft(w)]
    BY <1>1 DEF RunsLeft
  <2> QED BY <1>3, <1>4, <2>1, CallsSet
<1>11. BaseTypes'
  BY <1>1, <1>8, <1>9, <1>10 DEF BaseTypes
<1>12. EndedWasMade' /\ NestedDoings'
  BY <1>1 DEF EndedWasMade, NestedDoings
<1>13. OneBracket' /\ \A n : Closing(n)' <=> Closing(n)
  BY <1>1, ClosingKept
<1>14. Emptied'
  <2>1. \A m : Ending(m) => Ending(m)'
    BY <1>1, <1>4, EndingIs DEF BaseTypes
  <2> QED BY <2>1, <1>1, EmptiedMore
<1>15. EndsFirst'
  <2>1. \A m, c : Below(Waits, User(m), End(c)) => Below(Waits', User(m), End(c))
    BY <1>6, UsersDiffer DEF Taken
  <2> QED BY <2>1, <1>1 DEF EndsFirst
<1>16. ASSUME NEW n \in 1..MaxActions PROVE InOnePlace(n)'
  BY <1>6, <1>7, <1>1, <1>4, <1>8, <1>13, UsersDiffer, PlaceKept DEF Taken, InOnePlace
<1> QED BY <1>9, <1>10, <1>11, <1>12, <1>13, <1>14, <1>15, <1>16

\* The end of a nested lifetime is run: terminate is called for it.
LEMMA RunEndKeeps ==
  ASSUME LifeInv, NEW w \in Worker, RunNext(w), NextRun(w).do = "terminate"
  PROVE  LifeInv'
<1> USE DEF LifeInv, LifeTypes, idVars
<1> DEFINE c == NextRun(w).of
<1>1. /\ running[w] # <<>> /\ Last(running[w]).taken /\ Last(running[w]).todo # <<>>
      /\ terminated' = [terminated EXCEPT ![c] = TRUE]
      /\ running' = [running EXCEPT ![w] = Append(CallsLeft(w), NewCall(c))]
      /\ actions' = actions /\ doing' = doing /\ made' = made /\ parent' = parent
      /\ added' = added /\ halfOpen' = halfOpen /\ before' = before /\ ran' = ran /\ race' = race
      /\ UNCHANGED idVars
  BY RunNextIs
<1>2. added \in Nat
  BY LifeAssumption DEF BaseTypes
<1>3. Grows
  <2>1. \A m \in Life : terminated[m] => terminated'[m]
    BY <1>1 DEF BaseTypes
  <2> QED BY <1>1, <1>2, <2>1 DEF Grows
<1>4. /\ CallsLeft(w) \in Seq(Calls)
      /\ \A k \in 1..Len(CallsLeft(w)) : FitCall(CallsLeft(w)[k], added', parent', terminated')
      /\ RunsLeft(w) \in [Worker -> Seq(Calls)] /\ RunsLeft(w)[w] = CallsLeft(w)
      /\ \A v \in Worker : v # w => RunsLeft(w)[v] = running[v]
      /\ NextRun(w) \in Actions
      /\ Taken(Waits, Shelves(actions, RunsLeft(w)), NextRun(w))
      /\ \A m : EndingIn(running, m) => EndingIn(RunsLeft(w), m)
      /\ c \in Life /\ parent[c] \in Life
  BY <1>1, <1>3, NextRunFacts
<1>5. NextRun(w) = End(c)
  BY <1>4, ActionFacts
<1> HIDE DEF c
<1>6. /\ terminated' \in [Life -> BOOLEAN] /\ terminated'[c] = TRUE
      /\ \A m \in Life : m # c => terminated'[m] = terminated[m]
  BY <1>1, <1>4 DEF BaseTypes
<1>7. MapsFit' /\ actions' \in [Life -> Seq(Actions)]
  BY <1>1, <1>3, MapsKept
<1>8. /\ CallsFit' /\ running' \in [Worker -> Seq(Calls)]
      /\ running'[w] = Append(CallsLeft(w), NewCall(c))
      /\ \A v \in Worker : v # w => running'[v] = running[v]
  <2>1. terminated'[c]
    BY <1>6
  <2> QED BY <1>1, <1>3, <1>4, <2>1, CallMade
<1>9. BaseTypes'
  BY <1>1, <1>6, <1>7, <1>8 DEF BaseTypes
<1>10. EndedWasMade' /\ NestedDoings'
  <2>1. EndedWasMade'
    BY <1>1, <1>4, <1>6, LifeAssumption DEF EndedWasMade
  <2>2. \A v \in Worker : doing[v].at = "erase" => doing[v].nested \in Life
    BY <1>2, DoingFacts DEF BaseTypes
  <2>3. NestedDoings'
    BY <1>1, <1>6, <2>2 DEF NestedDoings
  <2> QED BY <2>1, <2>3
<1>11. OneBracket' /\ \A n : Closing(n)' <=> Closing(n)
  BY <1>1, ClosingKept
<1>12. /\ Same(Shelves(actions, RunsLeft(w)), Shelves(actions, running'))
       /\ EndingIn(running', c) /\ \A m : EndingIn(RunsLeft(w), m) => EndingIn(running', m)
  <2>1. /\ actions \in [Life -> Seq(Actions)]
        /\ running'[w] = Append(RunsLeft(w)[w], NewCall(c))
        /\ \A v \in Worker : v # w => running'[v] = RunsLeft(w)[v]
    BY <1>4, <1>8 DEF BaseTypes
  <2>2. RunsLeft(w) \in [Worker -> Seq(Calls)] /\ running' \in [Worker -> Seq(Calls)] /\ c \in Life
    BY <1>4, <1>8
  <2> QED BY <2>1, <2>2, ShelvesCalled
<1>13. Waits' = Shelves(actions, running')
  BY <1>1, WaitsAre
<1>14. Emptied'
  <2>1. \A m : Ending(m) <=> EndingIn(running, m)
    BY EndingIs DEF BaseTypes
  <2>2. \A m : Ending(m)' <=> EndingIn(running', m)
    BY <1>8, EndingIs
  <2>3. \A m : EndingIn(running, m) => EndingIn(running', m)
    BY <1>4, <1>12
  <2>4. \A m : (m = c => Ending(m)') /\ (Ending(m) => Ending(m)')
    BY <1>12, <2>1, <2>2, <2>3
  <2>5. ASSUME NEW m \in Life, terminated'[m] PROVE terminated[m] \/ Ending(m)'
    BY <1>6, <2>4, <2>5
  <2> QED BY <1>1, <2>4, <2>5, EmptiedMore
<1>15. EndsFirst'
  BY <1>6, UsersDiffer, <1>1, <1>4, <1>5, <1>12, <1>13 DEF EndsFirst, Taken, Same
<1>16. ASSUME NEW n \in 1..MaxActions PROVE InOnePlace(n)'
  <2>1. User(n) # End(c)
    BY UsersDiffer
  <2>2. /\ In(Waits', User(n)) <=> In(Waits, User(n))
        /\ AtOnce(Waits, User(n)) => AtOnce(Waits', User(n))
    BY <2>1, <1>4, <1>5, <1>12, <1>13 DEF Taken, Same
  <2> QED BY <2>2, <1>1, <1>11, PlaceKept
<1> QED BY <1>7, <1>8, <1>9, <1>10, <1>11, <1>14, <1>15, <1>16

\* A nested lifetime, which has ended, asks to be forgotten.
LEMMA RunForgetKeeps ==
  ASSUME LifeInv, NEW w \in Worker, RunNext(w), NextRun(w).do = "erase"
  PROVE  LifeInv'
<1> USE DEF LifeInv, LifeTypes, idVars
<1> DEFINE c == NextRun(w).of
           d == [at |-> "erase", of |-> parent[c], nested |-> c]
<1>1. /\ running[w] # <<>> /\ Last(running[w]).taken /\ Last(running[w]).todo # <<>>
      /\ doing[w] = Idle /\ doing' = [doing EXCEPT ![w] = d] /\ race' = Races(w, parent[c])
      /\ running' = RunsLeft(w)
      /\ terminated' = terminated /\ actions' = actions /\ made' = made /\ parent' = parent
      /\ added' = added /\ halfOpen' = halfOpen /\ before' = before /\ ran' = ran
      /\ UNCHANGED idVars
  BY RunNextIs
<1>2. added \in Nat /\ race' \in BOOLEAN
  <2>1. race' \in BOOLEAN
    BY <1>1 DEF Races, BaseTypes
  <2> QED BY <2>1, LifeAssumption DEF BaseTypes
<1>3. Grows
  BY <1>1, <1>2 DEF Grows
<1>4. /\ CallsLeft(w) \in Seq(Calls)
      /\ \A k \in 1..Len(CallsLeft(w)) : FitCall(CallsLeft(w)[k], added', parent', terminated')
      /\ RunsLeft(w) \in [Worker -> Seq(Calls)]
      /\ NextRun(w) \in Actions
      /\ Taken(Waits, Shelves(actions, RunsLeft(w)), NextRun(w))
      /\ \A m : EndingIn(running, m) => EndingIn(RunsLeft(w), m)
      /\ c \in Life /\ parent[c] \in Life /\ terminated[c]
  BY <1>1, <1>3, NextRunFacts
<1>5. NextRun(w) = Forget(c)
  BY <1>4, ActionFacts
<1>6. d \in Doings(added) /\ d.at = "erase" /\ d.nested = c
  BY <1>4 DEF Doings
<1> HIDE DEF c, d
<1>7. /\ doing' \in [Worker -> Doings(added)] /\ doing'[w] = d
      /\ \A v \in Worker : v # w => doing'[v] = doing[v]
  <2>1. BaseTypes /\ added <= added /\ added <= added + 1
    BY <1>2
  <2> QED BY <1>1, <1>2, <1>6, <2>1, DoingSet
<1>8. MapsFit' /\ actions' \in [Life -> Seq(Actions)]
  BY <1>1, <1>3, MapsKept
<1>9. CallsFit' /\ running' \in [Worker -> Seq(Calls)]
  <2>1. running' = [running EXCEPT ![w] = CallsLeft(w)]
    BY <1>1 DEF RunsLeft
  <2> QED BY <1>3, <1>4, <2>1, CallsSet
<1>10. BaseTypes'
  BY <1>1, <1>2, <1>7, <1>8, <1>9 DEF BaseTypes
<1>11. EndedWasMade' /\ NestedDoings'
  <2>1. EndedWasMade'
    BY <1>1 DEF EndedWasMade
  <2>2. NestedDoings'
    BY <1>1, <1>4, <1>6, <1>7 DEF NestedDoings
  <2> QED BY <2>1, <2>2
<1>12. OneBracket' /\ \A n : Closing(n)' <=> Closing(n)
  <2>1. Idle.at = "idle"
    BY <1>2, DoingFacts
  <2>2. /\ \A v \in Worker : doing[v].at = "bracket" => doing'[v] = doing[v]
        /\ \A v \in Worker : doing'[v].at = "bracket" => doing'[v] = doing[v]
    BY <2>1, <1>1, <1>6, <1>7
  <2> QED BY <2>2, <1>1, ClosingKept
<1>13. Taken(Waits, Waits', Forget(c))
  BY <1>1, <1>4, <1>5, WaitsAre
<1>14. Emptied'
  <2>1. \A m : Ending(m) => Ending(m)'
    BY <1>1, <1>4, EndingIs DEF BaseTypes
  <2> QED BY <2>1, <1>1, EmptiedMore
<1>15. EndsFirst'
  <2>1. \A m, b : Below(Waits, User(m), End(b)) => Below(Waits', User(m), End(b))
    BY <1>13, UsersDiffer DEF Taken
  <2> QED BY <2>1, <1>1 DEF EndsFirst
<1>16. ASSUME NEW n \in 1..MaxActions PROVE InOnePlace(n)'
  <2>1. User(n) # Forget(c)
    BY UsersDiffer
  <2>2. /\ In(Waits', User(n)) <=> In(Waits, User(n))
        /\ AtOnce(Waits, User(n)) => AtOnce(Waits', User(n))
    BY <2>1, <1>13 DEF Taken
  <2> QED BY <2>2, <1>1, <1>12, PlaceKept
<1> QED BY <1>8, <1>9, <1>10, <1>11, <1>12, <1>14, <1>15, <1>16

LEMMA EraseEndsKeeps ==
  ASSUME LifeInv, NEW w \in Worker, EraseEnds(w)
  PROVE  LifeInv'
<1> USE DEF LifeInv, LifeTypes, idVars
<1>1. PICK l, c : /\ l = doing[w].of /\ c = doing[w].nested
                  /\ actions' = [actions EXCEPT ![l] = Erased(@, End(c))]
  BY DEF EraseEnds
<1>2. /\ doing[w].at = "erase" /\ doing' = [doing EXCEPT ![w] = Idle]
      /\ terminated' = terminated /\ running' = running /\ made' = made /\ parent' = parent
      /\ added' = added /\ halfOpen' = halfOpen /\ before' = before /\ ran' = ran /\ race' = race
      /\ UNCHANGED idVars
  BY DEF EraseEnds, lifePast
<1>3. added \in Nat
  BY LifeAssumption DEF BaseTypes
<1>4. l \in Life /\ c \in Life /\ terminated[c]
  BY <1>1, <1>2, <1>3, DoingFacts DEF BaseTypes, NestedDoings
<1>5. /\ doing' \in [Worker -> Doings(added)] /\ doing'[w] = Idle
      /\ \A v \in Worker : v # w => doing'[v] = doing[v]
      /\ Idle.at = "idle"
  <2>1. BaseTypes /\ added <= added /\ added <= added + 1
    BY <1>3
  <2>2. Idle \in Doings(added) /\ Idle.at = "idle"
    BY <1>3, DoingFacts
  <2> QED BY <1>2, <1>3, <2>1, <2>2, DoingSet
<1>6. Grows
  BY <1>2, <1>3 DEF Grows
<1>7. \A m \in Life : actions[m] \in Seq(Actions) /\ Fits(actions[m], m, added, parent)
  BY DEF BaseTypes, MapsFit
<1>8. /\ Erased(actions[l], End(c)) \in Seq(Actions)
      /\ Fits(Erased(actions[l], End(c)), l, added, parent)
      /\ actions[l] = <<>> => Erased(actions[l], End(c)) = <<>>
  BY <1>4, <1>7, FitsErased
<1>9. MapsFit' /\ actions' \in [Life -> Seq(Actions)]
  <2>1. Fits(Erased(actions[l], End(c)), l, added', parent')
    BY <1>2, <1>8
  <2> QED BY <1>1, <1>4, <1>6, <1>8, <2>1, MapSet
<1>10. CallsFit' /\ running' \in [Worker -> Seq(Calls)]
  BY <1>2, <1>6, CallsKept
<1>11. BaseTypes'
  BY <1>2, <1>5, <1>9, <1>10 DEF BaseTypes
<1>12. EndedWasMade' /\ NestedDoings'
  <2>1. EndedWasMade'
    BY <1>2 DEF EndedWasMade
  <2>2. NestedDoings'
    BY <1>2, <1>5 DEF NestedDoings
  <2> QED BY <2>1, <2>2
<1>13. OneBracket' /\ \A n : Closing(n)' <=> Closing(n)
  <2>1. /\ \A v \in Worker : doing[v].at = "bracket" => doing'[v] = doing[v]
        /\ \A v \in Worker : doing'[v].at = "bracket" => doing'[v] = doing[v]
    BY <1>2, <1>5
  <2> QED BY <2>1, <1>2, ClosingKept
<1>14. /\ actions'[l] = Erased(actions[l], End(c))
       /\ \A m \in Life : m # l => actions'[m] = actions[m]
  BY <1>1, <1>4 DEF BaseTypes
<1>15. Less(Waits, Waits', End(c))
  <2>1. /\ actions \in [Life -> Seq(Actions)] /\ running \in [Worker -> Seq(Calls)]
        /\ OneMap(actions, actions', l)
    BY <1>14 DEF BaseTypes, OneMap
  <2>2. Less(Shelves(actions, running), Shelves(actions', running), End(c))
    BY <1>4, <1>9, <1>14, <2>1, ShelvesErased
  <2> QED BY <1>2, <2>2, WaitsAre
<1>16. EndsFirst'
  <2>1. ASSUME NEW m \in Life, NEW n \in before'[m]
        PROVE  terminated'[m] \/ n \in removed' \/ Below(Waits', User(n), End(m))
    <3>1. CASE m = c
      BY <3>1, <1>2, <1>4
    <3>2. CASE m # c
      <4>1. End(m) # End(c) /\ User(n) # End(c)
        BY <3>2, UsersDiffer
      <4>2. terminated[m] \/ n \in removed \/ Below(Waits, User(n), End(m))
        BY <2>1, <1>2 DEF EndsFirst
      <4> QED BY <4>1, <4>2, <1>2, <1>15 DEF Less
    <3> QED BY <3>1, <3>2
  <2> QED BY <2>1 DEF EndsFirst
<1>17. Emptied'
  <2>1. \A m \in Life : actions[m] = <<>> /\ terminated[m] => actions'[m] = <<>>
    BY <1>8, <1>14
  <2> QED BY <1>2, <2>1, EmptiedKept
<1>18. ASSUME NEW n \in 1..MaxActions PROVE InOnePlace(n)'
  <2>1. User(n) # End(c)
    BY UsersDiffer
  <2>2. /\ In(Waits', User(n)) <=> In(Waits, User(n))
        /\ AtOnce(Waits, User(n)) => AtOnce(Waits', User(n))
    BY <2>1, <1>15 DEF Less
  <2> QED BY <2>2, <1>2, <1>13, PlaceKept
<1> QED BY <1>9, <1>10, <1>11, <1>12, <1>13, <1>16, <1>17, <1>18

LEMMA ReturnsKeeps ==
  ASSUME LifeInv, NEW w \in Worker, Returns(w)
  PROVE  LifeInv'
<1> USE DEF LifeInv, LifeTypes, idVars
<1>1. /\ running[w] # <<>> /\ Last(running[w]).taken /\ Last(running[w]).todo = <<>>
      /\ running' = [running EXCEPT ![w] = Front(running[w])]
      /\ terminated' = terminated /\ actions' = actions /\ doing' = doing /\ made' = made
      /\ parent' = parent /\ added' = added /\ halfOpen' = halfOpen /\ before' = before
      /\ ran' = ran /\ race' = race /\ UNCHANGED idVars
  BY DEF Returns, lifePast
<1>2. actions \in [Life -> Seq(Actions)] /\ running \in [Worker -> Seq(Calls)] /\ added \in Nat
  BY LifeAssumption DEF BaseTypes
<1>3. PICK n \in Nat : Len(running[w]) = n + 1
  <2>1. running[w] \in Seq(Calls)
    BY <1>2
  <2>2. Len(running[w]) - 1 \in Nat /\ Len(running[w]) = (Len(running[w]) - 1) + 1
    BY <1>1, <2>1
  <2> QED BY <2>2
<1>4. /\ Front(running[w]) \in Seq(Calls) /\ Len(Front(running[w])) = n
      /\ \A k \in 1..n : Front(running[w])[k] = running[w][k]
  <2>1. PICK q \in Seq(Calls) : q = running[w]
    BY <1>2
  <2>2. /\ SubSeq(q, 1, (n + 1) - 1) \in Seq(Calls) /\ Len(SubSeq(q, 1, (n + 1) - 1)) = n
        /\ \A i \in 1..n : SubSeq(q, 1, (n + 1) - 1)[i] = q[i]
    BY <1>3, <2>1
  <2>3. Front(q) = SubSeq(q, 1, (n + 1) - 1)
    BY <1>3, <2>1 DEF Front
  <2> QED BY <2>1, <2>2, <2>3
<1>5. Grows
  BY <1>1, <1>2 DEF Grows
<1>6. MapsFit' /\ actions' \in [Life -> Seq(Actions)]
  BY <1>1, <1>5, MapsKept
<1>7. CallsFit' /\ running' \in [Worker -> Seq(Calls)]
  <2>1. ASSUME NEW k \in 1..Len(Front(running[w]))
        PROVE  FitCall(Front(running[w])[k], added', parent', terminated')
    <3>1. k \in 1..n /\ k \in 1..Len(running[w])
      BY <1>3, <1>4
    <3>2. FitCall(running[w][k], added', parent', terminated')
      BY <1>5, <3>1, CallStillFits
    <3> QED BY <3>1, <3>2, <1>4
  <2> QED BY <1>1, <1>4, <1>5, <2>1, CallsSet
<1>8. BaseTypes'
  BY <1>1, <1>6, <1>7 DEF BaseTypes
<1>9. EndedWasMade' /\ NestedDoings'
  BY <1>1 DEF EndedWasMade, NestedDoings
<1>10. OneBracket' /\ \A m : Closing(m)' <=> Closing(m)
  BY <1>1, ClosingKept
<1>11. /\ Same(Shelves(actions, running), Shelves(actions, running'))
       /\ \A m : EndingIn(running, m) => EndingIn(running', m)
  <2>1. running[w][n + 1].taken /\ running[w][n + 1].todo = <<>>
    BY <1>1, <1>3 DEF Last
  <2>2. /\ Len(running'[w]) = n /\ \A k \in 1..n : running'[w][k] = running[w][k]
        /\ \A v \in Worker : v # w => running'[v] = running[v]
    BY <1>1, <1>2, <1>4
  <2>3. Shorter(running, running', w, n)
    BY <1>3, <2>1, <2>2 DEF Shorter
  <2>4. /\ actions \in [Life -> Seq(Actions)] /\ running \in [Worker -> Seq(Calls)]
        /\ running' \in [Worker -> Seq(Calls)]
    BY <1>2, <1>7
  <2> QED BY <2>3, <2>4, ShelvesReturned
<1>12. Same(Waits, Waits')
  BY <1>1, <1>11, WaitsAre
<1>13. Emptied'
  <2>1. \A m : Ending(m) => Ending(m)'
    BY <1>2, <1>7, <1>11, EndingIs
  <2> QED BY <2>1, <1>1, EmptiedMore
<1>14. EndsFirst'
  BY <1>1, <1>12, EndsKept DEF Same
<1>15. ASSUME NEW m \in 1..MaxActions PROVE InOnePlace(m)'
  <2>1. /\ In(Waits', User(m)) <=> In(Waits, User(m))
        /\ AtOnce(Waits, User(m)) => AtOnce(Waits', User(m))
    BY <1>12 DEF Same
  <2> QED BY <2>1, <1>1, <1>10, PlaceKept
<1> QED BY <1>6, <1>7, <1>8, <1>9, <1>10, <1>13, <1>14, <1>15

LEMMA RunNextKeeps ==
  ASSUME LifeInv, NEW w \in Worker, RunNext(w)
  PROVE  LifeInv'
<1>1. NextRun(w).do \in {"user", "terminate", "erase"}
  BY RunNextIs
<1> QED BY <1>1, RunUserKeeps, RunEndKeeps, RunForgetKeeps

LEMMA LifeStep ==
  ASSUME LifeInv, LifeNext
  PROVE  LifeInv'
<1>1. PICK w \in Worker :
        \/ \E l \in Life : AddUserAction(w, l) \/ OpenBracket(w, l) \/ TerminateLife(w, l)
        \/ \E n \in 1..added : RemoveAction(w, n)
        \/ \E p, c \in Life : AttachNested(w, p, c)
        \/ CloseBracket(w) \/ AttachEnds(w)
        \/ TakeActions(w) \/ RunNext(w) \/ EraseEnds(w) \/ Returns(w)
  BY DEF LifeNext
<1>2. ASSUME NEW l \in Life, AddUserAction(w, l) \/ OpenBracket(w, l) \/ TerminateLife(w, l)
      PROVE  LifeInv'
  BY <1>2, AddUserActionKeeps, OpenBracketKeeps, TerminateLifeKeeps
<1>3. ASSUME NEW p \in Life, NEW c \in Life, AttachNested(w, p, c) PROVE LifeInv'
  BY <1>3, AttachNestedKeeps
<1>4. CASE CloseBracket(w) \/ AttachEnds(w)
  BY <1>4, CloseBracketKeeps, AttachEndsKeeps
<1>5. CASE TakeActions(w) \/ RunNext(w) \/ EraseEnds(w) \/ Returns(w)
  BY <1>5, TakeActionsKeeps, RunNextKeeps, EraseEndsKeeps, ReturnsKeeps
<1>6. ASSUME NEW n \in 1..added, RemoveAction(w, n) PROVE LifeInv'
  BY <1>6, RemoveActionKeeps
<1> QED BY <1>1, <1>2, <1>3, <1>4, <1>5, <1>6

\* Nothing waits at the start.
LEMMA LifeStarts == LifeInit => LifeInv
<1> SUFFICES ASSUME LifeInit PROVE LifeInv
  OBVIOUS
<1> USE DEF LifeInit
<1>1. /\ <<>> \in Seq(Actions) /\ <<>> \in Seq(Calls) /\ \A i \in 1..Len(<<>>) : FALSE
  OBVIOUS
<1>2. /\ terminated \in [Life -> BOOLEAN] /\ \A l \in Life : ~terminated[l]
      /\ \A l \in Life : actions[l] = <<>>
      /\ \A w \in Worker : running[w] = <<>>
      /\ \A w \in Worker : doing[w] = Idle /\ doing[w].at = "idle"
  BY DEF Idle
<1>3. actions \in [Life -> Seq(Actions)] /\ running \in [Worker -> Seq(Calls)]
  BY <1>1
<1>4. BaseTypes
  <2>1. /\ doing \in [Worker -> Doings(added)] /\ made \subseteq Life
        /\ parent \in [Life -> Life \cup {NoLife}]
    BY LifeAssumption DEF Doings
  <2>2. added \in 0..MaxActions /\ halfOpen \subseteq 1..added
    BY LifeAssumption
  <2>3. before \in [Life -> SUBSET (1..added)] /\ ran \in [1..MaxActions -> 0..1] /\ race \in BOOLEAN
    <3>1. {} \in SUBSET (1..added) /\ 0 \in 0..1
      OBVIOUS
    <3>2. before \in [Life -> SUBSET (1..added)]
      BY <3>1
    <3>3. ran \in [1..MaxActions -> 0..1]
      BY <3>1
    <3>4. race \in BOOLEAN
      OBVIOUS
    <3> QED BY <3>2, <3>3, <3>4
  <2>4. holder \in [1..MaxActions -> Life \cup {NoLife}] /\ removed = {}
    OBVIOUS
  <2> QED BY <1>2, <1>3, <2>1, <2>2, <2>3, <2>4 DEF BaseTypes
<1>5. EndedWasMade /\ NestedDoings
  BY <1>2 DEF EndedWasMade, NestedDoings
<1>6. MapsFit
  BY <1>2, FitsNone DEF MapsFit
<1>7. CallsFit
  BY <1>1, <1>2 DEF CallsFit
<1>8. OneBracket /\ \A n : ~Closing(n)
  BY <1>2 DEF OneBracket, Brackets, Closing
<1>9. Emptied /\ EndsFirst
  BY <1>2 DEF Emptied, EndsFirst
<1>10. \A s \in DOMAIN Waits : Waits[s] = <<>>
  <2>1. \A s \in Spots(running) : Shelves(actions, running)[s] = <<>>
    <3>1. \A w \in Worker : \A k \in 1..Len(running[w]) : FALSE
      BY <1>1, <1>2
    <3>2. \A l \in Life : Shelves(actions, running)[<<l, 0>>] = actions[l]
      BY <1>3, ShelvesAre
    <3>3. ASSUME NEW s \in Spots(running) PROVE \E l \in Life : s = <<l, 0>>
      <4>1. \/ \E l \in Life : s = <<l, 0>>
            \/ \E w \in Worker : \E k \in 1..Len(running[w]) : s = <<w, k>>
        BY <1>3, ShelvesAre
      <4> QED BY <3>1, <4>1
    <3> QED BY <1>2, <3>2, <3>3
  <2> QED BY <1>3, <2>1, WaitsAre, ShelvesAre
<1>11. \A a : ~In(Waits, a) /\ AtOnce(Waits, a)
  BY <1>1, <1>10 DEF In, AtOnce
<1>12. ASSUME NEW n \in 1..MaxActions PROVE InOnePlace(n)
  <2>1. ~(n <= added) /\ ran[n] = 0
    BY LifeAssumption
  <2> QED BY <2>1, <1>11 DEF InOnePlace
<1> QED BY <1>4, <1>5, <1>6, <1>7, <1>8, <1>9, <1>12 DEF LifeInv, LifeTypes

\* Lifetimes: every action is in one place, with at most one thread in the middle of its
\* bracket; none is left in a lifetime that has ended and whose actions were taken; and
\* what a lifetime had when another was nested in it is run after that one's end.
THEOREM LifeInvariance == Spec => []LifePart
<1>1. Init => LifePart
  <2>1. LifeInit => LifeUnused
    BY DEF LifeInit, LifeUnused
  <2> QED BY <2>1, LifeStarts DEF Init, LifePart
<1>2. LifeInv /\ [LifeNext]_lifeVars => LifeInv'
  <2>1. LifeInv /\ UNCHANGED lifeVars => LifeInv'
    <3> SUFFICES ASSUME LifeInv, UNCHANGED lifeVars PROVE LifeInv'
      OBVIOUS
    <3>1. /\ terminated' = terminated /\ actions' = actions /\ running' = running
          /\ doing' = doing /\ made' = made /\ parent' = parent /\ added' = added
          /\ halfOpen' = halfOpen /\ before' = before /\ ran' = ran /\ race' = race
          /\ holder' = holder /\ removed' = removed
      BY DEF lifeVars
    <3>2. Waits' = Waits
      BY <3>1 DEF Waits
    <3>3. LifeTypes' /\ OneBracket' /\ Emptied' /\ EndsFirst'
      BY <3>1, <3>2 DEF LifeInv, LifeTypes, BaseTypes, EndedWasMade, NestedDoings, MapsFit,
                        CallsFit, OneBracket, Brackets, Emptied, Ending, EndsFirst
    <3>4. ASSUME NEW n \in 1..MaxActions PROVE InOnePlace(n)'
      BY <3>1, <3>2 DEF LifeInv, InOnePlace, Closing
    <3> QED BY <3>3, <3>4 DEF LifeInv
  <2> QED BY <2>1, LifeStep
<1>3. LifePart /\ [Next]_vars => LifePart'
  BY <1>2, StepOfParts DEF LifePart, LifeUnused, lifeVars
<1> QED BY <1>1, <1>3, PTL DEF Spec

\* How often an action waits of which there is one at most.
LEMMA WaitsOnce ==
  ASSUME LifeTypes, NEW n, AtOnce(Waits, User(n))
  PROVE  Waiting(n) = IF In(Waits, User(n)) THEN 1 ELSE 0
<1> DEFINE W == UNION {{at} \X {i \in DOMAIN Waits[at] : Waits[at][i] = User(n)} :
                          at \in DOMAIN Waits}
<1>1. Waiting(n) = Cardinality(W)
  BY DEF Waiting
<1>2. \A at \in DOMAIN Waits : DOMAIN Waits[at] = 1..Len(Waits[at])
  <2>1. actions \in [Life -> Seq(Actions)] /\ running \in [Worker -> Seq(Calls)]
    BY DEF LifeTypes, BaseTypes
  <2>2. Waits \in [Spots(running) -> Seq(Actions)]
    BY <2>1, WaitsAre, ShelvesAre
  <2> QED BY <2>2
<1>3. CASE ~In(Waits, User(n))
  <2>1. \A at \in DOMAIN Waits : {i \in DOMAIN Waits[at] : Waits[at][i] = User(n)} = {}
    BY <1>2, <1>3 DEF In
  <2>2. W = {}
    BY <2>1
  <2> QED BY <1>1, <1>3, <2>2, FS_EmptySet
<1>4. CASE In(Waits, User(n))
  <2>1. PICK s \in DOMAIN Waits : \E k \in 1..Len(Waits[s]) : Waits[s][k] = User(n)
    BY <1>4 DEF In
  <2> PICK k \in 1..Len(Waits[s]) : Waits[s][k] = User(n)
    BY <2>1
  <2>2. \A at \in DOMAIN Waits : \A i \in 1..Len(Waits[at]) :
          Waits[at][i] = User(n) => at = s /\ i = k
    BY DEF AtOnce
  <2>3. \A at \in DOMAIN Waits : \A i \in DOMAIN Waits[at] :
          Waits[at][i] = User(n) => at = s /\ i = k
    BY <1>2, <2>2
  <2>4. k \in DOMAIN Waits[s]
    BY <1>2
  <2>5. <<s, k>> \in W
    BY <2>4
  <2>6. ASSUME NEW x \in W PROVE x = <<s, k>>
    <3>1. PICK at \in DOMAIN Waits :
            x \in {at} \X {i \in DOMAIN Waits[at] : Waits[at][i] = User(n)}
      OBVIOUS
    <3> QED BY <3>1, <2>3
  <2>7. W = {<<s, k>>}
    BY <2>5, <2>6
  <2> QED BY <1>1, <1>4, <2>7, FS_Singleton
<1> QED BY <1>3, <1>4

\* ActionsRunOnce: what was accepted waits, was removed or has been run, once, unless a
\* bracket stays open; and a lifetime that has ended holds nothing.
THEOREM ActionsOnce == Spec => []ActionsRunOnce
<1>1. LifeInv => ActionsRunOnce
  <2> SUFFICES ASSUME LifeInv PROVE ActionsRunOnce
    OBVIOUS
  <2>1. ASSUME NEW n \in 1..added
        PROVE  Waiting(n) + ran[n] + (IF Closing(n) \/ n \in removed THEN 1 ELSE 0) = 1
    <3>1. n \in 1..MaxActions /\ n <= added
      BY LifeAssumption DEF LifeInv, LifeTypes, BaseTypes
    <3>2. InOnePlace(n)
      BY <3>1 DEF LifeInv
    <3>3. Waiting(n) = IF In(Waits, User(n)) THEN 1 ELSE 0
      BY <3>2, WaitsOnce DEF LifeInv, InOnePlace
    <3> QED BY <3>1, <3>2, <3>3 DEF InOnePlace
  <2> QED BY <2>1 DEF LifeInv, Emptied, ActionsRunOnce
<1>2. LifeUnused => ActionsRunOnce
  BY DEF LifeUnused, ActionsRunOnce
<1>3. LifePart => ActionsRunOnce
  BY <1>1, <1>2 DEF LifePart
<1> QED BY <1>3, LifeInvariance, PTL

\* ChildEndsFirst: what a lifetime had when another was nested in it is run after that
\* other one is terminated.
THEOREM ChildEnds == Spec => []ChildEndsFirst
<1>1. LifeInv => ChildEndsFirst
  <2> SUFFICES ASSUME LifeInv, NEW c \in Life, NEW n \in before[c], ran[n] > 0, ~terminated[c]
               PROVE  FALSE
    BY DEF ChildEndsFirst
  <2>1. n \in 1..MaxActions /\ n <= added
    BY LifeAssumption DEF LifeInv, LifeTypes, BaseTypes
  <2>2. Below(Waits, User(n), End(c))
    BY <2>1 DEF LifeInv, EndsFirst, InOnePlace
  <2>3. In(Waits, User(n))
    BY <2>2 DEF Below, In
  <2>4. ran[n] = 0
    BY <2>1, <2>3 DEF LifeInv, InOnePlace
  <2> QED BY <2>4
<1>2. LifeUnused => ChildEndsFirst
  BY DEF LifeUnused, ChildEndsFirst
<1>3. LifePart => ChildEndsFirst
  BY <1>1, <1>2 DEF LifePart
<1> QED BY <1>3, LifeInvariance, PTL

-----------------------------------------------------------------------------
\* RdModel

\* Two of the properties look at whatever is on the wire: other entities' messages are
\* neither changes of a list nor data of an ext.
Silent == busy \in {"link", "lifetimes"} => \A s \in Side : net[s] = <<>>

Entities ==
  {"property", "map", "list", "set", "call", "intern", "ext", "link", "heartbeat", "lifetimes"}

Parts ==
  /\ busy \in Entities /\ Silent
  /\ PropertyPart /\ MapPart /\ ListPart /\ SetPart /\ CallPart /\ InternPart
  /\ ExtPart /\ BeatPart /\ LinkPart /\ LifePart

THEOREM PartsInvariance == Spec => []Parts
<1>1. Init => busy \in Entities /\ Silent
  BY DEF Init, PropertyInit, NetInit, Silent, Entities
<1>2. busy \in Entities /\ Silent /\ [Next]_vars => (busy \in Entities /\ Silent)'
  <2> SUFFICES ASSUME busy \in Entities, Silent, [Next]_vars
               PROVE  busy' \in Entities /\ Silent'
    OBVIOUS
  <2>1. busy' = busy
    BY StepOfParts
  <2>2. ASSUME busy \in {"link", "lifetimes"} PROVE net' = net
    <3>1. CASE UNCHANGED vars
      BY <3>1 DEF vars
    <3>2. CASE UseLink
      BY <3>2 DEF UseLink, besideLink
    <3>3. CASE UseLifetimes
      BY <3>3 DEF UseLifetimes
    <3> QED BY <2>2, <3>1, <3>2, <3>3 DEF Next, UseProperty, UseMap, UseList, UseSet, UseCall,
                UseIntern, UseExt, UseHeartbeat
  <2> QED BY <2>1, <2>2 DEF Silent
<1>3. Spec => [](busy \in Entities /\ Silent)
  BY <1>1, <1>2, PTL DEF Spec
<1> QED BY <1>3, PropertyInvariance, MapInvariance, ListInvariance, SetInvariance,
           CallInvariance, InternInvariance, ExtInvariance, BeatInvariance, LinkInvariance,
           LifeInvariance, PTL DEF Parts

\* TypeOK: the variables of the entity that is busy have their types.
THEOREM TypeCorrectness == Spec => []TypeOK
<1>1. LinkInv => LinkTypeOK
  BY LinkAssumption DEF LinkInv, LinkTypes, OnePlace, LinkTypeOK
<1>2. LifeInv => LifeTypeOK
  BY DEF LifeInv, LifeTypes, BaseTypes, EndedWasMade, LifeTypeOK
<1>3. Parts => TypeOK
  <2> SUFFICES ASSUME Parts PROVE TypeOK
    OBVIOUS
  <2>1. busy = "property" => PropertyTypeOK
    BY DEF Parts, PropertyPart, PropertyInv
  <2>2. busy = "map" => MapTypeOK
    BY DEF Parts, MapPart, MapInv, MapTypes
  <2>3. busy = "list" => ListTypeOK
    BY DEF Parts, ListPart, ListInv
  <2>4. busy = "set" => SetTypeOK
    BY DEF Parts, SetPart, SetInv
  <2>5. busy = "call" => CallTypeOK
    BY CallTypes DEF Parts, CallPart, CallAll
  <2>6. busy = "ext" => ExtTypeOK
    BY DEF Parts, ExtPart, ExtInv
  <2>7. busy = "intern" => InternTypeOK
    BY DEF Parts, InternPart, InternInv
  <2>8. busy = "link" => LinkTypeOK
    BY <1>1 DEF Parts, LinkPart
  <2>9. busy = "heartbeat" => BeatTypeOK
    BY DEF Parts, BeatPart, BeatInv
  <2>10. busy = "lifetimes" => LifeTypeOK
    BY <1>2 DEF Parts, LifePart
  <2> QED BY <2>1, <2>2, <2>3, <2>4, <2>5, <2>6, <2>7, <2>8, <2>9, <2>10 DEF TypeOK
<1> QED BY <1>3, PartsInvariance, PTL

HasIndex(m) == "index" \in DOMAIN m

LEMMA KindsOfMessages ==
  /\ \A m \in PropertyMessages \cup SetMessages \cup Changes \cup Acks \cup Pings
              \cup Requests \cup Answers \cup InternMessages : ~IsData(m) /\ ~HasIndex(m)
  /\ \A m \in ListMessages : ~IsData(m) /\ HasIndex(m)
  /\ \A m \in ExtMessages : ~HasIndex(m)
<1>1. \A m \in PropertyMessages \cup SetMessages : ~IsData(m) /\ ~HasIndex(m)
  BY DEF PropertyMessages, SetMessages, IsData, HasIndex
<1>2. \A m \in Changes \cup Acks : ~IsData(m) /\ ~HasIndex(m)
  BY DEF Changes, Acks, IsData, HasIndex
<1>3. \A m \in Pings \cup Requests \cup Answers : ~IsData(m) /\ ~HasIndex(m)
  BY DEF Pings, Requests, Answers, IsData, HasIndex
<1>4. \A m \in InternMessages : ~IsData(m) /\ ~HasIndex(m)
  BY DEF InternMessages, UseMessages, ValueMessages, IsData, HasIndex
<1>5. \A m \in ListMessages : ~IsData(m) /\ HasIndex(m)
  BY DEF ListMessages, IsData, HasIndex
<1>6. \A m \in ExtMessages : ~HasIndex(m)
  BY DEF ExtMessages, HasIndex
<1> QED BY <1>1, <1>2, <1>3, <1>4, <1>5, <1>6

LEMMA WhatIsOnTheWire ==
  ASSUME Parts, NEW s \in Side
  PROVE  \/ net[s] = <<>>
         \/ busy = "property" /\ net[s] \in Seq(PropertyMessages)
         \/ busy = "map" /\ net[s] \in Seq(Changes \cup Acks)
         \/ busy = "list" /\ net[s] \in Seq(ListMessages)
         \/ busy = "set" /\ net[s] \in Seq(SetMessages)
         \/ busy = "call" /\ (net[s] \in Seq(Requests) \/ net[s] \in Seq(Answers))
         \/ busy = "intern" /\ net[s] \in Seq(InternMessages)
         \/ busy = "ext" /\ net[s] \in Seq(ExtMessages)
         \/ busy = "heartbeat" /\ net[s] \in Seq(Pings)
<1>1. CASE busy = "property"
  BY <1>1 DEF Parts, PropertyPart, PropertyInv, PropertyTypeOK
<1>2. CASE busy = "map"
  BY <1>2 DEF Parts, MapPart, MapInv, MapTypes, MapTypeOK
<1>3. CASE busy = "list"
  BY <1>3 DEF Parts, ListPart, ListInv, ListTypeOK
<1>4. CASE busy = "set"
  BY <1>4 DEF Parts, SetPart, SetInv, SetTypeOK
<1>5. CASE busy = "call"
  <2>1. CallTypeOK
    BY <1>5, CallTypes DEF Parts, CallPart, CallAll
  <2> QED BY <1>5, <2>1 DEF CallTypeOK, Side
<1>6. CASE busy = "intern"
  BY <1>6 DEF Parts, InternPart, InternInv, InternTypeOK, InternMessages
<1>7. CASE busy = "ext"
  BY <1>7 DEF Parts, ExtPart, ExtInv, ExtTypeOK
<1>8. CASE busy = "heartbeat"
  BY <1>8 DEF Parts, BeatPart, BeatInv, BeatTypeOK
<1>9. CASE busy \in {"link", "lifetimes"}
  BY <1>9 DEF Parts, Silent
<1>10. busy \in Entities
  BY DEF Parts
<1> QED BY <1>1, <1>2, <1>3, <1>4, <1>5, <1>6, <1>7, <1>8, <1>9, <1>10 DEF Entities

LEMMA NoDataElsewhere ==
  ASSUME Parts, busy # "ext", NEW s \in Side, NEW i \in 1..Len(net[s])
  PROVE  ~IsData(net[s][i])
<1>1. \A T : net[s] \in Seq(T) => net[s][i] \in T
  OBVIOUS
<1>2. net[s] # <<>>
  OBVIOUS
<1> QED BY <1>1, <1>2, WhatIsOnTheWire, KindsOfMessages

LEMMA NoChangesOfListElsewhere ==
  ASSUME Parts, busy # "list", NEW s \in Side, net[s] # <<>>
  PROVE  Head(net[s]) \notin ListMessages
<1>1. \A T : net[s] \in Seq(T) => Head(net[s]) \in T
  OBVIOUS
<1> QED BY <1>1, WhatIsOnTheWire, KindsOfMessages

\* ListAgrees: the versions catch every way to change a list from two sides, and while
\* they have caught none a change fits the list it arrives at.
THEOREM ListAgreement == Spec => []ListAgrees
<1>1. ASSUME ListTypeOK, Clash \/ \E s \in Side : Leads(s) PROVE ListAgrees
  <2>1. CASE Clash
    <3>1. ~Quiet
      BY <2>1 DEF Clash, Quiet, Side
    <3>2. ASSUME NEW s \in Side PROVE ~InTurn(s, Head(net[s]))
      <4>1. nextListVersion[s] \in Nat /\ Head(net[s]).version < nextListVersion[s]
        BY <1>1, <2>1, ListFacts DEF Clash
      <4> QED BY <4>1 DEF InTurn
    <3> QED BY <3>1, <3>2 DEF ListAgrees
  <2>2. ASSUME NEW r \in Side, Leads(r) PROVE ListAgrees
    <3>1. PICK o \in Side : o = Other(r) /\ o # r
      BY OtherSide
    <3>2. PICK h \in [Nat -> Seq(ListValues)] :
            /\ h[0] = list[o] /\ h[Len(net[o])] = list[r]
            /\ \A i \in 1..Len(net[o]) :
                 net[o][i].index \in Places(h[i - 1], net[o][i].op)
      BY <2>2, <3>1 DEF Leads, Path
    <3>3. Quiet => list["master"] = list["slave"]
      <4>1. Quiet => list[o] = list[r]
        BY <3>2 DEF Quiet
      <4> QED BY <4>1, <3>1 DEF Side
    <3>4. ASSUME NEW s \in Side, net[s] # <<>> PROVE InRange(s, Head(net[s]))
      <4>1. s = o
        BY <3>4, <2>2, <3>1, OtherSide DEF Leads
      <4>2. net[s] \in Seq(ListMessages)
        BY <1>1 DEF ListTypeOK
      <4>3. 1 \in 1..Len(net[s]) /\ Head(net[s]) = net[s][1] /\ 1 - 1 = 0
        BY <4>2, <3>4, TailFacts
      <4> QED BY <4>1, <4>3, <3>2 DEF InRange
    <3> QED BY <3>3, <3>4 DEF ListAgrees
  <2> QED BY <1>1, <2>1, <2>2
<1>2. Parts => ListAgrees
  <2>1. CASE busy = "list"
    BY <2>1, <1>1 DEF Parts, ListPart, ListInv, ListAgrees
  <2>2. CASE busy # "list"
    BY <2>2, NoChangesOfListElsewhere DEF Parts, ListPart, ListUnused, ListAgrees
  <2> QED BY <2>1, <2>2
<1> QED BY <1>2, PartsInvariance, PTL

\* DataInOrder: what had to wait for the counterpart leaves before what had not, in the
\* order it was sent in, however the exts of both sides come and go.
THEOREM DataOrder == Spec => []DataInOrder
<1>1. ASSUME NEW q, NEW p \in Seq(Nat), NEW r \in Seq(Nat), NEW n \in Nat, Queued(q, p, r, n)
      PROVE  Sorted(p \o r) /\ Before(q, p \o r)
  <2>1. CASE p = <<>>
    <3>1. p \o r = r
      BY <2>1
    <3> QED BY <3>1, <1>1 DEF Queued
  <2>2. CASE r = <<>>
    <3>1. p \o r = p
      BY <2>2
    <3>2. Sorted(p)
      <4>1. Len(p) \in Nat /\ Len(p) <= 1
        BY <1>1 DEF Queued
      <4> QED BY <4>1 DEF Sorted
    <3> QED BY <3>1, <3>2, <1>1 DEF Queued
  <2> QED BY <2>1, <2>2, <1>1 DEF Queued
<1>2. ExtInv => DataInOrder
  <2> SUFFICES ASSUME ExtInv, NEW s \in Side
               PROVE  /\ DataSorted(net[Other(s)]) /\ Sorted(Unsent(s))
                      /\ Before(net[Other(s)], Unsent(s)) /\ ~tooEarly
    BY DEF DataInOrder, ExtInv
  <2>1. Queued(net[Other(s)], passed[s], sendQ[s], lastData[s])
        /\ passed[s] \in Seq(Nat) /\ sendQ[s] \in Seq(Nat) /\ lastData[s] \in Nat
    BY ExtFacts
  <2>2. Sorted(Unsent(s)) /\ Before(net[Other(s)], Unsent(s))
    BY <2>1, <1>1 DEF Unsent
  <2> QED BY <2>1, <2>2 DEF Queued, ExtInv
<1>3. Parts => DataInOrder
  <2> SUFFICES ASSUME Parts PROVE DataInOrder
    OBVIOUS
  <2>1. CASE busy = "ext"
    BY <2>1, <1>2 DEF Parts, ExtPart
  <2>2. CASE busy # "ext"
    <3>1. ExtUnused
      BY <2>2 DEF Parts, ExtPart
    <3>2. \A s \in Side : Unsent(s) = <<>>
      BY <3>1 DEF ExtUnused, Unsent
    <3>3. \A q : Sorted(<<>>) /\ Before(q, <<>>)
      BY DEF Sorted, Before
    <3>4. \A s \in Side : DataSorted(net[Other(s)])
      BY <2>2, NoDataElsewhere, OtherSide DEF DataSorted
    <3> QED BY <3>1, <3>2, <3>3, <3>4 DEF ExtUnused, DataInOrder
  <2> QED BY <2>1, <2>2
<1> QED BY <1>3, PartsInvariance, PTL
=============================================================================
