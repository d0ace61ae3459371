-------------------------- MODULE DhtLookupProofs --------------------------
(***************************************************************************)
(* What dht_lookup() does with its providers and with our pool, for any    *)
(* network, any number of lookups at a time, and whatever peers move; and  *)
(* what it means that it returns None, if none moves.                      *)
(***************************************************************************)
EXTENDS DhtLookup, FiniteSetTheorems, WellFoundedInduction, TLAPS

Places == {"none", "begin", "dial", "ask", "wait", "close", "ready", "over"}

(* The types, without the limit on the number of lookups.                  *)
Types ==
    /\ knows \in [Peers -> SUBSET Peers]
    /\ holders \subseteq Peers /\ pool \subseteq Peers /\ before \subseteq Peers /\ moved \subseteq Peers
    /\ dialled \subseteq Peers /\ opened \subseteq Peers /\ wire \subseteq Peers
    /\ providers \subseteq Nodes /\ queried \subseteq Nodes
    /\ complete \in BOOLEAN
    /\ at \in [Nodes -> Places]
    /\ outcome \in [Nodes -> {"none", "failed", "found", "not found"}]
    /\ result \in {"running", "found", "none"}

AtMostAlpha == Cardinality(Active) <= Alpha

(* Who was asked is who has a lookup, and is no longer a provider.         *)
QueriedOnce ==
    /\ \A p \in Nodes : at[p] # "none" <=> p \in queried
    /\ providers \cap queried = {}

(* A lookup has an outcome when it is over or about to be; only peers      *)
(* answer.                                                                 *)
Outcomes ==
    \A p \in Nodes :
        /\ outcome[p] # "none" => at[p] \in {"close", "ready", "over"}
        /\ outcome[p] \in {"found", "not found"} => p \in Peers

(* What an answer named is a provider, or has been asked.                  *)
FollowedUp ==
    result # "found" => \A p \in Nodes :
        outcome[p] = "not found" /\ at[p] = "over" => FindDhtValue(p) \subseteq providers \cup queried

(* dht_lookup() returns when nothing is running any more, and without the  *)
(* value only when there is nobody to ask.                                 *)
Returned ==
    /\ result # "running" => Active = {}
    /\ result = "none" /\ ~ complete => providers = {}

(* A connection with a peer that has not moved is one that we had, or that *)
(* the lookup of the peer has opened and will close.                       *)
Connection(p) ==
    /\ p \in dialled => at[p] \notin {"none", "begin", "dial"}
    /\ p \in opened => p \in dialled
    /\ at[p] = "close" => p \in dialled
    /\ p \in dialled /\ at[p] \in {"ask", "wait", "close"} => p \in opened \cup moved
    /\ p \in opened => at[p] \in {"ask", "wait", "close"} \/ result = "found"
    /\ p \notin moved =>
          /\ p \in pool <=> p \in before \cup opened
          /\ p \in opened => p \notin before

Connections == \A p \in Peers : Connection(p)

IndInv ==
    /\ TypeOK
    /\ QueriedOnce
    /\ Outcomes
    /\ FollowedUp
    /\ Returned
    /\ Connections

(* The closest of the providers is one of them.                            *)
LEMMA Closest ==
    ASSUME NEW S \in SUBSET Nodes, S # {}
    PROVE  Min(S) \in S
  <1>1. S \subseteq Nat
    BY LookupAssumption
  <1>2. PICK x \in S : \A y \in S : ~ (<<y, x>> \in OpToRel(<, Nat))
    BY <1>1, NatLessThanWellFounded, WFMin
  <1>3. \A y \in S : ~ (y < x)
    BY <1>1, <1>2 DEF OpToRel
  <1>4. \A y \in S : x <= y
    BY <1>1, <1>3
  <1> QED  BY <1>4 DEF Min

(* A peer answers with nodes.                                              *)
LEMMA AnswersAreNodes ==
    ASSUME Types, NEW p \in Peers
    PROVE  FindDhtValue(p) \subseteq Nodes
  BY DEF Types, FindDhtValue, Nodes

(* Lookups that are over make room.                                        *)
LEMMA Fewer ==
    ASSUME Types, AtMostAlpha, Active' \subseteq Active
    PROVE  AtMostAlpha'
  <1>1. IsFiniteSet(Active)
    BY LookupAssumption, FS_Subset DEF Active
  <1>2. Cardinality(Active') <= Cardinality(Active)
    BY <1>1, FS_Subset
  <1>3. Cardinality(Active) \in Nat /\ Cardinality(Active') \in Nat
    BY <1>1, FS_Subset, FS_CardinalityType
  <1> QED  BY <1>2, <1>3, LookupAssumption DEF AtMostAlpha

(* ... and one that starts takes room that there was.                      *)
LEMMA OneMore ==
    ASSUME NEW A \in SUBSET Nodes, NEW p, Cardinality(A) < Alpha
    PROVE  Cardinality(A \cup {p}) <= Alpha
  <1>1. IsFiniteSet(A)
    BY LookupAssumption, FS_Subset
  <1>2. Cardinality(A) \in Nat /\ Alpha \in Nat
    BY <1>1, FS_CardinalityType, LookupAssumption
  <1>3. Cardinality(A \cup {p}) = IF p \in A THEN Cardinality(A) ELSE Cardinality(A) + 1
    BY <1>1, FS_AddElement
  <1> QED  BY <1>2, <1>3

(* The types are kept by every step ...                                    *)
LEMMA TypesStep == Types /\ Outcomes /\ [Next]_vars => Types'
  <1> SUFFICES ASSUME Types, Outcomes, [Next]_vars PROVE Types'
    OBVIOUS
  <1> USE LookupAssumption DEF Types, Nodes, Places, Goto, Returns, world
  <1>1. CASE Start
    <2>1. Min(providers) \in providers
      BY <1>1, Closest DEF Start, HasRoom
    <2> QED  BY <1>1, <2>1 DEF Start
  <1>2. CASE NoProviders
    BY <1>2 DEF NoProviders
  <1>3. ASSUME NEW p \in Nodes, FoundValues(p) PROVE Types'
    BY <1>3 DEF FoundValues
  <1>4. ASSUME NEW p \in Nodes, NotFound(p) PROVE Types'
    <2>1. FindDhtValue(p) \subseteq Nodes
      BY <1>4, AnswersAreNodes DEF NotFound, Outcomes
    <2> QED  BY <1>4, <2>1 DEF NotFound
  <1>5. ASSUME NEW p \in Nodes, LookupFailed(p) PROVE Types'
    BY <1>5 DEF LookupFailed
  <1>6. ASSUME NEW p \in Nodes, Begin(p) PROVE Types'
    BY <1>6 DEF Begin
  <1>7. ASSUME NEW p \in Nodes, Connect(p) PROVE Types'
    <2>1. p \in Peers
      BY <1>7 DEF Connect
    <2> QED  BY <1>7, <2>1 DEF Connect
  <1>8. ASSUME NEW p \in Nodes, FailToConnect(p) PROVE Types'
    <2>1. at' \in [Nodes -> Places]
      BY <1>8 DEF FailToConnect
    <2>2. outcome' \in [Nodes -> {"none", "failed", "found", "not found"}]
      BY <1>8 DEF FailToConnect
    <2> QED  BY <1>8, <2>1, <2>2 DEF FailToConnect
  <1>9. ASSUME NEW p \in Nodes, Ask(p) PROVE Types'
    <2>1. wire' \subseteq Peers
      BY <1>9 DEF Ask
    <2> QED  BY <1>9, <2>1 DEF Ask
  <1>10. ASSUME NEW p \in Nodes, Answered(p) PROVE Types'
    <2>1. at' \in [Nodes -> Places]
      BY <1>10 DEF Answered
    <2>2. outcome' \in [Nodes -> {"none", "failed", "found", "not found"}]
      BY <1>10 DEF Answered
    <2> QED  BY <1>10, <2>1, <2>2 DEF Answered
  <1>11. ASSUME NEW p \in Nodes, Close(p) PROVE Types'
    BY <1>11 DEF Close
  <1>12. ASSUME NEW p \in Peers, PeerJoins(p) \/ PeerQuits(p) \/ DhtSet(p) PROVE Types'
    BY <1>12 DEF PeerJoins, PeerQuits, DhtSet, Moves
  <1>13. CASE UNCHANGED vars
    BY <1>13 DEF vars
  <1> QED  BY <1>1, <1>2, <1>3, <1>4, <1>5, <1>6, <1>7, <1>8, <1>9, <1>10, <1>11, <1>12, <1>13
           DEF Next, Main, Lookup

(* The number of lookups is limited: only Start adds one, if there is room.*)
LEMMA LimitStep == Types /\ AtMostAlpha /\ [Next]_vars => AtMostAlpha'
  <1> SUFFICES ASSUME Types, AtMostAlpha, [Next]_vars PROVE AtMostAlpha'
    OBVIOUS
  <1> USE DEF Types, Goto, Returns, world, Ready, AtMostAlpha
  <1>1. CASE Start
    <2>1. Min(providers) \in Nodes
      BY <1>1, Closest DEF Start, HasRoom
    <2>2. Active' = Active \cup {Min(providers)}
      BY <1>1, <2>1 DEF Start, Active, Places
    <2>3. Cardinality(Active) < Alpha
      BY <1>1 DEF Start, HasRoom
    <2>4. Active \in SUBSET Nodes
      BY DEF Active
    <2>5. Cardinality(Active') <= Alpha
      BY <2>2, <2>3, <2>4, OneMore
    <2> QED  BY <2>5, Zenon
  <1>2. CASE NoProviders
    BY <1>2 DEF NoProviders, Active
  <1>3. ASSUME NEW p \in Nodes, FoundValues(p) PROVE AtMostAlpha'
    <2>1. Active' \subseteq Active
      BY <1>3 DEF FoundValues, Active, Places
    <2> QED  BY <2>1, Fewer
  <1>4. ASSUME NEW p \in Nodes, NotFound(p) PROVE AtMostAlpha'
    <2>1. Active' \subseteq Active
      BY <1>4 DEF NotFound, Active, Places
    <2> QED  BY <2>1, Fewer
  <1>5. ASSUME NEW p \in Nodes, LookupFailed(p) PROVE AtMostAlpha'
    <2>1. Active' \subseteq Active
      BY <1>5 DEF LookupFailed, Active, Places
    <2> QED  BY <2>1, Fewer
  <1>6. ASSUME NEW p \in Nodes, Begin(p) PROVE AtMostAlpha'
    <2>1. Active' \subseteq Active
      BY <1>6 DEF Begin, Active, Places
    <2> QED  BY <2>1, Fewer
  <1>7. ASSUME NEW p \in Nodes, Connect(p) PROVE AtMostAlpha'
    <2>1. Active' \subseteq Active
      BY <1>7 DEF Connect, Active, Places
    <2> QED  BY <2>1, Fewer
  <1>8. ASSUME NEW p \in Nodes, FailToConnect(p) PROVE AtMostAlpha'
    <2>1. Active' \subseteq Active
      BY <1>8 DEF FailToConnect, Active, Places
    <2> QED  BY <2>1, Fewer
  <1>9. ASSUME NEW p \in Nodes, Ask(p) PROVE AtMostAlpha'
    <2>1. Active' \subseteq Active
      BY <1>9 DEF Ask, Active, Places
    <2> QED  BY <2>1, Fewer
  <1>10. ASSUME NEW p \in Nodes, Answered(p) PROVE AtMostAlpha'
    <2>1. Active' \subseteq Active
      BY <1>10 DEF Answered, Active, Places
    <2> QED  BY <2>1, Fewer
  <1>11. ASSUME NEW p \in Nodes, Close(p) PROVE AtMostAlpha'
    <2>1. Active' \subseteq Active
      BY <1>11 DEF Close, Active, Places
    <2> QED  BY <2>1, Fewer
  <1>12. ASSUME NEW p \in Peers, PeerJoins(p) \/ PeerQuits(p) \/ DhtSet(p) PROVE AtMostAlpha'
    BY <1>12 DEF PeerJoins, PeerQuits, DhtSet, Moves, Active
  <1>13. CASE UNCHANGED vars
    BY <1>13 DEF vars, Active
  <1> QED  BY <1>1, <1>2, <1>3, <1>4, <1>5, <1>6, <1>7, <1>8, <1>9, <1>10, <1>11, <1>12, <1>13
           DEF Next, Main, Lookup

(* ... so that a lookup is started for everybody asked, and for nobody twice. *)
LEMMA QueriedStep == Types /\ QueriedOnce /\ Outcomes /\ [Next]_vars => QueriedOnce'
  <1> SUFFICES ASSUME Types, QueriedOnce, Outcomes, [Next]_vars PROVE QueriedOnce'
    OBVIOUS
  <1> USE DEF Types, QueriedOnce, Goto, Returns, world, Ready, Places
  <1>1. CASE Start
    <2>1. Min(providers) \in providers
      BY <1>1, Closest DEF Start, HasRoom
    <2> QED  BY <1>1, <2>1 DEF Start
  <1>2. CASE NoProviders
    BY <1>2 DEF NoProviders
  <1>3. ASSUME NEW p \in Nodes, FoundValues(p) PROVE QueriedOnce'
    <2>1. \A q \in Nodes : at'[q] = "none" <=> at[q] = "none"
      BY <1>3 DEF FoundValues, Active
    <2> QED  BY <1>3, <2>1 DEF FoundValues
  <1>4. ASSUME NEW p \in Nodes, NotFound(p) PROVE QueriedOnce'
    <2>1. FindDhtValue(p) \subseteq Nodes
      BY <1>4, AnswersAreNodes DEF NotFound, Outcomes
    <2> QED  BY <1>4, <2>1 DEF NotFound
  <1>5. ASSUME NEW p \in Nodes, LookupFailed(p) PROVE QueriedOnce'
    BY <1>5 DEF LookupFailed
  <1>6. ASSUME NEW p \in Nodes, Begin(p) PROVE QueriedOnce'
    BY <1>6 DEF Begin
  <1>7. ASSUME NEW p \in Nodes, Connect(p) PROVE QueriedOnce'
    BY <1>7 DEF Connect
  <1>8. ASSUME NEW p \in Nodes, FailToConnect(p) PROVE QueriedOnce'
    BY <1>8 DEF FailToConnect
  <1>9. ASSUME NEW p \in Nodes, Ask(p) PROVE QueriedOnce'
    BY <1>9 DEF Ask
  <1>10. ASSUME NEW p \in Nodes, Answered(p) PROVE QueriedOnce'
    BY <1>10 DEF Answered
  <1>11. ASSUME NEW p \in Nodes, Close(p) PROVE QueriedOnce'
    BY <1>11 DEF Close
  <1>12. ASSUME NEW p \in Peers, PeerJoins(p) \/ PeerQuits(p) \/ DhtSet(p) PROVE QueriedOnce'
    BY <1>12 DEF PeerJoins, PeerQuits, DhtSet, Moves
  <1>13. CASE UNCHANGED vars
    BY <1>13 DEF vars
  <1> QED  BY <1>1, <1>2, <1>3, <1>4, <1>5, <1>6, <1>7, <1>8, <1>9, <1>10, <1>11, <1>12, <1>13
           DEF Next, Main, Lookup

(* Only peers answer, and an outcome ends a lookup. *)
LEMMA OutcomesStep == Types /\ Outcomes /\ QueriedOnce /\ [Next]_vars => Outcomes'
  <1> SUFFICES ASSUME Types, Outcomes, QueriedOnce, [Next]_vars PROVE Outcomes'
    OBVIOUS
  <1> USE DEF Types, Outcomes, Goto, Returns, world, Ready, Places
  <1>1. CASE Start
    <2>1. Min(providers) \in providers
      BY <1>1, Closest DEF Start, HasRoom
    <2>2. at[Min(providers)] = "none"
      BY <2>1 DEF QueriedOnce
    <2> QED  BY <1>1, <2>1, <2>2 DEF Start
  <1>2. CASE NoProviders
    BY <1>2 DEF NoProviders
  <1>3. ASSUME NEW p \in Nodes, FoundValues(p) PROVE Outcomes'
    <2>1. \A q \in Nodes : outcome[q] # "none" => at'[q] \in {"close", "ready", "over"}
      BY <1>3 DEF FoundValues, Active
    <2> QED  BY <1>3, <2>1 DEF FoundValues
  <1>4. ASSUME NEW p \in Nodes, NotFound(p) PROVE Outcomes'
    BY <1>4 DEF NotFound
  <1>5. ASSUME NEW p \in Nodes, LookupFailed(p) PROVE Outcomes'
    BY <1>5 DEF LookupFailed
  <1>6. ASSUME NEW p \in Nodes, Begin(p) PROVE Outcomes'
    BY <1>6 DEF Begin
  <1>7. ASSUME NEW p \in Nodes, Connect(p) PROVE Outcomes'
    BY <1>7 DEF Connect
  <1>8. ASSUME NEW p \in Nodes, FailToConnect(p) PROVE Outcomes'
    BY <1>8 DEF FailToConnect
  <1>9. ASSUME NEW p \in Nodes, Ask(p) PROVE Outcomes'
    BY <1>9 DEF Ask
  <1>10. ASSUME NEW p \in Nodes, Answered(p) PROVE Outcomes'
    BY <1>10 DEF Answered
  <1>11. ASSUME NEW p \in Nodes, Close(p) PROVE Outcomes'
    BY <1>11 DEF Close
  <1>12. ASSUME NEW p \in Peers, PeerJoins(p) \/ PeerQuits(p) \/ DhtSet(p) PROVE Outcomes'
    BY <1>12 DEF PeerJoins, PeerQuits, DhtSet, Moves
  <1>13. CASE UNCHANGED vars
    BY <1>13 DEF vars
  <1> QED  BY <1>1, <1>2, <1>3, <1>4, <1>5, <1>6, <1>7, <1>8, <1>9, <1>10, <1>11, <1>12, <1>13
           DEF Next, Main, Lookup

(* What was named by a provider is what it would name now.                 *)
LEMMA Same ==
    ASSUME knows' = knows
    PROVE  \A p \in Nodes : FindDhtValue(p)' = FindDhtValue(p)
  BY DEF FindDhtValue

(* It stays a provider until it is asked.                                  *)
LEMMA FollowedStep == Types /\ Outcomes /\ FollowedUp /\ [Next]_vars => FollowedUp'
  <1> SUFFICES ASSUME Types, Outcomes, FollowedUp, [Next]_vars PROVE FollowedUp'
    OBVIOUS
  <1> USE DEF Types, Goto, Returns, world, Ready, Places, Outcomes, FollowedUp
  <1>1. CASE Start
    <2>1. Min(providers) \in providers /\ Min(providers) \in Nodes
      BY <1>1, Closest DEF Start, HasRoom
    <2>2. providers' \cup queried' = providers \cup queried
      BY <1>1, <2>1 DEF Start
    <2>3. /\ knows' = knows /\ outcome' = outcome /\ result' = result
          /\ \A q \in Nodes : at'[q] = "over" => at[q] = "over"
      BY <1>1, <2>1 DEF Start
    <2> QED  BY <2>2, <2>3, Same
  <1>2. CASE NoProviders
    BY <1>2, Same DEF NoProviders
  <1>3. ASSUME NEW p \in Nodes, FoundValues(p) PROVE FollowedUp'
    BY <1>3 DEF FoundValues
  <1>4. ASSUME NEW p \in Nodes, NotFound(p) PROVE FollowedUp'
    <2>1. outcome' = outcome /\ result' = result /\ queried' = queried
      BY <1>4 DEF NotFound
    <2>2. providers \cup queried \cup FindDhtValue(p) = providers' \cup queried
      BY <1>4 DEF NotFound
    <2>3. \A q \in Nodes : at'[q] = "over" => at[q] = "over" \/ q = p
      BY <1>4 DEF NotFound
    <2>4. \A q \in Nodes : FindDhtValue(q)' = FindDhtValue(q)
      BY <1>4, Same DEF NotFound
    <2>5. ASSUME NEW q \in Nodes, result' # "found", outcome'[q] = "not found", at'[q] = "over"
          PROVE  FindDhtValue(q)' \subseteq providers' \cup queried'
      <3>1. q = p \/ FindDhtValue(q) \subseteq providers \cup queried
        BY <2>1, <2>3, <2>5
      <3>2. FindDhtValue(q)' = FindDhtValue(q)
        BY <2>4
      <3> QED  BY <2>1, <2>2, <3>1, <3>2, Zenon
    <2> QED  BY <2>5, Zenon
  <1>5. ASSUME NEW p \in Nodes, LookupFailed(p) PROVE FollowedUp'
    BY <1>5, Same DEF LookupFailed
  <1>6. ASSUME NEW p \in Nodes, Begin(p) PROVE FollowedUp'
    BY <1>6, Same DEF Begin
  <1>7. ASSUME NEW p \in Nodes, Connect(p) PROVE FollowedUp'
    BY <1>7, Same DEF Connect
  <1>8. ASSUME NEW p \in Nodes, FailToConnect(p) PROVE FollowedUp'
    BY <1>8, Same DEF FailToConnect
  <1>9. ASSUME NEW p \in Nodes, Ask(p) PROVE FollowedUp'
    BY <1>9, Same DEF Ask
  <1>10. ASSUME NEW p \in Nodes, Answered(p) PROVE FollowedUp'
    BY <1>10, Same DEF Answered
  <1>11. ASSUME NEW p \in Nodes, Close(p) PROVE FollowedUp'
    BY <1>11, Same DEF Close
  <1>12. ASSUME NEW p \in Peers, PeerJoins(p) \/ PeerQuits(p) \/ DhtSet(p) PROVE FollowedUp'
    BY <1>12, Same DEF PeerJoins, PeerQuits, DhtSet, Moves
  <1>13. CASE UNCHANGED vars
    BY <1>13, Same DEF vars
  <1> QED  BY <1>1, <1>2, <1>3, <1>4, <1>5, <1>6, <1>7, <1>8, <1>9, <1>10, <1>11, <1>12, <1>13
           DEF Next, Main, Lookup

(* dht_lookup() returns when no lookup runs.                               *)
LEMMA ReturnedStep == Types /\ Returned /\ [Next]_vars => Returned'
  <1> SUFFICES ASSUME Types, Returned, [Next]_vars PROVE Returned'
    OBVIOUS
  <1>0. Alpha \in Nat /\ Alpha > 0 /\ Cardinality({}) = 0
    BY LookupAssumption, FS_EmptySet
  <1> USE DEF Types, Goto, Returns, world, Ready, Places, Returned
  <1>1. CASE Start
    BY <1>1 DEF Start
  <1>2. CASE NoProviders
    <2>1. Active = {} /\ at' = at /\ Active' = {}
      BY <1>2 DEF NoProviders, Active
    <2>2. ~ complete => providers = {}
      BY <1>0, <1>2, <2>1 DEF NoProviders, HasRoom
    <2> QED  BY <1>2, <2>1, <2>2 DEF NoProviders
  <1>3. ASSUME NEW p \in Nodes, FoundValues(p) PROVE Returned'
    BY <1>3 DEF FoundValues, Active
  <1>4. ASSUME NEW p \in Nodes, NotFound(p) PROVE Returned'
    BY <1>4 DEF NotFound, Active
  <1>5. ASSUME NEW p \in Nodes, LookupFailed(p) PROVE Returned'
    BY <1>5 DEF LookupFailed, Active
  <1>6. ASSUME NEW p \in Nodes, Begin(p) PROVE Returned'
    <2>1. p \in Active /\ result' = result /\ result \in {"running", "found", "none"}
      BY <1>6 DEF Begin, Active
    <2> QED  BY <2>1
  <1>7. ASSUME NEW p \in Nodes, Connect(p) PROVE Returned'
    <2>1. p \in Active /\ result' = result /\ result \in {"running", "found", "none"}
      BY <1>7 DEF Connect, Active
    <2> QED  BY <2>1
  <1>8. ASSUME NEW p \in Nodes, FailToConnect(p) PROVE Returned'
    <2>1. p \in Active /\ result' = result /\ result \in {"running", "found", "none"}
      BY <1>8 DEF FailToConnect, Active
    <2> QED  BY <2>1
  <1>9. ASSUME NEW p \in Nodes, Ask(p) PROVE Returned'
    <2>1. p \in Active /\ result' = result /\ result \in {"running", "found", "none"}
      BY <1>9 DEF Ask, Active
    <2> QED  BY <2>1
  <1>10. ASSUME NEW p \in Nodes, Answered(p) PROVE Returned'
    <2>1. p \in Active /\ result' = result /\ result \in {"running", "found", "none"}
      BY <1>10 DEF Answered, Active
    <2> QED  BY <2>1
  <1>11. ASSUME NEW p \in Nodes, Close(p) PROVE Returned'
    <2>1. p \in Active /\ result' = result /\ result \in {"running", "found", "none"}
      BY <1>11 DEF Close, Active
    <2> QED  BY <2>1
  <1>12. ASSUME NEW p \in Peers, PeerJoins(p) \/ PeerQuits(p) \/ DhtSet(p) PROVE Returned'
    BY <1>12 DEF PeerJoins, PeerQuits, DhtSet, Moves
  <1>13. CASE UNCHANGED vars
    BY <1>13 DEF vars, Active
  <1> QED  BY <1>1, <1>2, <1>3, <1>4, <1>5, <1>6, <1>7, <1>8, <1>9, <1>10, <1>11, <1>12, <1>13
           DEF Next, Main, Lookup

(* Connections are opened and closed by the lookup of their peer only, or   *)
(* by the peer.                                                            *)
LEMMA ConnectionsStep == Types /\ QueriedOnce /\ Connections /\ [Next]_vars => Connections'
  <1> SUFFICES ASSUME Types, QueriedOnce, Connections, [Next]_vars PROVE Connections'
    OBVIOUS
  <1> USE DEF Types, Goto, Returns, world, Ready, Places
  <1>1. CASE Start
    <2> SUFFICES ASSUME NEW q \in Peers PROVE Connection(q)'
      BY DEF Connections
    <2>0. Connection(q) /\ q \in Nodes
      BY DEF Connections, Nodes
    <2>1. Min(providers) \in providers
      BY <1>1, Closest DEF Start, HasRoom
    <2>2. at[Min(providers)] = "none" /\ Min(providers) \in Nodes
      BY <2>1 DEF QueriedOnce
    <2> QED  BY <1>1, <2>0, <2>1, <2>2 DEF Start, Connection
  <1>2. CASE NoProviders
    <2> SUFFICES ASSUME NEW q \in Peers PROVE Connection(q)'
      BY DEF Connections
    <2>0. Connection(q) /\ q \in Nodes
      BY DEF Connections, Nodes
    <2> QED  BY <1>2, <2>0 DEF NoProviders, Connection
  <1>3. ASSUME NEW p \in Nodes, FoundValues(p) PROVE Connections'
    <2> SUFFICES ASSUME NEW q \in Peers PROVE Connection(q)'
      BY DEF Connections
    <2>0. Connection(q) /\ q \in Nodes
      BY DEF Connections, Nodes
    <2>1. CASE q = p
      BY <1>3, <2>0, <2>1 DEF FoundValues, Active, Connection
    <2>2. CASE q # p
      BY <1>3, <2>0, <2>2 DEF FoundValues, Active, Connection
    <2> QED  BY <2>1, <2>2
  <1>4. ASSUME NEW p \in Nodes, NotFound(p) PROVE Connections'
    <2> SUFFICES ASSUME NEW q \in Peers PROVE Connection(q)'
      BY DEF Connections
    <2>0. Connection(q) /\ q \in Nodes
      BY DEF Connections, Nodes
    <2>1. CASE q = p
      BY <1>4, <2>0, <2>1 DEF NotFound, Active, Connection
    <2>2. CASE q # p
      BY <1>4, <2>0, <2>2 DEF NotFound, Active, Connection
    <2> QED  BY <2>1, <2>2
  <1>5. ASSUME NEW p \in Nodes, LookupFailed(p) PROVE Connections'
    <2> SUFFICES ASSUME NEW q \in Peers PROVE Connection(q)'
      BY DEF Connections
    <2>0. Connection(q) /\ q \in Nodes
      BY DEF Connections, Nodes
    <2>1. CASE q = p
      BY <1>5, <2>0, <2>1 DEF LookupFailed, Active, Connection
    <2>2. CASE q # p
      BY <1>5, <2>0, <2>2 DEF LookupFailed, Active, Connection
    <2> QED  BY <2>1, <2>2
  <1>6. ASSUME NEW p \in Nodes, Begin(p) PROVE Connections'
    <2> SUFFICES ASSUME NEW q \in Peers PROVE Connection(q)'
      BY DEF Connections
    <2>0. Connection(q) /\ q \in Nodes
      BY DEF Connections, Nodes
    <2>1. CASE q = p
      BY <1>6, <2>0, <2>1 DEF Begin, Active, Connection
    <2>2. CASE q # p
      BY <1>6, <2>0, <2>2 DEF Begin, Active, Connection
    <2> QED  BY <2>1, <2>2
  <1>7. ASSUME NEW p \in Nodes, Connect(p) PROVE Connections'
    <2> SUFFICES ASSUME NEW q \in Peers PROVE Connection(q)'
      BY DEF Connections
    <2>0. Connection(q) /\ q \in Nodes
      BY DEF Connections, Nodes
    <2>1. CASE q = p
      BY <1>7, <2>0, <2>1 DEF Connect, Active, Connection
    <2>2. CASE q # p
      BY <1>7, <2>0, <2>2 DEF Connect, Active, Connection
    <2> QED  BY <2>1, <2>2
  <1>8. ASSUME NEW p \in Nodes, FailToConnect(p) PROVE Connections'
    <2> SUFFICES ASSUME NEW q \in Peers PROVE Connection(q)'
      BY DEF Connections
    <2>0. Connection(q) /\ q \in Nodes
      BY DEF Connections, Nodes
    <2>1. CASE q = p
      BY <1>8, <2>0, <2>1 DEF FailToConnect, Active, Connection
    <2>2. CASE q # p
      BY <1>8, <2>0, <2>2 DEF FailToConnect, Active, Connection
    <2> QED  BY <2>1, <2>2
  <1>9. ASSUME NEW p \in Nodes, Ask(p) PROVE Connections'
    <2> SUFFICES ASSUME NEW q \in Peers PROVE Connection(q)'
      BY DEF Connections
    <2>0. Connection(q) /\ q \in Nodes
      BY DEF Connections, Nodes
    <2>1. CASE q = p
      BY <1>9, <2>0, <2>1 DEF Ask, Active, Connection
    <2>2. CASE q # p
      BY <1>9, <2>0, <2>2 DEF Ask, Active, Connection
    <2> QED  BY <2>1, <2>2
  <1>10. ASSUME NEW p \in Nodes, Answered(p) PROVE Connections'
    <2> SUFFICES ASSUME NEW q \in Peers PROVE Connection(q)'
      BY DEF Connections
    <2>0. Connection(q) /\ q \in Nodes
      BY DEF Connections, Nodes
    <2>1. CASE q = p
      BY <1>10, <2>0, <2>1 DEF Answered, Active, Connection
    <2>2. CASE q # p
      BY <1>10, <2>0, <2>2 DEF Answered, Active, Connection
    <2> QED  BY <2>1, <2>2
  <1>11. ASSUME NEW p \in Nodes, Close(p) PROVE Connections'
    <2> SUFFICES ASSUME NEW q \in Peers PROVE Connection(q)'
      BY DEF Connections
    <2>0. Connection(q) /\ q \in Nodes
      BY DEF Connections, Nodes
    <2>1. CASE q = p
      BY <1>11, <2>0, <2>1 DEF Close, Active, Connection
    <2>2. CASE q # p
      BY <1>11, <2>0, <2>2 DEF Close, Active, Connection
    <2> QED  BY <2>1, <2>2
  <1>12. ASSUME NEW p \in Peers, PeerJoins(p) \/ PeerQuits(p) \/ DhtSet(p) PROVE Connections'
    <2> SUFFICES ASSUME NEW q \in Peers PROVE Connection(q)'
      BY DEF Connections
    <2>0. Connection(q) /\ q \in Nodes
      BY DEF Connections, Nodes
    <2> QED  BY <1>12, <2>0 DEF PeerJoins, PeerQuits, DhtSet, Moves, Connection
  <1>13. CASE UNCHANGED vars
    <2> SUFFICES ASSUME NEW q \in Peers PROVE Connection(q)'
      BY DEF Connections
    <2>0. Connection(q) /\ q \in Nodes
      BY DEF Connections, Nodes
    <2> QED  BY <1>13, <2>0 DEF vars, Connection
  <1> QED  BY <1>1, <1>2, <1>3, <1>4, <1>5, <1>6, <1>7, <1>8, <1>9, <1>10, <1>11, <1>12, <1>13
           DEF Next, Main, Lookup

(* All of it together is inductive.                                        *)
LEMMA TypeParts == TypeOK <=> Types /\ AtMostAlpha
  BY DEF TypeOK, Types, AtMostAlpha, Places

THEOREM Invariance == Spec => []IndInv
  <1>1. Init => IndInv
    <2> SUFFICES ASSUME Init PROVE IndInv
      OBVIOUS
    <2>1. knows \in [Peers -> SUBSET Peers]
      BY DEF Init
    <2>2. at \in [Nodes -> Places] /\ Active = {}
      BY DEF Init, Active, Places
    <2>3. Cardinality({}) <= Alpha
      BY FS_EmptySet, LookupAssumption
    <2>4. Types /\ AtMostAlpha
      BY <2>1, <2>2, <2>3 DEF Init, Types, AtMostAlpha, Nodes
    <2>5. QueriedOnce /\ Outcomes /\ FollowedUp
      BY DEF Init, QueriedOnce, Outcomes, FollowedUp, Nodes
    <2>6. Returned /\ Connections
      BY DEF Init, Returned, Connections, Connection, Nodes
    <2> QED  BY <2>4, <2>5, <2>6, TypeParts DEF IndInv
  <1>2. IndInv /\ [Next]_vars => IndInv'
    <2> SUFFICES ASSUME IndInv, [Next]_vars PROVE IndInv'
      OBVIOUS
    <2>1. Types /\ AtMostAlpha
      BY TypeParts DEF IndInv
    <2>2. Types' /\ AtMostAlpha'
      BY <2>1, TypesStep, LimitStep DEF IndInv
    <2>3. TypeOK'
      BY <2>2, TypeParts DEF TypeOK, Types, AtMostAlpha, Places
    <2>4. QueriedOnce' /\ Outcomes' /\ FollowedUp'
      BY <2>1, QueriedStep, OutcomesStep, FollowedStep DEF IndInv
    <2>5. Returned' /\ Connections'
      BY <2>1, ReturnedStep, ConnectionsStep DEF IndInv
    <2> QED  BY <2>3, <2>4, <2>5 DEF IndInv
  <1> QED  BY <1>1, <1>2, PTL DEF Spec

(* The types, and the limit: no more than KADEMLIA_ALPHA lookups run at a  *)
(* time.                                                                   *)
THEOREM TypeCorrect == Spec => []TypeOK
  <1>1. IndInv => TypeOK
    BY DEF IndInv
  <1> QED  BY <1>1, Invariance, PTL

(* dht_lookup() gives up only when it has asked everybody that it was told *)
(* of, whatever the order of the answers.                                  *)
THEOREM AsksAll == Spec => []AnswersExhausted
  <1>1. IndInv => AnswersExhausted
    <2> SUFFICES ASSUME IndInv, result = "none", ~ complete,
                        NEW p \in Nodes, outcome[p] = "not found"
                 PROVE  FindDhtValue(p) \subseteq queried
      BY DEF AnswersExhausted
    <2>1. Active = {} /\ providers = {}
      BY DEF IndInv, Returned
    <2>2. at[p] = "over"
      BY <2>1 DEF IndInv, Outcomes, Active
    <2> QED  BY <2>1, <2>2 DEF IndInv, FollowedUp
  <1> QED  BY <1>1, Invariance, PTL

(* Connections opened for a lookup are closed by it, so that the pool is   *)
(* the same again when it fails, up to peers that connect and quit.        *)
THEOREM PoolIsRestored == Spec => []PoolRestored
  <1>1. IndInv => PoolRestored
    <2> SUFFICES ASSUME IndInv PROVE PoolRestored
      OBVIOUS
    <2>1. Types /\ Connections
      BY TypeParts DEF IndInv
    <2>2. ShortTerm
      BY <2>1 DEF Types, Connections, Connection, ShortTerm
    <2>3. ASSUME result = "none" PROVE pool \ moved = before \ moved
      <3>1. \A p \in Nodes : at[p] \in {"none", "over"}
        BY <2>3 DEF IndInv, Returned, Active
      <3>2. opened = {}
        BY <2>1, <2>2, <2>3, <3>1 DEF Types, ShortTerm, Nodes
      <3> QED  BY <2>1, <3>2 DEF Types, Connections, Connection
    <2> QED  BY <2>2, <2>3 DEF PoolRestored
  <1> QED  BY <1>1, Invariance, PTL

(* No provider is asked twice.                                             *)
THEOREM AskedOnce == Spec => NeverAgain
  <1>1. IndInv /\ [Next]_vars =>
            [\A p \in Nodes : at[p] # "none" /\ at'[p] = "begin" => at[p] = "begin"]_vars
    <2> SUFFICES ASSUME IndInv, [Next]_vars, NEW p \in Nodes, at[p] # "none", at'[p] = "begin"
                 PROVE  at[p] = "begin"
      OBVIOUS
    <2>0. Types /\ QueriedOnce
      BY TypeParts DEF IndInv
    <2>1. CASE Start
      <3>1. Min(providers) \in providers
        BY <2>0, <2>1, Closest DEF Start, HasRoom, Types
      <3>2. at[Min(providers)] = "none"
        BY <2>0, <3>1 DEF QueriedOnce, Types
      <3> QED  BY <2>0, <2>1, <3>2 DEF Start, Goto, Types
    <2>2. CASE ~ Start
      BY <2>0, <2>2 DEF Types, Next, Main, Lookup, NoProviders, FoundValues, NotFound, LookupFailed,
         Begin, Connect, FailToConnect, Ask, Answered, Close, PeerJoins, PeerQuits, DhtSet, Moves,
         vars, Goto, Active
    <2> QED  BY <2>1, <2>2
  <1> QED  BY <1>1, Invariance, PTL DEF Spec, NeverAgain
-----------------------------------------------------------------------------
(* What is known of everybody that was queried; without moves, that those  *)
(* who could be reached were, and do not have the value.                   *)
Findings ==
    /\ before \subseteq providers \cup queried
    /\ complete => 0 \in queried
    /\ \A p \in Nodes :
          at[p] = "over" /\ result # "found" => outcome[p] \in {"failed", "not found"}
    /\ moved = {} => \A p \in Nodes :
          /\ at[p] = "dial" => p \notin before
          /\ outcome[p] = "failed" => p \in (Broken \ before) \cup {Self}
          /\ outcome[p] = "not found" => p \notin holders

(* Within is defined by recursion.  That there is such a function is seen  *)
(* from the chains of answers of n steps, with or without progress.        *)
Answering(p) == p # Self /\ (p \in before \/ p \notin Broken)

Chain(s, n) ==
    /\ s[0] \in before
    /\ \A i \in 1 .. n :
          s[i] = s[i - 1] \/ (Answering(s[i - 1]) /\ s[i] \in FindDhtValue(s[i - 1]))

ChainEnds(n) == {q \in Nodes : \E s \in [0 .. n -> Nodes] : Chain(s, n) /\ s[n] = q}

Further(S) == S \cup UNION {FindDhtValue(p) : p \in {p \in S \ {Self} : p \in before \/ p \notin Broken}}

LEMMA FurtherAnswers ==
    ASSUME NEW S, NEW q
    PROVE  q \in Further(S) <=>
               \E p \in S : q = p \/ (Answering(p) /\ q \in FindDhtValue(p))
  BY DEF Further, Answering

LEMMA ChainsBegin ==
    ASSUME Types
    PROVE  ChainEnds(0) = before
  <1>1. ASSUME NEW q \in before  PROVE q \in ChainEnds(0)
    <2> DEFINE s == [i \in 0 .. 0 |-> q]
    <2>1. q \in Nodes
      BY DEF Types, Nodes
    <2>2. s \in [0 .. 0 -> Nodes] /\ s[0] = q /\ Chain(s, 0)
      BY <2>1 DEF Chain
    <2> QED  BY <2>1, <2>2 DEF ChainEnds
  <1> QED  BY <1>1 DEF ChainEnds, Chain

LEMMA ChainsGrow ==
    ASSUME Types, NEW n \in Nat \ {0}
    PROVE  ChainEnds(n) = Further(ChainEnds(n - 1))
  <1>0. n - 1 \in Nat
    OBVIOUS
  <1>1. ASSUME NEW q \in ChainEnds(n)  PROVE q \in Further(ChainEnds(n - 1))
    <2>1. PICK s \in [0 .. n -> Nodes] : Chain(s, n) /\ s[n] = q
      BY DEF ChainEnds
    <2> DEFINE t == [i \in 0 .. n - 1 |-> s[i]]
    <2>2. t \in [0 .. n - 1 -> Nodes] /\ t[n - 1] = s[n - 1] /\ s[n - 1] \in Nodes
      BY <1>0
    <2>3. Chain(t, n - 1)
      <3>1. t[0] \in before
        BY <1>0, <2>1 DEF Chain
      <3>2. ASSUME NEW i \in 1 .. n - 1
            PROVE  t[i] = t[i - 1] \/ (Answering(t[i - 1]) /\ t[i] \in FindDhtValue(t[i - 1]))
        <4>1. i \in 1 .. n /\ t[i] = s[i] /\ t[i - 1] = s[i - 1]
          OBVIOUS
        <4> QED  BY <2>1, <4>1 DEF Chain
      <3> QED  BY <3>1, <3>2 DEF Chain
    <2>4. s[n - 1] \in ChainEnds(n - 1)
      BY <2>2, <2>3 DEF ChainEnds
    <2>5. n \in 1 .. n
      OBVIOUS
    <2>6. q = s[n - 1] \/ (Answering(s[n - 1]) /\ q \in FindDhtValue(s[n - 1]))
      BY <2>1, <2>5 DEF Chain
    <2> QED  BY <2>4, <2>6, FurtherAnswers
  <1>2. ASSUME NEW q \in Further(ChainEnds(n - 1))  PROVE q \in ChainEnds(n)
    <2>1. PICK p \in ChainEnds(n - 1) : q = p \/ (Answering(p) /\ q \in FindDhtValue(p))
      BY FurtherAnswers
    <2>2. PICK t \in [0 .. n - 1 -> Nodes] : Chain(t, n - 1) /\ t[n - 1] = p
      BY <2>1 DEF ChainEnds
    <2>3. q \in Nodes
      <3>1. p \in Nodes /\ (Answering(p) => p \in Peers)
        BY <2>1 DEF ChainEnds, Answering, Nodes
      <3> QED  BY <2>1, <3>1, AnswersAreNodes
    <2> DEFINE s == [i \in 0 .. n |-> IF i = n THEN q ELSE t[i]]
    <2>4. s \in [0 .. n -> Nodes] /\ s[n] = q /\ \A i \in 0 .. n - 1 : s[i] = t[i]
      BY <2>2, <2>3
    <2> HIDE DEF s
    <2>5. Chain(s, n)
      <3>1. s[0] \in before
        BY <1>0, <2>2, <2>4 DEF Chain
      <3>2. ASSUME NEW i \in 1 .. n
            PROVE  s[i] = s[i - 1] \/ (Answering(s[i - 1]) /\ s[i] \in FindDhtValue(s[i - 1]))
        <4>1. CASE i = n
          <5>1. s[i] = q /\ s[i - 1] = p
            BY <1>0, <2>2, <2>4, <4>1
          <5> QED  BY <2>1, <5>1
        <4>2. CASE i # n
          <5>1. i \in 1 .. n - 1 /\ s[i] = t[i] /\ s[i - 1] = t[i - 1]
            BY <2>4, <4>2
          <5> QED  BY <2>2, <5>1 DEF Chain
        <4> QED  BY <4>1, <4>2
      <3> QED  BY <3>1, <3>2 DEF Chain
    <2> QED  BY <2>3, <2>4, <2>5 DEF ChainEnds
  <1> QED  BY <1>1, <1>2

LEMMA WithinUnfolds ==
    ASSUME Types
    PROVE  \A n \in Nat : Within[n] = IF n = 0 THEN before ELSE Further(Within[n - 1])
  <1> DEFINE Equation(f) == f = [n \in Nat |-> IF n = 0 THEN before ELSE Further(f[n - 1])]
             ends == [n \in Nat |-> ChainEnds(n)]
  <1>1. Equation(ends)
    <2>1. ASSUME NEW n \in Nat
          PROVE  ChainEnds(n) = IF n = 0 THEN before ELSE Further(ends[n - 1])
      <3>1. CASE n = 0
        BY <3>1, ChainsBegin
      <3>2. CASE n # 0
        <4>1. n \in Nat \ {0} /\ ends[n - 1] = ChainEnds(n - 1)
          BY <3>2
        <4> QED  BY <3>2, <4>1, ChainsGrow
      <3> QED  BY <3>1, <3>2
    <2> QED  BY <2>1
  <1>2. Within = CHOOSE f : Equation(f)
    BY DEF Within, Further
  <1> HIDE DEF ends
  <1>3. Equation(Within)
    BY <1>1, <1>2
  <1> QED  BY <1>3

(* Who can be reached is in every set that holds the pool and what its     *)
(* members answer: otherwise there would be a first round to leave it.     *)
LEMMA WithinStays ==
    ASSUME Types, NEW Q, before \subseteq Q,
           \A p \in Q : Answering(p) => FindDhtValue(p) \subseteq Q
    PROVE  \A n \in Nat : Within[n] \subseteq Q
  <1> DEFINE S == {n \in Nat : ~ (Within[n] \subseteq Q)}
  <1>1. CASE S = {}
    BY <1>1
  <1>2. CASE S # {}
    <2>1. PICK x \in S : \A y \in S : ~ (<<y, x>> \in OpToRel(<, Nat))
      BY <1>2, NatLessThanWellFounded, WFMin
    <2>2. \A y \in S : ~ (y < x)
      BY <2>1 DEF OpToRel
    <2>3. x \in Nat /\ Within[x] = IF x = 0 THEN before ELSE Further(Within[x - 1])
      BY WithinUnfolds
    <2>4. x # 0
      BY <2>3
    <2>5. Within[x - 1] \subseteq Q
      <3>1. x - 1 \in Nat /\ x - 1 < x
        BY <2>3, <2>4
      <3> QED  BY <2>2, <3>1
    <2>6. Further(Within[x - 1]) \subseteq Q
      BY <2>5, FurtherAnswers
    <2> QED  BY <2>3, <2>4, <2>6
  <1> QED  BY <1>1, <1>2

LEMMA FindingsStep ==
    ASSUME Types, QueriedOnce, Outcomes, Connections, Findings, [Next]_vars
    PROVE  Findings'
  <1> USE DEF Types, Goto, Returns, world, Ready, Places, Findings
  <1>1. CASE Start
    <2>1. Min(providers) \in providers /\ Min(providers) \in Nodes
      BY <1>1, Closest DEF Start, HasRoom
    <2>2. \A q \in Nodes : at'[q] \in {"over", "dial"} => at'[q] = at[q]
      BY <1>1, <2>1 DEF Start
    <2> QED  BY <1>1, <2>1, <2>2 DEF Start, HasRoom
  <1>2. CASE NoProviders
    BY <1>2 DEF NoProviders
  <1>3. ASSUME NEW p \in Nodes, FoundValues(p)  PROVE Findings'
    <2>1. \A q \in Nodes : at'[q] = "dial" => at[q] = "dial"
      BY <1>3 DEF FoundValues
    <2> QED  BY <1>3, <2>1 DEF FoundValues
  <1>4. ASSUME NEW p \in Nodes, NotFound(p) \/ LookupFailed(p)  PROVE Findings'
    <2>1. \A q \in Nodes : q # p => at'[q] = at[q]
      BY <1>4 DEF NotFound, LookupFailed
    <2>2. at'[p] = "over" /\ outcome[p] \in {"failed", "not found"}
      BY <1>4 DEF NotFound, LookupFailed
    <2>3. UNCHANGED <<world, queried, complete, outcome, result>> /\ before \subseteq providers' \cup queried
      BY <1>4 DEF NotFound, LookupFailed
    <2> QED  BY <2>1, <2>2, <2>3
  <1>5. ASSUME NEW p \in Nodes, Begin(p)  PROVE Findings'
    <2>1. UNCHANGED <<world, providers, queried, complete, outcome, result>>
      BY <1>5 DEF Begin
    <2>2. \A q \in Nodes : q # p => at'[q] = at[q]
      BY <1>5 DEF Begin
    <2>3. at'[p] # "over" /\ (at'[p] = "dial" => p \notin pool)
      BY <1>5 DEF Begin
    <2>4. moved = {} /\ p \notin pool => p \notin before
      BY DEF Connections, Connection
    <2> QED  BY <2>1, <2>2, <2>3, <2>4
  <1>6. ASSUME NEW p \in Nodes, Connect(p) \/ Ask(p) \/ Close(p)  PROVE Findings'
    <2>1. UNCHANGED <<world, providers, queried, complete, outcome, result>>
      BY <1>6 DEF Connect, Ask, Close
    <2>2. \A q \in Nodes : q # p => at'[q] = at[q]
      BY <1>6 DEF Connect, Ask, Close
    <2>3. at'[p] \notin {"over", "dial"}
      BY <1>6 DEF Connect, Ask, Close
    <2> QED  BY <2>1, <2>2, <2>3
  <1>7. ASSUME NEW p \in Nodes, FailToConnect(p)  PROVE Findings'
    <2>1. UNCHANGED <<world, providers, queried, complete, result>>
      BY <1>7 DEF FailToConnect
    <2>2. \A q \in Nodes : q # p => at'[q] = at[q] /\ outcome'[q] = outcome[q]
      BY <1>7 DEF FailToConnect
    <2>3. at'[p] = "ready" /\ outcome'[p] = "failed"
      BY <1>7 DEF FailToConnect
    <2>4. moved = {} => p \in (Broken \ before) \cup {Self}
      <3>1. p \in Broken \cup {Self} \cup pool /\ at[p] = "dial"
        BY <1>7 DEF FailToConnect
      <3>2. moved = {} => p \notin before
        BY <3>1
      <3>3. moved = {} /\ p \in Peers => p \notin pool
        BY <3>1, <3>2 DEF Connections, Connection
      <3> QED  BY <3>1, <3>2, <3>3 DEF Nodes
    <2> QED  BY <2>1, <2>2, <2>3, <2>4
  <1>8. ASSUME NEW p \in Nodes, Answered(p)  PROVE Findings'
    <2>1. UNCHANGED <<world, providers, queried, complete, result>>
      BY <1>8 DEF Answered
    <2>2. \A q \in Nodes : q # p => at'[q] = at[q] /\ outcome'[q] = outcome[q]
      BY <1>8 DEF Answered
    <2>3. at'[p] \in {"close", "ready"} /\ outcome'[p] = IF DhtGet(p) THEN "found" ELSE "not found"
      BY <1>8 DEF Answered
    <2> QED  BY <2>1, <2>2, <2>3 DEF DhtGet
  <1>9. ASSUME NEW p \in Peers, PeerJoins(p) \/ PeerQuits(p) \/ DhtSet(p)  PROVE Findings'
    <2>1. moved' # {} /\ UNCHANGED <<before, providers, queried, complete, at, outcome, result>>
      BY <1>9 DEF PeerJoins, PeerQuits, DhtSet, Moves
    <2> QED  BY <2>1
  <1>10. CASE UNCHANGED vars
    BY <1>10 DEF vars
  <1> QED  BY <1>1, <1>2, <1>3, <1>4, <1>5, <1>6, <1>7, <1>8, <1>9, <1>10 DEF Next, Main, Lookup

(* Without moves, None is the truth about everybody within reach: all of   *)
(* them were asked and have no value; or else the node that is the key was *)
(* asked and had none (dht_lookup, and should_complete there).             *)
THEOREM NoneIsTrue == Spec => []NoneMeansAbsent
  <1>1. Init => Findings
    BY DEF Init, Findings
  <1>2. IndInv /\ Findings /\ [Next]_vars => Findings'
    BY FindingsStep, TypeParts DEF IndInv
  <1>3. IndInv /\ Findings => NoneMeansAbsent
    <2> SUFFICES ASSUME IndInv, Findings, result = "none", moved = {}
                 PROVE  \/ Reachable \cap holders = {}
                        \/ complete /\ 0 \notin Reachable \cap holders
      BY DEF NoneMeansAbsent
    <2>1. Types
      BY TypeParts DEF IndInv
    <2>2. ASSUME NEW p \in queried, Answering(p)
          PROVE  outcome[p] = "not found" /\ at[p] = "over" /\ p \notin holders
      <3>1. p \in Nodes /\ at[p] # "none"
        BY <2>1, <2>2 DEF Types, IndInv, QueriedOnce
      <3>2. at[p] = "over"
        BY <3>1 DEF IndInv, Returned, Active
      <3>3. outcome[p] \in {"failed", "not found"}
        BY <3>1, <3>2 DEF Findings
      <3>4. outcome[p] # "failed"
        BY <2>2, <3>1 DEF Findings, Answering
      <3> QED  BY <3>1, <3>2, <3>3, <3>4 DEF Findings
    <2>3. CASE complete
      <3>1. 0 \in queried /\ (0 \in Reachable => Answering(0))
        BY <2>3 DEF Findings, Reachable, Answering
      <3> QED  BY <2>2, <2>3, <3>1
    <2>4. CASE ~ complete
      <3>1. providers = {} /\ before \subseteq queried
        BY <2>4 DEF IndInv, Returned, Findings
      <3>2. ASSUME NEW p \in queried, Answering(p)  PROVE FindDhtValue(p) \subseteq queried
        <4>1. p \in Nodes
          BY <2>1 DEF Types
        <4> QED  BY <2>2, <3>1, <3>2, <4>1 DEF IndInv, FollowedUp
      <3>3. Within[Cardinality(Nodes)] \subseteq queried
        <4>1. Cardinality(Nodes) \in Nat
          BY LookupAssumption, FS_CardinalityType
        <4>2. \A n \in Nat : Within[n] \subseteq queried
          BY <2>1, <3>1, <3>2, WithinStays
        <4> QED  BY <4>1, <4>2
      <3>4. \A p \in Reachable : p \in queried /\ Answering(p)
        BY <3>3 DEF Reachable, Answering
      <3> QED  BY <2>2, <3>4
    <2> QED  BY <2>3, <2>4
  <1> QED  BY <1>1, <1>2, <1>3, Invariance, PTL DEF Spec
=============================================================================
