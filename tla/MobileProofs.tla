------------------------------ MODULE MobileProofs -----------------------------
(***************************************************************************)
(* Proofs about the pages of jQuery Mobile, for all instances.  The        *)
(* history and the changes of pages on top of it come first; the polling   *)
(* and the popups are instances of their modules, and a name that several  *)
(* parts use is declared once: each theorem is about one part.             *)
(***************************************************************************)
EXTENDS Pages, SequenceTheorems, FiniteSetTheorems, NaturalsInduction,
        WellFoundedInduction, TLAPS

-----------------------------------------------------------------------------
(* Sequences and the least of a set of numbers *)

LEMMA Least ==
  ASSUME NEW T, T \subseteq Nat, T # {}
  PROVE  \E n \in T : \A m \in T : ~(m < n)
<1>1. PICK n \in T : \A m \in T : ~(<<m, n>> \in OpToRel(<, Nat))
  BY NatLessThanWellFounded, WFMin
<1> QED
  BY <1>1 DEF OpToRel

LEMMA MinIn == ASSUME NEW T, T \subseteq Nat, T # {} PROVE Min(T) \in T
<1>1. PICK n \in T : \A m \in T : ~(m < n)
  BY Least
<1>2. \A m \in T : n =< m
  BY <1>1
<1> QED
  BY <1>1, <1>2 DEF Min

LEMMA MaxIn == ASSUME NEW n \in Nat, NEW T, T \subseteq 1..n, T # {} PROVE Max(T) \in T
<1> DEFINE Below == {n - m : m \in T}
<1>1. Below \subseteq Nat /\ Below # {}
  <2>1. ASSUME NEW m \in T PROVE n - m \in Nat
    <3>1. m \in 1..n
      OBVIOUS
    <3> QED
      BY <3>1
  <2>2. PICK m : m \in T
    OBVIOUS
  <2> QED
    BY <2>1, <2>2
<1>2. PICK k \in Below : \A m \in Below : ~(m < k)
  BY <1>1, Least
<1>3. PICK m \in T : k = n - m
  BY <1>2
<1>4. ASSUME NEW l \in T PROVE m >= l
  <2>1. n - l \in Below
    OBVIOUS
  <2> QED
    BY <1>2, <1>3, <2>1
<1> QED
  BY <1>4 DEF Max

(* A sequence cut behind n that goes on with e.                            *)
LEMMA CutAndAppended ==
  ASSUME NEW S, NEW s \in Seq(S), NEW n \in 0..Len(s), NEW e \in S
  PROVE  /\ Append(SubSeq(s, 1, n), e) \in Seq(S)
         /\ Len(Append(SubSeq(s, 1, n), e)) = n + 1
         /\ Append(SubSeq(s, 1, n), e)[n + 1] = e
         /\ \A i \in 1..n : Append(SubSeq(s, 1, n), e)[i] = s[i]
<1>1. SubSeq(s, 1, n) \in Seq(S) /\ Len(SubSeq(s, 1, n)) = n
  OBVIOUS
<1>2. \A i \in 1..n : SubSeq(s, 1, n)[i] = s[i]
  OBVIOUS
<1> DEFINE cut == SubSeq(s, 1, n)
<1> HIDE DEF cut
<1>3. cut \in Seq(S) /\ Len(cut) = n /\ \A i \in 1..n : cut[i] = s[i]
  BY <1>1, <1>2 DEF cut
<1>4. /\ Append(cut, e) \in Seq(S) /\ Len(Append(cut, e)) = n + 1
      /\ Append(cut, e)[n + 1] = e /\ \A i \in 1..n : Append(cut, e)[i] = cut[i]
  BY <1>3
<1> QED
  BY <1>3, <1>4 DEF cut

LEMMA FirstOf == ASSUME NEW S, NEW s \in Seq(S), s # <<>> PROVE Head(s) \in S
  BY HeadTailProperties

-----------------------------------------------------------------------------
(* The steps of the history *)

Entries == [url : Urls, state : Urls \cup {None}]
Tellings == [url : Urls \cup {None}, direction : {"back", "forward", None}]

EntriesType == entries \in Seq(Entries) /\ position \in 1..Len(entries)
StackType == stack \in Seq(Urls) /\ activeIndex \in 1..Len(stack)
Stated == \A i \in 1..Len(entries) : entries[i].state # None

LEMMA ClosestIn ==
  ASSUME StackType, NEW url
  PROVE  /\ Closest(url) \in 0..Len(stack)
         /\ Closest(url) # 0 => stack[Closest(url)] = url
         /\ Closest(url) = 0 => \A i \in 1..Len(stack) : stack[i] # url
         /\ \A i \in 1..(activeIndex - 1) : stack[i] = url => Closest(url) < activeIndex
         /\ Closest(url) \in 1..(activeIndex - 1) \/ Closest(url) = 0 \/ Closest(url) >= activeIndex
<1> DEFINE behind == {i \in 1..(activeIndex - 1) : stack[i] = url}
           ahead == {i \in activeIndex..Len(stack) : stack[i] = url}
<1>0. Len(stack) \in Nat /\ activeIndex \in 1..Len(stack)
  BY DEF StackType
<1>1. Closest(url) = IF behind # {} THEN Max(behind) ELSE IF ahead # {} THEN Min(ahead) ELSE 0
  BY DEF Closest
<1>2. behind \subseteq 1..Len(stack) /\ ahead \subseteq 1..Len(stack) /\ ahead \subseteq Nat
  BY <1>0
<1>3. CASE behind # {}
  <2>1. Max(behind) \in behind
    BY <1>0, <1>2, <1>3, MaxIn
  <2>2. Closest(url) \in behind
    BY <1>1, <1>3, <2>1
  <2>3. Closest(url) \in 1..(activeIndex - 1) /\ stack[Closest(url)] = url
    BY <2>2
  <2> QED
    BY <1>0, <2>3
<1>4. CASE behind = {} /\ ahead # {}
  <2>1. Min(ahead) \in ahead
    BY <1>2, <1>4, MinIn
  <2>2. Closest(url) \in ahead
    BY <1>1, <1>4, <2>1
  <2>3. Closest(url) \in activeIndex..Len(stack) /\ stack[Closest(url)] = url
    BY <2>2
  <2>4. \A i \in 1..(activeIndex - 1) : stack[i] # url
    BY <1>4
  <2> QED
    BY <1>0, <2>3, <2>4
<1>5. CASE behind = {} /\ ahead = {}
  <2>1. Closest(url) = 0
    BY <1>1, <1>5
  <2>2. ASSUME NEW i \in 1..Len(stack) PROVE stack[i] # url
    BY <1>0, <1>5
  <2> QED
    BY <1>0, <2>1, <2>2
<1> QED
  BY <1>3, <1>4, <1>5

LEMMA AddSteps ==
  ASSUME StackType, NEW url \in Urls, Add(url)
  PROVE  /\ StackType' /\ stack'[activeIndex'] = url
         /\ activeIndex' = activeIndex + 1 /\ Len(stack') = activeIndex + 1
         /\ \A i \in 1..activeIndex : stack'[i] = stack[i]
<1>1. stack \in Seq(Urls) /\ activeIndex \in 0..Len(stack) /\ activeIndex \in Nat
  BY DEF StackType
<1>2. stack' = Append(SubSeq(stack, 1, activeIndex), url) /\ activeIndex' = Len(stack')
  BY DEF Add
<1>3. /\ stack' \in Seq(Urls) /\ Len(stack') = activeIndex + 1
      /\ stack'[activeIndex + 1] = url /\ \A i \in 1..activeIndex : stack'[i] = stack[i]
  BY <1>1, <1>2, CutAndAppended
<1> QED
  BY <1>1, <1>2, <1>3 DEF StackType

LEMMA FoundSteps ==
  ASSUME StackType, None \notin Urls, NEW url \in Urls, Found(url)
  PROVE  /\ StackType' /\ stack'[activeIndex'] = url /\ stack' = stack
         /\ told' \in Tellings /\ told'.url = url
         /\ told'.direction = Direction(activeIndex')
<1>1. Closest(url) \in 1..Len(stack) /\ stack[Closest(url)] = url
  BY ClosestIn DEF Found, StackType
<1>2. Direction(Closest(url)) \in {"back", "forward", None}
  BY DEF Direction
<1> QED
  BY <1>1, <1>2 DEF Found, StackType, Tellings

LEMMA PopstateSteps ==
  ASSUME TypeOK, None \notin Urls, NEW state, NEW where \in Urls, NEW hashed,
         Popstate(state, where, hashed)
  PROVE  /\ StackType' /\ told' \in Tellings
         /\ preventNextHashChange' \in BOOLEAN /\ ignoreInitialHashChange' \in BOOLEAN
<1>0. StackType /\ told \in Tellings /\ preventNextHashChange \in BOOLEAN
  BY DEF TypeOK, StackType, Tellings
<1>1. preventNextHashChange' \in BOOLEAN /\ ignoreInitialHashChange' \in BOOLEAN
  BY <1>0 DEF Popstate
<1>2. CASE UNCHANGED <<stack, activeIndex>> /\ told' \in {told, [url |-> where, direction |-> None]}
  BY <1>0, <1>1, <1>2 DEF StackType, Tellings
<1>3. CASE Add(where) /\ told' = [url |-> where, direction |-> None]
  BY <1>0, <1>1, <1>3, AddSteps DEF Tellings
<1>4. CASE Found(where)
  BY <1>0, <1>1, <1>4, FoundSteps
<1> QED
  BY <1>2, <1>3, <1>4 DEF Popstate, history

(* Assigning a hash appends an entry, or changes nothing.                  *)
LEMMA AssignedIs ==
  ASSUME EntriesType, NEW url \in Urls, NEW state \in Urls \cup {None}
  PROVE  /\ Assigned(url, state) \in Seq(Entries)
         /\ Differs(url) => /\ Len(Assigned(url, state)) = position + 1
                            /\ Assigned(url, state)[position + 1] = [url |-> url, state |-> state]
                            /\ \A i \in 1..position : Assigned(url, state)[i] = entries[i]
         /\ ~Differs(url) => Assigned(url, state) = entries
<1>1. [url |-> url, state |-> state] \in Entries
  BY DEF Entries
<1>2. entries \in Seq(Entries) /\ position \in 0..Len(entries)
  BY DEF EntriesType
<1>3. CASE Differs(url)
  BY <1>1, <1>2, <1>3, CutAndAppended DEF Assigned
<1>4. CASE ~Differs(url)
  BY <1>2, <1>4 DEF Assigned
<1> QED
  BY <1>3, <1>4

LEMMA StateSet ==
  ASSUME NEW s \in Seq(Entries), NEW i \in 1..Len(s), NEW url \in Urls
  PROVE  /\ [s EXCEPT ![i].state = url] \in Seq(Entries)
         /\ Len([s EXCEPT ![i].state = url]) = Len(s)
         /\ [s EXCEPT ![i].state = url][i].state = url
         /\ \A j \in 1..Len(s) : /\ [s EXCEPT ![i].state = url][j].url = s[j].url
                                 /\ j # i => [s EXCEPT ![i].state = url][j] = s[j]
<1> DEFINE t == [s EXCEPT ![i].state = url]
<1>1. DOMAIN s = 1..Len(s) /\ Len(s) \in Nat /\ s[i] \in Entries
  OBVIOUS
<1>2. \A j \in 1..Len(s) : t[j] = IF j = i THEN [s[i] EXCEPT !.state = url] ELSE s[j]
  BY <1>1
<1>3. /\ [s[i] EXCEPT !.state = url] \in Entries
      /\ [s[i] EXCEPT !.state = url].state = url /\ [s[i] EXCEPT !.state = url].url = s[i].url
  BY <1>1 DEF Entries
<1>4. DOMAIN t = 1..Len(s)
  BY <1>1
<1>5. \A j \in 1..Len(s) : s[j] \in Entries
  OBVIOUS
<1>6. t = [j \in 1..Len(s) |-> t[j]]
  BY <1>4
<1> HIDE DEF t, Entries
<1>7. \A j \in 1..Len(s) : t[j] \in Entries
  BY <1>2, <1>3, <1>5
<1>8. t \in [1..Len(s) -> Entries]
  BY <1>6, <1>7
<1>9. t \in Seq(Entries) /\ Len(t) = Len(s)
  BY <1>1, <1>4, <1>8
<1>10. t[i].state = url /\ \A j \in 1..Len(s) : t[j].url = s[j].url /\ (j # i => t[j] = s[j])
  BY <1>2, <1>3
<1> QED
  BY <1>9, <1>10 DEF t

LEMMA GoEntries ==
  ASSUME None \notin Urls, EntriesType, NEW url \in Urls, NEW noEvents \in BOOLEAN,
         Go(url, noEvents)
  PROVE  /\ EntriesType' /\ Location' = url
         /\ Differs(url) => /\ position' = position + 1 /\ Len(entries') = position + 1
                            /\ \A i \in 1..position : entries'[i] = entries[i]
         /\ ~Differs(url) => /\ position' = position /\ Len(entries') = Len(entries)
                             /\ \A i \in 1..Len(entries) : entries'[i].url = entries[i].url
         /\ PushState => /\ entries'[position'].state = url
                         /\ Stated => Stated'
<1> DEFINE state == IF PushState THEN url ELSE None
           assigned == Assigned(url, state)
<1>0. entries \in Seq(Entries) /\ position \in 1..Len(entries) /\ Len(entries) \in Nat
  BY DEF EntriesType
<1>1. /\ assigned \in Seq(Entries)
      /\ Differs(url) => /\ Len(assigned) = position + 1
                         /\ assigned[position + 1].url = url
                         /\ \A i \in 1..position : assigned[i] = entries[i]
      /\ ~Differs(url) => assigned = entries
  <2>1. state \in Urls \cup {None}
    OBVIOUS
  <2> HIDE DEF state
  <2>2. /\ assigned \in Seq(Entries)
        /\ Differs(url) => /\ Len(assigned) = position + 1
                           /\ assigned[position + 1] = [url |-> url, state |-> state]
                           /\ \A i \in 1..position : assigned[i] = entries[i]
        /\ ~Differs(url) => assigned = entries
    BY <2>1, AssignedIs
  <2> HIDE DEF assigned
  <2> QED
    BY <2>2
<1>2. position' = IF Differs(url) THEN position + 1 ELSE position
  BY DEF Go
<1>3. entries' = IF PushState THEN [assigned EXCEPT ![position'].state = url] ELSE assigned
  BY DEF Go
<1> HIDE DEF assigned, state
<1>4. position' \in 1..Len(assigned)
  BY <1>0, <1>1, <1>2
<1>5. /\ entries' \in Seq(Entries) /\ Len(entries') = Len(assigned)
      /\ PushState => entries'[position'].state = url
      /\ \A j \in 1..Len(assigned) : /\ entries'[j].url = assigned[j].url
                                     /\ j # position' => entries'[j] = assigned[j]
  BY <1>1, <1>3, <1>4, StateSet
<1>6. assigned[position'].url = url
  BY <1>0, <1>1, <1>2 DEF Differs, Location
<1>7. CASE Differs(url)
  <2>1. position' = position + 1 /\ Len(entries') = position + 1
    BY <1>1, <1>2, <1>5, <1>7
  <2>2. \A i \in 1..position : entries'[i] = entries[i]
    BY <1>0, <1>1, <1>5, <1>7, <2>1
  <2>3. PushState /\ Stated => Stated'
    BY <1>0, <1>5, <2>1, <2>2 DEF Stated
  <2> QED
    BY <1>4, <1>5, <1>6, <1>7, <2>1, <2>2, <2>3 DEF EntriesType, Location
<1>8. CASE ~Differs(url)
  <2>1. position' = position /\ Len(entries') = Len(entries) /\ assigned = entries
    BY <1>1, <1>2, <1>5, <1>8
  <2>2. \A i \in 1..Len(entries) : entries'[i].url = entries[i].url
    BY <1>5, <2>1
  <2>3. PushState /\ Stated => Stated'
    BY <1>0, <1>5, <2>1 DEF Stated
  <2> QED
    BY <1>4, <1>5, <1>6, <1>8, <2>1, <2>2, <2>3 DEF EntriesType, Location
<1> QED
  BY <1>7, <1>8

LEMMA LocationType == ASSUME EntriesType PROVE Location \in Urls
<1>1. entries[position] \in Entries
  BY DEF EntriesType
<1> QED
  BY <1>1 DEF Location, Entries

LEMMA TypeParts ==
  TypeOK <=> /\ EntriesType /\ StackType /\ told \in Tellings
             /\ due \in Nat /\ lastHash \in Urls /\ loads \in BOOLEAN
             /\ preventNextHashChange \in BOOLEAN /\ ignoreInitialHashChange \in BOOLEAN
             /\ moves \in 0..MaxMoves
  BY DEF TypeOK, EntriesType, StackType, Entries, Tellings

LEMMA MovedType == ASSUME NavigationAssumption, TypeOK, Moved PROVE moves' \in 0..MaxMoves
  BY DEF NavigationAssumption, TypeOK, Moved

LEMMA GoType ==
  ASSUME NavigationAssumption, TypeOK, NEW url \in Urls, NEW noEvents \in BOOLEAN,
         Go(url, noEvents), moves' \in 0..MaxMoves
  PROVE  TypeOK'
<1>0. None \notin Urls /\ EntriesType /\ StackType
  BY TypeParts DEF NavigationAssumption
<1>1. EntriesType'
  BY <1>0, GoEntries
<1>2. StackType'
  BY <1>0, AddSteps DEF Go
<1>3. told' \in Tellings
  BY DEF Go, TypeOK, Tellings
<1>4. due' \in Nat /\ lastHash' \in Urls /\ loads' \in BOOLEAN
  BY DEF Go, Fired, TypeOK
<1>5. preventNextHashChange' \in BOOLEAN /\ ignoreInitialHashChange' \in BOOLEAN
  <2>1. preventNextHashChange' \in BOOLEAN
    <3>1. preventNextHashChange' = (Prevents(url, noEvents) \/ preventNextHashChange)
      BY DEF Go
    <3> QED
      BY <3>1, Zenon
  <2> QED
    BY <2>1 DEF Go, TypeOK
<1> QED
  BY <1>1, <1>2, <1>3, <1>4, <1>5 DEF TypeOK, EntriesType, StackType, Entries, Tellings

LEMMA TraverseType ==
  ASSUME NavigationAssumption, TypeOK, Traverse
  PROVE  TypeOK' /\ Location' \in Urls
<1>0. None \notin Urls /\ EntriesType /\ StackType
  BY TypeParts DEF NavigationAssumption
<1>1. PICK p \in DOMAIN entries \ {position} :
        /\ position' = p
        /\ IF PushState
           THEN Popstate(entries[p].state, entries[p].url, entries[p].url \notin Paths)
           ELSE UNCHANGED <<history, flags, told>>
  BY DEF Traverse
<1>2. p \in 1..Len(entries) /\ entries[p] \in Entries /\ entries' = entries
  BY <1>0 DEF EntriesType, Traverse
<1>3. entries[p].url \in Urls
  BY <1>2 DEF Entries
<1>4. EntriesType'
  BY <1>0, <1>1, <1>2 DEF EntriesType
<1>5. /\ StackType' /\ told' \in Tellings
      /\ preventNextHashChange' \in BOOLEAN /\ ignoreInitialHashChange' \in BOOLEAN
  <2>1. CASE PushState
    BY <1>0, <1>1, <1>3, <2>1, PopstateSteps
  <2>2. CASE ~PushState
    <3>1. UNCHANGED <<stack, activeIndex, preventNextHashChange, ignoreInitialHashChange, told>>
      BY <1>1, <2>2 DEF history, flags
    <3> QED
      BY <1>0, <3>1 DEF TypeOK, StackType, Tellings
  <2> QED
    BY <2>1, <2>2
<1>6. due' \in Nat /\ lastHash' \in Urls /\ loads' \in BOOLEAN
  BY DEF Traverse, TypeOK
<1>7. moves' \in 0..MaxMoves
  BY MovedType DEF Traverse
<1>8. Location' \in Urls
  BY <1>1, <1>2, <1>3 DEF Location
<1> QED
  BY <1>4, <1>5, <1>6, <1>7, <1>8 DEF TypeOK, EntriesType, StackType, Entries, Tellings

(* A hash that is assigned by hand is another one than that of the         *)
(* location.                                                               *)
LEMMA AssignEntries ==
  ASSUME None \notin Urls, EntriesType, NEW url \in Urls \ {Location},
         entries' = Assigned(url, IF PushState THEN url ELSE None), position' = position + 1
  PROVE  /\ EntriesType' /\ Location' = url /\ Len(entries') = position + 1
         /\ \A i \in 1..position : entries'[i] = entries[i]
         /\ PushState /\ Stated => Stated'
<1> DEFINE state == IF PushState THEN url ELSE None
<1>0. position \in 1..Len(entries) /\ Len(entries) \in Nat
  BY DEF EntriesType
<1>1. state \in Urls \cup {None} /\ Differs(url)
  BY DEF Differs
<1>2. PushState => state = url
  OBVIOUS
<1>3. entries' = Assigned(url, state)
  OBVIOUS
<1> HIDE DEF state
<1>4. /\ entries' \in Seq(Entries) /\ Len(entries') = position + 1
      /\ entries'[position + 1] = [url |-> url, state |-> state]
      /\ \A i \in 1..position : entries'[i] = entries[i]
  BY <1>1, <1>3, AssignedIs
<1>5. PushState /\ Stated => Stated'
  BY <1>0, <1>2, <1>4 DEF Stated
<1> QED
  BY <1>0, <1>4, <1>5 DEF EntriesType, Location

LEMMA AssignType ==
  ASSUME NavigationAssumption, TypeOK, Assign
  PROVE  TypeOK' /\ Location' \in Urls
<1>0. None \notin Urls /\ EntriesType /\ StackType
  BY TypeParts DEF NavigationAssumption
<1>1. PICK url \in Urls \ {Home, Location} :
        /\ entries' = Assigned(url, IF PushState THEN url ELSE None)
        /\ due' = Fired(url)
        /\ IF PushState THEN Popstate(None, url, TRUE) ELSE UNCHANGED <<history, flags, told>>
  BY DEF Assign
<1>2. EntriesType' /\ Location' = url
  BY <1>0, <1>1, AssignEntries DEF Assign
<1>3. /\ StackType' /\ told' \in Tellings
      /\ preventNextHashChange' \in BOOLEAN /\ ignoreInitialHashChange' \in BOOLEAN
  <2>1. CASE PushState
    BY <1>0, <1>1, <2>1, PopstateSteps
  <2>2. CASE ~PushState
    <3>1. UNCHANGED <<stack, activeIndex, preventNextHashChange, ignoreInitialHashChange, told>>
      BY <1>1, <2>2 DEF history, flags
    <3> QED
      BY <1>0, <3>1 DEF TypeOK, StackType, Tellings
  <2> QED
    BY <2>1, <2>2
<1>4. due' \in Nat /\ lastHash' \in Urls /\ loads' \in BOOLEAN
  BY <1>1 DEF Assign, Fired, TypeOK
<1>5. moves' \in 0..MaxMoves
  BY MovedType DEF Assign
<1> QED
  BY <1>2, <1>3, <1>4, <1>5 DEF TypeOK, EntriesType, StackType, Entries, Tellings

LEMMA HashchangeType ==
  ASSUME NavigationAssumption, TypeOK, Hashchange
  PROVE  TypeOK' /\ Location \in Urls
<1>0. None \notin Urls /\ EntriesType /\ StackType
  BY TypeParts DEF NavigationAssumption
<1>1. Location \in Urls
  BY <1>0, LocationType
<1>2. EntriesType' /\ loads' \in BOOLEAN /\ ignoreInitialHashChange' \in BOOLEAN /\ moves' \in 0..MaxMoves
  BY DEF Hashchange, TypeOK, EntriesType, Entries
<1>3. due' \in Nat /\ lastHash' \in Urls /\ preventNextHashChange' \in BOOLEAN
  <2>1. due' \in Nat
    <3>1. due \in Nat /\ due' = (IF Events = "hashchange" THEN due - 1 ELSE due)
      BY DEF Hashchange, TypeOK
    <3>2. Events = "hashchange" => due > 0
      BY DEF Hashchange, Due
    <3> QED
      BY <3>1, <3>2
  <2>2. lastHash' \in Urls /\ preventNextHashChange' \in BOOLEAN
    BY <1>1 DEF Hashchange, TypeOK
  <2> QED
    BY <2>1, <2>2
<1>4. StackType' /\ told' \in Tellings
  <2>1. CASE UNCHANGED <<history, told>>
    BY <2>1 DEF history, StackType, Tellings, TypeOK
  <2>2. CASE Found(Location)
    BY <1>0, <1>1, <2>2, FoundSteps
  <2>3. CASE Add(Location) /\ told' = [url |-> Location, direction |-> None]
    BY <1>0, <1>1, <2>3, AddSteps DEF Tellings
  <2> QED
    BY <2>1, <2>2, <2>3 DEF Hashchange
<1> QED
  BY <1>1, <1>2, <1>3, <1>4 DEF TypeOK, EntriesType, StackType, Entries, Tellings

LEMMA LoadEventType == ASSUME NavigationAssumption, TypeOK, LoadEvent PROVE TypeOK'
<1>0. None \notin Urls /\ EntriesType /\ Location \in Urls
  BY TypeParts, LocationType DEF NavigationAssumption
<1>1. /\ StackType' /\ told' \in Tellings
      /\ preventNextHashChange' \in BOOLEAN /\ ignoreInitialHashChange' \in BOOLEAN
  BY <1>0, PopstateSteps DEF LoadEvent
<1>2. /\ EntriesType' /\ loads' \in BOOLEAN /\ due' \in Nat /\ lastHash' \in Urls
      /\ moves' \in 0..MaxMoves
  BY DEF LoadEvent, TypeOK, EntriesType, Entries
<1> QED
  BY <1>1, <1>2 DEF TypeOK, EntriesType, StackType, Entries, Tellings

LEMMA HistoryType ==
  ASSUME NavigationAssumption, TypeOK, Next \/ UNCHANGED navigation
  PROVE  TypeOK'
<1>1. CASE Navigate
  <2>1. PICK url \in Urls, noEvents \in BOOLEAN : Go(url, noEvents)
    BY <1>1 DEF Navigate
  <2>2. moves' \in 0..MaxMoves
    BY <1>1, MovedType DEF Navigate
  <2> QED
    BY <2>1, <2>2, GoType
<1>2. CASE UNCHANGED navigation
  BY <1>2 DEF navigation, browser, history, flags, TypeOK
<1> QED
  BY <1>1, <1>2, TraverseType, AssignType, HashchangeType, LoadEventType DEF Next

-----------------------------------------------------------------------------
(* The history follows the browser *)

(* With popstate nothing is on its way, and as no url is in the history    *)
(* twice, the nearest entry with the url of the browser's is that entry.   *)
Once == \A i, j \in 1..Len(entries) : entries[i].url = entries[j].url => i = j
SameStack ==
  /\ Len(stack) = Len(entries) /\ activeIndex = position
  /\ \A i \in 1..Len(entries) : stack[i] = entries[i].url

MirrorInv ==
  /\ due = 0 /\ Stated /\ Once /\ SameStack
  /\ loads => Len(entries) = 1 /\ Location = Home /\ LoadFires = "early"

(* With hashchange the last event that is not swallowed looks at the       *)
(* location of its time.                                                   *)
HashInv ==
  /\ ~loads
  /\ preventNextHashChange => due > 0
  /\ due = 0 \/ (preventNextHashChange /\ due = 1) => stack[activeIndex] = Location

HistoryInv ==
  /\ TypeOK
  /\ Mirrors => MirrorInv
  /\ Events = "hashchange" /\ ~Stays => HashInv

LEMMA StatedInit == ASSUME NavigationAssumption, Init PROVE Stated
<1>1. Len(entries) = 1 /\ entries[1].state = Home /\ Home # None
  BY DEF Init, NavigationAssumption
<1> QED
  BY <1>1 DEF Stated

LEMMA HistoryInit == NavigationAssumption /\ Init => HistoryInv
<1> SUFFICES ASSUME NavigationAssumption, Init PROVE HistoryInv
  OBVIOUS
<1> DEFINE first == [url |-> Home, state |-> Home]
<1>0. Home \in Urls /\ None \notin Urls
  BY DEF NavigationAssumption
<1>1. /\ entries = <<first>> /\ position = 1 /\ stack = <<Home>> /\ activeIndex = 1
      /\ due = 0 /\ lastHash = Home /\ loads \in {FALSE, PushState /\ LoadFires # "never"}
      /\ preventNextHashChange = FALSE /\ ignoreInitialHashChange = TRUE
      /\ told = [url |-> None, direction |-> None] /\ moves = 0
  BY DEF Init
<1>2. first \in Entries /\ first.url = Home /\ first.state = Home
  BY <1>0 DEF Entries
<1>3. ASSUME NEW S, NEW e \in S
      PROVE  <<e>> \in Seq(S) /\ Len(<<e>>) = 1 /\ <<e>>[1] = e
  OBVIOUS
<1> HIDE DEF first
<1>4. entries \in Seq(Entries) /\ Len(entries) = 1 /\ entries[1] = first
  BY <1>1, <1>2, <1>3
<1>5. stack \in Seq(Urls) /\ Len(stack) = 1 /\ stack[1] = Home
  BY <1>0, <1>1, <1>3
<1>6. TypeOK
  <2>1. EntriesType /\ StackType /\ told \in Tellings
    BY <1>1, <1>4, <1>5 DEF EntriesType, StackType, Tellings
  <2>2. due \in Nat /\ lastHash \in Urls /\ moves \in 0..MaxMoves
    BY <1>0, <1>1 DEF NavigationAssumption
  <2>3. loads \in BOOLEAN
    BY <1>1, Zenon
  <2> QED
    BY <1>1, <2>1, <2>2, <2>3, TypeParts
<1>7. Location = Home
  BY <1>1, <1>2, <1>4 DEF Location
<1>8. Mirrors => MirrorInv
  <2>1. Stated /\ Once /\ SameStack
    BY <1>0, <1>1, <1>2, <1>4, <1>5 DEF Stated, Once, SameStack
  <2>2. Mirrors /\ loads => LoadFires = "early"
    BY <1>1 DEF Mirrors, NavigationAssumption
  <2> QED
    BY <1>1, <1>4, <1>7, <2>1, <2>2 DEF MirrorInv
<1>9. Events = "hashchange" /\ ~Stays => HashInv
  BY <1>1, <1>5, <1>7 DEF HashInv, PushState
<1> QED
  BY <1>6, <1>8, <1>9 DEF HistoryInv

(* An entry that is added at both leaves the histories the same.           *)
LEMMA AddedToBoth ==
  ASSUME EntriesType, StackType, SameStack, NEW url \in Urls, Add(url),
         position' = position + 1, Len(entries') = position + 1,
         \A i \in 1..position : entries'[i] = entries[i], entries'[position'].url = url
  PROVE  SameStack'
<1>1. /\ stack'[activeIndex'] = url /\ activeIndex' = activeIndex + 1
      /\ Len(stack') = activeIndex + 1 /\ \A i \in 1..activeIndex : stack'[i] = stack[i]
  BY AddSteps
<1>2. position \in 1..Len(entries) /\ Len(entries) \in Nat
  BY DEF EntriesType
<1> QED
  BY <1>1, <1>2 DEF SameStack

LEMMA GoIsAdded ==
  ASSUME None \notin Urls, EntriesType, StackType, SameStack, NEW url \in Urls,
         NEW noEvents \in BOOLEAN, Go(url, noEvents), Differs(url)
  PROVE  SameStack'
<1>1. /\ position' = position + 1 /\ Len(entries') = position + 1
      /\ \A i \in 1..position : entries'[i] = entries[i]
      /\ entries'[position'].url = url
  BY GoEntries DEF Location
<1> QED
  BY <1>1, AddedToBoth DEF Go

LEMMA AssignIsAdded ==
  ASSUME None \notin Urls, EntriesType, StackType, Stated, PushState, Assign
  PROVE  Stated' /\ (SameStack => SameStack')
<1>1. PICK url \in Urls \ {Home, Location} :
        /\ entries' = Assigned(url, IF PushState THEN url ELSE None)
        /\ Popstate(None, url, TRUE)
  BY DEF Assign
<1>2. /\ position' = position + 1 /\ Len(entries') = position + 1
      /\ \A i \in 1..position : entries'[i] = entries[i]
      /\ entries'[position'].url = url /\ Stated'
  BY <1>1, AssignEntries DEF Location, Assign
<1>3. Add(url)
  BY <1>1 DEF Popstate, SkipsInitial
<1> QED
  BY <1>2, <1>3, AddedToBoth

LEMMA MirrorNavigate ==
  ASSUME NavigationAssumption, Mirrors, TypeOK, MirrorInv, Navigate
  PROVE  MirrorInv'
<1>0. EntriesType /\ StackType /\ None \notin Urls /\ PushState
  BY TypeParts DEF NavigationAssumption, Mirrors
<1>1. PICK url \in Urls, noEvents \in BOOLEAN : New(url) /\ Go(url, noEvents)
  BY DEF Navigate
<1>2. \A i \in 1..position : entries[i].url # url
  BY <1>1 DEF New, Mirrors
<1>3. position \in 1..Len(entries) /\ Len(entries) \in Nat
  BY <1>0 DEF EntriesType
<1>4. Differs(url)
  BY <1>2, <1>3 DEF Differs, Location
<1>5. /\ position' = position + 1 /\ Len(entries') = position + 1
      /\ \A i \in 1..position : entries'[i] = entries[i]
      /\ entries'[position'].url = url /\ Stated'
  BY <1>0, <1>1, <1>4, GoEntries DEF MirrorInv, Location
<1>6. Once'
  BY <1>2, <1>3, <1>5 DEF MirrorInv, Once
<1>7. SameStack'
  BY <1>0, <1>1, <1>4, GoIsAdded DEF MirrorInv
<1>8. due' = 0
  BY <1>0, <1>1 DEF Go, Fired, MirrorInv, PushState
<1>9. loads' = loads /\ ~loads
  BY <1>1 DEF Go, Navigate, Settled, MirrorInv
<1> QED
  BY <1>5, <1>6, <1>7, <1>8, <1>9 DEF MirrorInv

(* Going to an entry of the browser's history finds its url in the stack.  *)
LEMMA TraverseFinds ==
  ASSUME None \notin Urls, EntriesType, StackType, Stated, SameStack, PushState, Traverse
  PROVE  /\ position' \in 1..Len(entries) \ {position} /\ UNCHANGED entries
         /\ Found(stack[position']) /\ Location' = stack[position']
<1>1. PICK p \in DOMAIN entries \ {position} :
        /\ position' = p
        /\ Popstate(entries[p].state, entries[p].url, entries[p].url \notin Paths)
  BY DEF Traverse
<1>2. p \in 1..Len(entries) \ {position} /\ entries[p].state # None /\ stack[p] = entries[p].url
  BY DEF EntriesType, Stated, SameStack
<1>3. Closest(stack[p]) # 0
  BY <1>2, ClosestIn DEF SameStack
<1>4. Found(stack[p])
  BY <1>1, <1>2, <1>3 DEF Popstate, SkipsInitial, Missed
<1> QED
  BY <1>1, <1>2, <1>4 DEF Traverse, Location

LEMMA MirrorTraverse ==
  ASSUME NavigationAssumption, Mirrors, TypeOK, MirrorInv, Traverse
  PROVE  MirrorInv'
<1>0. EntriesType /\ StackType /\ None \notin Urls /\ PushState
  BY TypeParts DEF NavigationAssumption, Mirrors
<1>1. /\ position' \in 1..Len(entries) \ {position} /\ UNCHANGED entries
      /\ Found(stack[position'])
  BY <1>0, TraverseFinds DEF MirrorInv
<1>2. UNCHANGED stack /\ activeIndex' \in 1..Len(stack) /\ stack[activeIndex'] = stack[position']
  <2>1. stack[position'] \in Urls
    BY <1>0, <1>1 DEF StackType, MirrorInv, SameStack
  <2> QED
    BY <1>0, <1>1, <2>1, FoundSteps DEF StackType
<1>3. activeIndex' = position'
  BY <1>1, <1>2 DEF MirrorInv, SameStack, Once
<1>4. UNCHANGED loads /\ due' = 0 /\ ~loads
  <2>1. Len(entries) # 1
    <3>1. position \in 1..Len(entries) /\ position' \in 1..Len(entries) /\ position' # position
      BY <1>0, <1>1 DEF EntriesType
    <3>2. SUFFICES ASSUME Len(entries) = 1 PROVE FALSE
      OBVIOUS
    <3> QED
      BY <3>1, <3>2
  <2> QED
    BY <1>0, <2>1 DEF Traverse, MirrorInv, PushState
<1> QED
  BY <1>1, <1>2, <1>3, <1>4 DEF MirrorInv, Once, SameStack, Stated

LEMMA MirrorAssign ==
  ASSUME NavigationAssumption, Mirrors, TypeOK, MirrorInv, Assign
  PROVE  MirrorInv'
<1>0. EntriesType /\ StackType /\ None \notin Urls /\ PushState
  BY TypeParts DEF NavigationAssumption, Mirrors
<1>1. PICK url \in Urls \ {Home, Location} :
        /\ New(url) /\ entries' = Assigned(url, IF PushState THEN url ELSE None)
        /\ due' = Fired(url)
  BY DEF Assign
<1>2. \A i \in 1..position : entries[i].url # url
  BY <1>1 DEF New, Mirrors
<1>3. position \in 1..Len(entries) /\ Len(entries) \in Nat
  BY <1>0 DEF EntriesType
<1>4. /\ position' = position + 1 /\ Len(entries') = position + 1
      /\ \A i \in 1..position : entries'[i] = entries[i]
      /\ entries'[position'].url = url
  BY <1>0, <1>1, AssignEntries DEF Location, Assign
<1>5. Once'
  BY <1>2, <1>3, <1>4 DEF MirrorInv, Once
<1>6. SameStack' /\ Stated'
  BY <1>0, AssignIsAdded DEF MirrorInv
<1>7. due' = 0
  BY <1>0, <1>1 DEF Fired, MirrorInv, PushState
<1>8. loads' = loads /\ ~loads
  BY DEF Assign, Settled, MirrorInv
<1> QED
  BY <1>4, <1>5, <1>6, <1>7, <1>8 DEF MirrorInv

LEMMA MirrorLoads ==
  ASSUME NavigationAssumption, Mirrors, TypeOK, MirrorInv, LoadEvent
  PROVE  MirrorInv'
<1>1. Location = Home /\ Home \in Paths
  BY DEF LoadEvent, MirrorInv, NavigationAssumption
<1>2. UNCHANGED <<stack, activeIndex>>
  BY <1>1 DEF LoadEvent, Popstate, Missed, history
<1>3. UNCHANGED <<entries, position, due>> /\ loads' = FALSE
  BY DEF LoadEvent
<1> QED
  BY <1>2, <1>3 DEF MirrorInv, Once, SameStack, Stated

LEMMA MirrorNext ==
  ASSUME NavigationAssumption, Mirrors, TypeOK, MirrorInv, Next \/ UNCHANGED navigation
  PROVE  MirrorInv'
<1>1. CASE UNCHANGED navigation
  BY <1>1 DEF navigation, browser, history, MirrorInv, Once, SameStack, Stated, Location
<1>2. ~Hashchange
  BY DEF Mirrors, Hashchange
<1> QED
  BY <1>1, <1>2, MirrorNavigate, MirrorTraverse, MirrorAssign, MirrorLoads DEF Next

LEMMA HashNext ==
  ASSUME NavigationAssumption, Events = "hashchange", ~Stays, TypeOK, HashInv,
         Next \/ UNCHANGED navigation
  PROVE  HashInv'
<1>0. /\ EntriesType /\ StackType /\ None \notin Urls /\ ~PushState /\ due \in Nat
      /\ Location \in Urls
  BY TypeParts, LocationType DEF NavigationAssumption, PushState
<1>1. CASE Navigate
  <2>1. PICK url \in Urls, noEvents \in BOOLEAN :
          Go(url, noEvents) /\ (url \in Paths \/ url # Location \/ ~noEvents)
    BY <1>1 DEF Navigate
  <2>2. Location' = url /\ stack'[activeIndex'] = url
    BY <1>0, <2>1, GoEntries, AddSteps DEF Go
  <2>3. due' = (IF Differs(url) THEN due + 1 ELSE due) /\ loads' = loads
    BY <2>1 DEF Go, Fired
  <2>4. preventNextHashChange' => Differs(url) \/ preventNextHashChange
    BY <2>1 DEF Go, Prevents, Differs
  <2> QED
    BY <1>0, <2>2, <2>3, <2>4 DEF HashInv
<1>2. CASE Traverse
  <2>1. /\ UNCHANGED <<stack, activeIndex, preventNextHashChange, entries, loads>>
        /\ due' = IF entries[position'].url # Location THEN due + 1 ELSE due
    BY <1>0, <1>2 DEF Traverse, history, flags
  <2>2. Location' = entries[position'].url
    BY <2>1 DEF Location
  <2> QED
    BY <1>0, <2>1, <2>2 DEF HashInv
<1>3. CASE Assign
  <2>1. PICK url \in Urls \ {Home, Location} :
          due' = Fired(url) /\ UNCHANGED <<stack, activeIndex, preventNextHashChange>>
    BY <1>0, <1>3 DEF Assign, history, flags
  <2>2. due' = due + 1 /\ loads' = loads
    BY <1>3, <2>1 DEF Fired, Differs, Assign
  <2> QED
    BY <1>0, <2>1, <2>2 DEF HashInv
<1>4. CASE Hashchange
  <2>1. due > 0 /\ due' = due - 1 /\ Location' = Location /\ loads' = loads
    BY <1>4 DEF Hashchange, Due, Location
  <2>2. CASE preventNextHashChange
    <3>1. ~preventNextHashChange' /\ UNCHANGED <<stack, activeIndex>>
      BY <1>4, <2>2 DEF Hashchange, history
    <3> QED
      BY <1>0, <2>1, <2>2, <3>1 DEF HashInv
  <2>3. CASE ~preventNextHashChange
    <3>1. ~preventNextHashChange' /\ (Found(Location) \/ Add(Location))
      BY <1>4, <2>3 DEF Hashchange
    <3>2. stack'[activeIndex'] = Location
      BY <1>0, <3>1, FoundSteps, AddSteps
    <3> QED
      BY <2>1, <3>1, <3>2 DEF HashInv
  <2> QED
    BY <2>2, <2>3
<1>5. CASE UNCHANGED navigation
  BY <1>5 DEF navigation, browser, history, flags, HashInv, Location
<1>6. ~LoadEvent
  BY DEF LoadEvent, HashInv
<1> QED
  BY <1>1, <1>2, <1>3, <1>4, <1>5, <1>6 DEF Next

LEMMA BrowsersIsSame == ASSUME EntriesType, StackType PROVE StackIsBrowsers <=> SameStack
<1>1. DOMAIN entries = 1..Len(entries) /\ Len(entries) \in Nat
  BY DEF EntriesType
<1>2. stack = [i \in 1..Len(stack) |-> stack[i]] /\ DOMAIN stack = 1..Len(stack)
  BY DEF StackType
<1>3. ASSUME StackIsBrowsers PROVE SameStack
  <2>1. DOMAIN stack = 1..Len(entries)
    BY <1>1, <1>3 DEF StackIsBrowsers
  <2>2. Len(stack) = Len(entries)
    <3>1. Len(stack) \in Nat /\ activeIndex \in 1..Len(stack) /\ 1..Len(stack) = 1..Len(entries)
      BY <1>2, <2>1 DEF StackType
    <3>2. Len(stack) \in 1..Len(entries) /\ Len(entries) \in 1..Len(stack)
      <4>1. Len(entries) >= 1
        BY <1>1, <3>1
      <4> HIDE DEF StackIsBrowsers
      <4> QED
        BY <1>1, <3>1, <4>1
    <3> QED
      BY <1>1, <3>1, <3>2
  <2> QED
    BY <1>1, <1>3, <2>2 DEF StackIsBrowsers, SameStack
<1>4. ASSUME SameStack PROVE StackIsBrowsers
  BY <1>1, <1>2, <1>4 DEF StackIsBrowsers, SameStack
<1> QED
  BY <1>3, <1>4

(* The library cannot read the history of the browser and still follows    *)
(* it: with popstate its stack is that history, entry by entry, where urls *)
(* are gone to once; with hashchange its active entry is the location once *)
(* every event was handled, and the flag that swallows an event is up only *)
(* while that is due, where the program does not go silently to the hash   *)
(* that is shown.                                                          *)
THEOREM FollowsBrowser == ASSUME NavigationAssumption PROVE Spec => []HistoryFollows
<1>1. HistoryInv => HistoryFollows
  <2> SUFFICES ASSUME HistoryInv PROVE HistoryFollows
    OBVIOUS
  <2>0. TypeOK /\ EntriesType /\ StackType
    BY TypeParts DEF HistoryInv
  <2>1. ASSUME Mirrors PROVE ActiveIsLocation /\ StackIsBrowsers
    <3>1. SameStack
      BY <2>1 DEF HistoryInv, MirrorInv
    <3>2. stack[activeIndex] = Location
      BY <2>0, <3>1 DEF SameStack, Location, EntriesType
    <3> QED
      BY <2>0, <3>1, <3>2, BrowsersIsSame DEF ActiveIsLocation
  <2>2. ASSUME Events = "hashchange", ~Stays PROVE ActiveIsLocation /\ FlagHasItsEvent
    <3>1. HashInv /\ due \in Nat /\ (Due <=> due > 0)
      BY <2>0, <2>2 DEF HistoryInv, TypeOK, Due
    <3> QED
      BY <3>1 DEF HashInv, ActiveIsLocation, FlagHasItsEvent
  <2> QED
    BY <2>0, <2>1, <2>2 DEF HistoryFollows
<1>2. Init => HistoryInv
  BY HistoryInit
<1>3. HistoryInv /\ [Next]_navigation => HistoryInv'
  BY HistoryType, MirrorNext, HashNext DEF HistoryInv, Mirrors
<1> QED
  BY <1>1, <1>2, <1>3, PTL DEF Spec

(* With popstate every entry has a state.                                  *)
LEMMA StatedNext ==
  ASSUME NavigationAssumption, PushState, TypeOK, Stated, Next \/ UNCHANGED navigation
  PROVE  Stated'
<1>0. None \notin Urls /\ EntriesType /\ StackType
  BY TypeParts DEF NavigationAssumption
<1>1. CASE Navigate
  BY <1>0, <1>1, GoEntries DEF Navigate
<1>2. CASE Assign
  BY <1>0, <1>2, AssignIsAdded
<1>3. CASE UNCHANGED entries
  BY <1>3 DEF Stated
<1> QED
  BY <1>1, <1>2, <1>3 DEF Next, Traverse, Hashchange, LoadEvent, navigation, browser

LEMMA TraverseIsTold ==
  ASSUME NavigationAssumption, PushState, TypeOK, Stated, SameStack, Traverse
  PROVE  /\ position' < position => told'.direction = "back"
         /\ told'.direction = "forward" => position' > position
         /\ (position' > position /\ \A i \in 1..position : entries[i].url # Location')
              => told'.direction = "forward"
         /\ Misleads \/ SameStack'
<1> DEFINE url == stack[position']
           found == Closest(url)
<1>0. None \notin Urls /\ EntriesType /\ StackType
  BY TypeParts DEF NavigationAssumption
<1>1. /\ position' \in 1..Len(entries) \ {position} /\ UNCHANGED entries
      /\ Found(url) /\ Location' = url
  BY <1>0, TraverseFinds
<1>2. /\ Len(entries) \in Nat /\ position \in 1..Len(entries) /\ activeIndex = position
      /\ Len(stack) = Len(entries) /\ \A i \in 1..Len(entries) : stack[i] = entries[i].url
  BY <1>0 DEF EntriesType, SameStack
<1>3. /\ found \in 0..Len(stack) /\ (found # 0 => stack[found] = url)
      /\ \A i \in 1..(activeIndex - 1) : stack[i] = url => found < activeIndex
  BY <1>0, ClosestIn
<1>4. /\ found # 0 /\ activeIndex' = found /\ UNCHANGED stack
      /\ told'.direction = Direction(found)
  BY <1>1 DEF Found
<1>5. Location' = entries[position'].url /\ entries[found].url = url
  BY <1>1, <1>2, <1>3, <1>4
<1> HIDE DEF url, found
<1>6. position' < position => found < activeIndex
  BY <1>1, <1>2, <1>3 DEF url
<1>7. found > activeIndex => position' > position
  BY <1>1, <1>2, <1>3, <1>6
<1>8. ASSUME position' > position, \A i \in 1..position : entries[i].url # Location'
      PROVE  found > activeIndex
  BY <1>1, <1>2, <1>3, <1>4, <1>5, <1>8
<1>9. Misleads \/ SameStack'
  <2>1. CASE found = position'
    BY <1>1, <1>2, <1>4, <2>1 DEF SameStack
  <2>2. CASE found # position'
    <3>1. found \in 1..Len(entries) /\ DOMAIN entries = 1..Len(entries)
      BY <1>0, <1>2, <1>3, <1>4 DEF EntriesType
    <3>2. found \in DOMAIN entries \ {position'} /\ entries[found].url = Location'
      BY <1>1, <1>5, <2>2, <3>1
    <3> QED
      BY <3>2 DEF Misleads
  <2> QED
    BY <2>1, <2>2
<1>10. /\ Direction(found) = "back" <=> found < activeIndex
       /\ Direction(found) = "forward" <=> found > activeIndex
  <2>1. found \in Nat /\ activeIndex \in Nat /\ None \notin {"back", "forward"}
    BY <1>2, <1>3 DEF NavigationAssumption
  <2> QED
    BY <2>1 DEF Direction
<1> QED
  BY <1>4, <1>6, <1>7, <1>8, <1>9, <1>10

(* With popstate, whatever is visited again and whenever the event of the  *)
(* load comes: while the stack is the browser's, a move back is reported   *)
(* as one back and forward is only said of a move forward; and the stack   *)
(* stays the browser's through every step that does not mislead.           *)
THEOREM MovesAreTold ==
  ASSUME NavigationAssumption, PushState PROVE Spec => [][DirectionIsTrue]_navigation
<1> DEFINE Inv == TypeOK /\ Stated
<1>1. Inv /\ [Next]_navigation => [DirectionIsTrue]_navigation
  <2> SUFFICES ASSUME Inv, Next, StackIsBrowsers PROVE DirectionIsTrue
    BY DEF DirectionIsTrue
  <2>0. /\ None \notin Urls /\ EntriesType /\ StackType /\ SameStack
        /\ EntriesType' /\ StackType'
    BY TypeParts, HistoryType, BrowsersIsSame DEF NavigationAssumption, TypeOK, EntriesType,
       StackType, Entries
  <2>1. ASSUME Traverse
        PROVE  /\ position' < position => told'.direction = "back"
               /\ told'.direction = "forward" => position' > position
               /\ (position' > position /\ \A i \in 1..position : entries[i].url # Location')
                    => told'.direction = "forward"
    BY <2>0, <2>1, TraverseIsTold
  <2>2. Misleads \/ SameStack'
    <3>1. CASE Navigate
      <4>1. PICK url \in Urls, noEvents \in BOOLEAN : Go(url, noEvents)
        BY <3>1 DEF Navigate
      <4>2. CASE Differs(url)
        BY <2>0, <4>1, <4>2, GoIsAdded
      <4>3. CASE ~Differs(url)
        BY <2>0, <3>1, <4>1, <4>3, GoEntries DEF Misleads
      <4> QED
        BY <4>2, <4>3
    <3>2. CASE Traverse
      BY <2>0, <3>2, TraverseIsTold
    <3>3. CASE Assign
      BY <2>0, <3>3, AssignIsAdded
    <3>4. CASE LoadEvent
      BY <3>4 DEF Misleads
    <3>5. ~Hashchange
      BY DEF Hashchange
    <3> QED
      BY <3>1, <3>2, <3>3, <3>4, <3>5 DEF Next
  <2>3. SameStack' => StackIsBrowsers'
    BY <2>0, <2>2 DEF SameStack, StackIsBrowsers, EntriesType, StackType
  <2> QED
    BY <2>1, <2>2, <2>3 DEF DirectionIsTrue
<1>2. NavigationAssumption /\ Init => Inv
  BY HistoryInit, StatedInit DEF HistoryInv
<1>3. Inv /\ [Next]_navigation => Inv'
  BY HistoryType, StatedNext
<1> QED
  BY <1>1, <1>2, <1>3, PTL DEF Spec

-----------------------------------------------------------------------------
(* The changes of pages *)

(* What a queued request, the one that is loading or held and the turn's   *)
(* call are: only the call may have found its page, and then nothing is    *)
(* locked.                                                                 *)
Asks == [url : Urls, found : {FALSE}, fromHash : BOOLEAN]

RequestsFit ==
  /\ pageTransitionQueue \in Seq(Asks) /\ {loading, held} \subseteq Asks \cup {None}
  /\ call \in Requests \cup {None}
  /\ call # None /\ call.found => call.url \in dom /\ ~isPageTransitioning

(* During a transition one of its pages is shown, between transitions the  *)
(* active page, and at the start none.                                     *)
ShownFits ==
  /\ activePage \in Urls \cup {None}
  /\ transition = None \/ transition \in Transitions
  /\ transition = None => shown = {activePage} \ {None}
  /\ transition # None =>
       /\ activePage = transition.to /\ transition.from # transition.to
       /\ shown = {IF transition.stage = "out" THEN transition.from ELSE transition.to}

DomFits ==
  /\ Embedded \subseteq dom /\ dom \subseteq Urls
  /\ shown \cup ({activePage} \ {None}) \subseteq dom

LoaderFits ==
  /\ message \in {None, "loading", "error"} /\ loadMsgDelay \in BOOLEAN
  /\ strayDelays \in Nat /\ hides \in Nat

HistoryFits == TypeOK /\ Stated /\ timers \in Seq(Urls)

PagesInv ==
  /\ HistoryFits /\ isPageTransitioning \in BOOLEAN
  /\ RequestsFit /\ ShownFits /\ DomFits /\ LoaderFits /\ LockHasReason

LEMMA RequestsAre ==
  ASSUME NEW url \in Urls, NEW found \in BOOLEAN, NEW fromHash \in BOOLEAN
  PROVE  /\ Request(url, found, fromHash) \in Requests
         /\ Request(url, found, fromHash).url = url /\ Request(url, found, fromHash).found = found
         /\ Request(url, found, fromHash).fromHash = fromHash
  BY DEF Request, Requests

LEMMA AsksAre ==
  ASSUME NEW request \in Asks
  PROVE  /\ request \in Requests /\ request.url \in Urls /\ ~request.found
         /\ [request EXCEPT !.found = TRUE] \in Requests
         /\ [request EXCEPT !.found = TRUE].url = request.url
         /\ [request EXCEPT !.found = TRUE].found = TRUE
         /\ [request EXCEPT !.found = TRUE].fromHash = request.fromHash
  BY DEF Asks, Requests

LEMMA ReleaseFits ==
  ASSUME RequestsFit, Release
  PROVE  /\ isPageTransitioning' = FALSE /\ pageTransitionQueue' \in Seq(Asks)
         /\ call' \in Asks \cup {None}
<1>1. CASE pageTransitionQueue = <<>>
  BY <1>1 DEF Release, Waiting, RequestsFit
<1>2. CASE pageTransitionQueue # <<>>
  <2>1. call' = Head(pageTransitionQueue) /\ pageTransitionQueue' = Tail(pageTransitionQueue)
    BY <1>2 DEF Release, Waiting
  <2>2. pageTransitionQueue \in Seq(Asks) /\ Head(pageTransitionQueue) \in Asks
    BY <1>2, FirstOf DEF RequestsFit
  <2>3. Tail(pageTransitionQueue) \in Seq(Asks)
    BY <1>2, <2>2
  <2> QED
    BY <2>1, <2>2, <2>3 DEF Release
<1> QED
  BY <1>1, <1>2

LEMMA PagesInitial == PagesAssumption /\ PagesInit => PagesInv
<1> SUFFICES ASSUME PagesAssumption, PagesInit PROVE PagesInv
  OBVIOUS
<1>0. Home \in Urls /\ None \notin Urls /\ None \notin Requests /\ Home \in Embedded
  BY DEF PagesAssumption, NavigationAssumption
<1>1. TypeOK
  BY HistoryInit DEF PagesInit, InitializePage, HistoryInv, PagesAssumption
<1>2. Stated
  BY <1>0 DEF PagesInit, InitializePage, Init, Stated
<1>3. /\ call \in Requests /\ call.url = Home /\ ~isPageTransitioning
      /\ pageTransitionQueue = <<>> /\ loading = None /\ held = None
      /\ transition = None /\ timers = <<>>
      /\ dom = Embedded /\ activePage = None /\ shown = {}
  BY <1>0, RequestsAre DEF PagesInit, InitializePage
<1>4. timers \in Seq(Urls) /\ pageTransitionQueue \in Seq(Asks)
  BY <1>3
<1>5. LoaderFits
  BY DEF PagesInit, InitializePage, LoaderFits
<1>6. Embedded \subseteq Urls
  BY DEF PagesAssumption
<1>7. RequestsFit
  BY <1>0, <1>3, <1>4 DEF RequestsFit
<1>8. ShownFits /\ DomFits /\ LockHasReason
  BY <1>0, <1>3, <1>6 DEF ShownFits, DomFits, LockHasReason
<1>9. isPageTransitioning \in BOOLEAN
  BY DEF PagesInit, InitializePage
<1> QED
  BY <1>1, <1>2, <1>4, <1>5, <1>7, <1>8, <1>9 DEF PagesInv, HistoryFits

(* What the user or a link does to the history: the url that is told is    *)
(* the one of the location.                                                *)
LEMMA BackTells ==
  ASSUME PagesAssumption, TypeOK, Stated, Traverse \/ Assign
  PROVE  TypeOK' /\ Stated' /\ told'.url = Location' /\ Location' \in Urls
<1>0. NavigationAssumption /\ None \notin Urls /\ PushState /\ EntriesType /\ StackType
  BY TypeParts DEF PagesAssumption, NavigationAssumption, PushState
<1>1. CASE Traverse
  <2>1. PICK p \in DOMAIN entries \ {position} :
          /\ position' = p
          /\ Popstate(entries[p].state, entries[p].url, entries[p].url \notin Paths)
    BY <1>0, <1>1 DEF Traverse
  <2>2. p \in 1..Len(entries) /\ entries' = entries
    BY <1>0, <1>1 DEF EntriesType, Traverse
  <2>3. entries[p].state # None
    BY <2>2 DEF Stated
  <2>4. told'.url = entries[p].url
    BY <2>1, <2>3 DEF Popstate, SkipsInitial, Found
  <2> QED
    BY <1>0, <1>1, <2>1, <2>2, <2>4, TraverseType DEF Location, Stated
<1>2. CASE Assign
  <2>1. PICK url \in Urls \ {Home, Location} :
          /\ entries' = Assigned(url, IF PushState THEN url ELSE None)
          /\ Popstate(None, url, TRUE)
    BY <1>0, <1>2 DEF Assign
  <2>2. Location' = url /\ Stated'
    BY <1>0, <1>2, <2>1, AssignEntries DEF Assign
  <2>3. told'.url = url
    BY <2>1 DEF Popstate, SkipsInitial
  <2> QED
    BY <1>0, <1>2, <2>2, <2>3, AssignType
<1> QED
  BY <1>1, <1>2

LEMMA HistoryFitsNext ==
  ASSUME PagesAssumption, PagesInv, PagesNext \/ UNCHANGED vars
  PROVE  HistoryFits'
<1>0. /\ NavigationAssumption /\ None \notin Urls /\ PushState /\ EntriesType
      /\ TypeOK /\ Stated /\ timers \in Seq(Urls)
  BY TypeParts DEF PagesAssumption, NavigationAssumption, PushState, PagesInv, HistoryFits
<1>1. ASSUME UNCHANGED navigation PROVE TypeOK' /\ Stated'
  BY <1>0, <1>1, HistoryType DEF Stated, navigation, browser
<1>2. CASE UNCHANGED <<navigation, timers>>
  BY <1>0, <1>1, <1>2 DEF HistoryFits
<1>3. CASE ChangePage
  <2>1. UNCHANGED <<moves, timers>>
    BY <1>3 DEF ChangePage
  <2>2. CASE UNCHANGED <<browser, history, flags, told>>
    BY <1>2, <2>1, <2>2 DEF navigation
  <2>3. CASE Go(call.url, TRUE)
    <3>1. call.url \in Urls
      BY <1>3 DEF ChangePage, PagesInv, RequestsFit, Requests
    <3>2. TypeOK'
      BY <1>0, <2>1, <2>3, <3>1, GoType DEF TypeOK
    <3>3. Stated'
      BY <1>0, <2>3, <3>1, GoEntries
    <3> QED
      BY <1>0, <2>1, <3>2, <3>3 DEF HistoryFits
  <2> QED
    BY <1>3, <2>2, <2>3 DEF ChangePage
<1>4. CASE Follow
  <2>1. UNCHANGED <<browser, history, flags, told, timers>> /\ Moved
    BY <1>4 DEF Follow
  <2>2. moves' \in 0..MaxMoves
    BY <1>0, <2>1, MovedType
  <2>3. TypeOK' /\ Stated'
    BY <1>0, <2>1, <2>2 DEF TypeOK, Stated, browser, history, flags
  <2> QED
    BY <1>0, <2>1, <2>3 DEF HistoryFits
<1>5. CASE Back
  <2>1. TypeOK' /\ Stated' /\ told'.url \in Urls
    BY <1>0, <1>5, BackTells DEF Back
  <2>2. timers' = Append(timers, told'.url)
    BY <1>5 DEF Back
  <2>3. timers' \in Seq(Urls)
    BY <1>0, <2>1, <2>2
  <2> QED
    BY <2>1, <2>3 DEF HistoryFits
<1>6. CASE NavigateEvent
  <2>1. timers # <<>> /\ timers' = Tail(timers) /\ UNCHANGED navigation
    BY <1>6 DEF NavigateEvent
  <2>2. timers' \in Seq(Urls)
    BY <1>0, <2>1
  <2> QED
    BY <1>1, <2>1, <2>2 DEF HistoryFits
<1>7. UNCHANGED <<navigation, timers>> \/ ChangePage \/ Follow \/ Back \/ NavigateEvent
  BY DEF PagesNext, Turn, Answer, Queue, Prevented, LoadPage, SamePage, Loaded, LoadFails,
     ListenerSettles, OutDone, InDone, ShowMessage, HideMessage, vars
<1> QED
  BY <1>2, <1>3, <1>4, <1>5, <1>6, <1>7

LEMMA LoaderFitsNext ==
  ASSUME PagesInv, PagesNext \/ UNCHANGED vars
  PROVE  LoaderFits'
<1>0. LoaderFits
  BY DEF PagesInv
<1>1. CASE UNCHANGED <<message, loadMsgDelay, strayDelays, hides>>
  BY <1>0, <1>1 DEF LoaderFits
<1>2. CASE LoadPage
  <2>1. /\ message' = message /\ hides' = hides
        /\ strayDelays' \in {strayDelays, strayDelays + 1}
    BY <1>2 DEF LoadPage, loader
  <2>2. loadMsgDelay' \in BOOLEAN
    BY <1>0, <1>2 DEF LoadPage, loader, LoaderFits
  <2> QED
    BY <1>0, <2>1, <2>2 DEF LoaderFits
<1>3. CASE Loaded \/ LoadFails
  <2>1. /\ message' \in {None, "error", message} /\ hides' \in {hides, hides + 1}
        /\ strayDelays' \in {strayDelays, strayDelays + 1}
    BY <1>3 DEF Loaded, LoadFails, HideLater
  <2>2. loadMsgDelay' \in BOOLEAN
    BY <1>3 DEF Loaded, LoadFails
  <2> QED
    BY <1>0, <2>1, <2>2 DEF LoaderFits
<1>4. CASE ChangePage
  BY <1>0, <1>4 DEF ChangePage, LoaderFits
<1>5. CASE ShowMessage
  <2>1. /\ message' = "loading" /\ hides' = hides
        /\ strayDelays' = strayDelays \/ (strayDelays > 0 /\ strayDelays' = strayDelays - 1)
    BY <1>5 DEF ShowMessage
  <2>2. loadMsgDelay' \in BOOLEAN
    BY <1>0, <1>5 DEF ShowMessage, LoaderFits
  <2> QED
    BY <1>0, <2>1, <2>2 DEF LoaderFits
<1>6. CASE HideMessage
  BY <1>0, <1>6 DEF HideMessage, LoaderFits
<1>7. \/ UNCHANGED <<message, loadMsgDelay, strayDelays, hides>>
      \/ LoadPage \/ Loaded \/ LoadFails \/ ChangePage \/ ShowMessage \/ HideMessage
  BY DEF PagesNext, Turn, Answer, Queue, Prevented, SamePage, ListenerSettles, OutDone, InDone,
     NavigateEvent, Follow, Back, vars, loader
<1> QED
  BY <1>1, <1>2, <1>3, <1>4, <1>5, <1>6, <1>7

ChangeFits ==
  isPageTransitioning \in BOOLEAN /\ RequestsFit /\ ShownFits /\ DomFits /\ LockHasReason

Nothing ==
  /\ None \notin Urls /\ None \notin Requests /\ None \notin Transitions
  /\ Remote \subseteq Urls /\ Embedded \cap Remote = {}

LEMMA NothingIs == ASSUME PagesAssumption PROVE Nothing
  BY DEF PagesAssumption, NavigationAssumption, Nothing

LEMMA FoundIs ==
  ASSUME NEW request \in Requests, ~request.found
  PROVE  request \in Asks
<1>1. request.found = FALSE
  BY DEF Requests
<1>2. request.url \in Urls /\ request.fromHash \in BOOLEAN
      /\ request = [url |-> request.url, found |-> request.found, fromHash |-> request.fromHash]
  BY DEF Requests
<1> QED
  BY <1>1, <1>2 DEF Asks

LEMMA QueueFits == ASSUME Nothing, ChangeFits, Queue PROVE ChangeFits'
<1>1. call \in Requests /\ ~call.found /\ call' = None
  BY DEF ChangeFits, RequestsFit, Queue, IsLocked
<1>2. call \in Asks
  BY <1>1, FoundIs
<1>3. pageTransitionQueue' = Append(pageTransitionQueue, call)
      /\ pageTransitionQueue \in Seq(Asks)
  BY DEF ChangeFits, RequestsFit, Queue
<1>4. pageTransitionQueue' \in Seq(Asks)
  BY <1>2, <1>3
<1>5. UNCHANGED <<isPageTransitioning, dom, activePage, shown, loading, held, transition>>
  BY DEF Queue, pages
<1> QED
  BY <1>1, <1>4, <1>5 DEF ChangeFits, RequestsFit, ShownFits, DomFits, LockHasReason

(* Steps after which nothing is locked and a queued request or none runs.  *)
LEMMA ReleasedFits ==
  ASSUME Nothing, ChangeFits, Release, loading' = None, held' = None, transition' = None,
         ShownFits', DomFits'
  PROVE  ChangeFits'
<1>1. /\ isPageTransitioning' = FALSE /\ pageTransitionQueue' \in Seq(Asks)
      /\ call' \in Asks \cup {None}
  BY ReleaseFits DEF ChangeFits
<1>2. call' # None => call' \in Requests /\ ~call'.found
  BY <1>1, AsksAre
<1> QED
  BY <1>1, <1>2 DEF ChangeFits, RequestsFit, LockHasReason

LEMMA SmallTurnsFit ==
  ASSUME Nothing, ChangeFits, Prevented \/ SamePage
  PROVE  ChangeFits'
<1>1. /\ call' = None
      /\ UNCHANGED <<pageTransitionQueue, dom, activePage, shown, loading, held, transition>>
      /\ ~isPageTransitioning /\ ~isPageTransitioning' /\ isPageTransitioning' \in BOOLEAN
  <2>1. CASE Prevented
    BY <2>1 DEF Prevented, IsLocked, pages, ChangeFits
  <2>2. CASE SamePage
    BY <2>2 DEF SamePage, IsLocked, Unlocked, pages
  <2> QED
    BY <2>1, <2>2
<1> QED
  BY <1>1 DEF ChangeFits, RequestsFit, ShownFits, DomFits, LockHasReason

LEMMA LoadPageFits == ASSUME Nothing, ChangeFits, LoadPage PROVE ChangeFits'
<1>1. /\ call \in Requests /\ ~call.found /\ ~isPageTransitioning
      /\ UNCHANGED <<dom, activePage, shown, transition>>
  BY DEF LoadPage, IsLocked, pages, ChangeFits, RequestsFit
<1>2. call \in Asks
  BY <1>1, FoundIs
<1>3. ShownFits' /\ DomFits'
  BY <1>1 DEF ChangeFits, ShownFits, DomFits
<1>4. loading = None /\ held = None /\ transition = None
  BY <1>1 DEF ChangeFits, LockHasReason
<1>5. CASE call.url \in dom /\ call' = [call EXCEPT !.found = TRUE]
             /\ UNCHANGED <<isPageTransitioning, pageTransitionQueue, loading, held>>
  <2>1. call' \in Requests /\ call'.url = call.url
    BY <1>2, <1>5, AsksAre
  <2> QED
    BY <1>1, <1>3, <1>5, <2>1 DEF ChangeFits, RequestsFit, LockHasReason
<1>6. CASE /\ isPageTransitioning' = TRUE /\ call' = None /\ UNCHANGED pageTransitionQueue
           /\ \/ loading' = call /\ UNCHANGED held
              \/ held' = call /\ UNCHANGED loading
  <2>1. call \in Asks /\ call # None
    BY <1>1, <1>2 DEF Nothing
  <2> QED
    BY <1>1, <1>3, <1>4, <1>6, <2>1 DEF ChangeFits, RequestsFit, LockHasReason
<1>7. CASE Release /\ UNCHANGED <<loading, held>>
  BY <1>1, <1>3, <1>4, <1>7, ReleasedFits
<1> QED
  BY <1>5, <1>6, <1>7 DEF LoadPage

LEMMA ResolvedFits ==
  ASSUME Nothing, ChangeFits, NEW request \in Asks, Resolved(request), transition = None,
         loading' = None, held' = None, transition' = None
  PROVE  ChangeFits'
<1>1. /\ dom' = dom \cup {request.url} /\ call' = [request EXCEPT !.found = TRUE]
      /\ isPageTransitioning' = FALSE /\ UNCHANGED <<activePage, shown, pageTransitionQueue>>
  BY DEF Resolved
<1>2. ShownFits'
  BY <1>1 DEF ChangeFits, ShownFits
<1>3. call' \in Requests /\ call'.url \in dom' /\ request.url \in Urls
  BY <1>1, AsksAre
<1>4. DomFits'
  BY <1>1, <1>3 DEF ChangeFits, DomFits
<1> QED
  BY <1>1, <1>2, <1>3, <1>4 DEF ChangeFits, RequestsFit, LockHasReason

LEMMA AnswersFit ==
  ASSUME Nothing, ChangeFits, Loaded \/ LoadFails \/ ListenerSettles PROVE ChangeFits'
<1>1. /\ {loading, held} \subseteq Asks \cup {None} /\ transition = None /\ isPageTransitioning
      /\ UNCHANGED <<activePage, shown, transition>>
      /\ loading = None \/ held = None
  BY DEF Loaded, LoadFails, ListenerSettles, Resolved, pages, ChangeFits, RequestsFit,
     LockHasReason
<1>2. ShownFits'
  BY <1>1 DEF ChangeFits, ShownFits
<1>3. UNCHANGED dom => DomFits'
  BY <1>1 DEF ChangeFits, DomFits
<1>4. CASE Loaded
  <2>1. loading \in Asks /\ Resolved(loading) /\ loading' = None /\ held' = None
    BY <1>1, <1>4 DEF Loaded
  <2> QED
    BY <1>1, <2>1, ResolvedFits
<1>5. CASE LoadFails
  <2>1. loading \in Asks /\ loading # None /\ held = None /\ loading' = None /\ UNCHANGED dom
    BY <1>1, <1>5 DEF LoadFails, pages
  <2>2. CASE Release /\ UNCHANGED held
    BY <1>1, <1>2, <1>3, <2>1, <2>2, ReleasedFits
  <2>3. CASE held' = loading /\ UNCHANGED <<isPageTransitioning, pageTransitionQueue, call>>
    BY <1>1, <1>2, <1>3, <2>1, <2>3 DEF ChangeFits, RequestsFit, LockHasReason
  <2> QED
    BY <1>5, <2>2, <2>3 DEF LoadFails, lock
<1>6. CASE ListenerSettles
  <2>1. held \in Asks /\ held # None /\ loading = None /\ held' = None /\ loading' = None
    BY <1>1, <1>6 DEF ListenerSettles
  <2>2. CASE Resolved(held)
    BY <1>1, <2>1, <2>2, ResolvedFits
  <2>3. CASE Release /\ UNCHANGED dom
    BY <1>1, <1>2, <1>3, <2>1, <2>3, ReleasedFits
  <2> QED
    BY <1>6, <2>2, <2>3 DEF ListenerSettles, pages
<1> QED
  BY <1>4, <1>5, <1>6

LEMMA ChangePageFits == ASSUME Nothing, ChangeFits, ChangePage PROVE ChangeFits'
<1>1. /\ call \in Requests /\ call.url \in Urls /\ call.url \in dom /\ call.url # activePage
      /\ ~isPageTransitioning /\ activePage' = call.url /\ UNCHANGED <<loading, held>>
  BY DEF ChangePage, IsLocked, ChangeFits, RequestsFit, Requests
<1>2. loading = None /\ held = None /\ transition = None /\ shown = {activePage} \ {None}
  BY <1>1 DEF ChangeFits, ShownFits, LockHasReason
<1>3. CASE /\ isPageTransitioning' = TRUE /\ call' = None /\ activePage # None
           /\ transition' = [from |-> activePage, to |-> call.url, stage |-> "out"]
           /\ UNCHANGED <<dom, shown, pageTransitionQueue>>
  <2>1. activePage \in Urls /\ shown = {activePage}
    BY <1>2, <1>3 DEF ChangeFits, ShownFits
  <2>2. transition' \in Transitions /\ transition' # None
    BY <1>1, <1>3, <2>1 DEF Transitions, Nothing
  <2>3. transition'.from = activePage /\ transition'.to = call.url /\ transition'.stage = "out"
    BY <1>3
  <2>4. ShownFits'
    BY <1>1, <1>3, <2>1, <2>2, <2>3 DEF ShownFits
  <2>5. DomFits'
    BY <1>1, <1>3 DEF ChangeFits, DomFits
  <2> QED
    BY <1>1, <1>2, <1>3, <2>2, <2>4, <2>5 DEF ChangeFits, RequestsFit, LockHasReason
<1>4. CASE /\ shown' = InPlace(activePage, call.url) /\ dom' = Removed(activePage, call.url)
           /\ Release /\ UNCHANGED transition
  <2>1. shown' = {call.url}
    BY <1>1, <1>2, <1>4 DEF InPlace
  <2>2. ShownFits'
    BY <1>1, <1>2, <1>4, <2>1 DEF ShownFits, Nothing
  <2>3. DomFits'
    BY <1>1, <1>4, <2>1 DEF ChangeFits, DomFits, Removed, Nothing
  <2> QED
    BY <1>1, <1>2, <1>4, <2>2, <2>3, ReleasedFits
<1> QED
  BY <1>3, <1>4 DEF ChangePage

LEMMA TransitionFits == ASSUME Nothing, ChangeFits, OutDone \/ InDone PROVE ChangeFits'
<1>1. /\ transition \in Transitions /\ transition # None
      /\ loading = None /\ held = None /\ isPageTransitioning
      /\ activePage = transition.to /\ transition.from # transition.to
      /\ shown = {IF transition.stage = "out" THEN transition.from ELSE transition.to}
      /\ UNCHANGED <<activePage, loading, held>>
  BY DEF OutDone, InDone, pages, ChangeFits, ShownFits, LockHasReason
<1>2. transition.from \in Urls /\ transition.to \in Urls
  BY <1>1 DEF Transitions
<1>3. CASE OutDone
  <2>1. /\ transition.stage = "out" /\ shown' = InPlace(transition.from, transition.to)
        /\ transition' = [transition EXCEPT !.stage = "in"]
        /\ UNCHANGED <<dom, isPageTransitioning, pageTransitionQueue, call>>
    BY <1>3 DEF OutDone, lock
  <2>2. /\ transition' \in Transitions /\ transition'.from = transition.from
        /\ transition'.to = transition.to /\ transition'.stage = "in"
    BY <1>1, <2>1 DEF Transitions
  <2>3. transition' # None /\ shown' = {transition.to}
    BY <1>1, <2>1, <2>2 DEF Nothing, InPlace
  <2>4. ShownFits'
    BY <1>1, <1>2, <2>2, <2>3 DEF ShownFits
  <2>5. DomFits'
    BY <1>1, <1>2, <2>1, <2>3 DEF ChangeFits, DomFits, Nothing
  <2> QED
    BY <1>1, <2>1, <2>3, <2>4, <2>5 DEF ChangeFits, RequestsFit, LockHasReason
<1>4. CASE InDone
  <2>1. /\ shown = {transition.to} /\ dom' = Removed(transition.from, transition.to)
        /\ transition' = None /\ Release /\ shown' = shown
    BY <1>1, <1>4 DEF InDone
  <2>2. ShownFits'
    BY <1>1, <1>2, <2>1 DEF ShownFits, Nothing
  <2>3. DomFits'
    BY <1>1, <1>2, <2>1 DEF ChangeFits, DomFits, Removed, Nothing
  <2> QED
    BY <1>1, <2>1, <2>2, <2>3, ReleasedFits
<1> QED
  BY <1>3, <1>4

LEMMA NewCallFits ==
  ASSUME Nothing, ChangeFits, NEW request \in Requests, ~request.found, call' = request,
         UNCHANGED <<isPageTransitioning, pageTransitionQueue, dom, activePage, shown, loading,
                     held, transition>>
  PROVE  ChangeFits'
  BY DEF ChangeFits, RequestsFit, ShownFits, DomFits, LockHasReason

LEMMA ChangeFitsNext ==
  ASSUME PagesAssumption, PagesInv, PagesNext \/ UNCHANGED vars
  PROVE  ChangeFits'
<1>0. Nothing /\ ChangeFits
  BY NothingIs DEF PagesInv, ChangeFits
<1>1. CASE UNCHANGED <<isPageTransitioning, pageTransitionQueue, call, dom, activePage, shown,
                       loading, held, transition>>
  BY <1>0, <1>1 DEF ChangeFits, RequestsFit, ShownFits, DomFits, LockHasReason
<1>2. CASE Turn \/ Answer \/ ListenerSettles \/ OutDone \/ InDone
  BY <1>0, <1>2, QueueFits, SmallTurnsFit, LoadPageFits, AnswersFit, ChangePageFits,
     TransitionFits DEF Turn, Answer
<1>3. CASE NavigateEvent
  <2>1. Head(timers) \in Urls
    BY <1>3, FirstOf DEF NavigateEvent, PagesInv, HistoryFits
  <2>2. call' = Request(Head(timers), FALSE, TRUE)
    BY <1>3 DEF NavigateEvent
  <2>3. call' \in Requests /\ ~call'.found
    BY <2>1, <2>2, RequestsAre
  <2>4. UNCHANGED <<isPageTransitioning, pageTransitionQueue, dom, activePage, shown, loading,
                    held, transition>>
    BY <1>3 DEF NavigateEvent, pages
  <2> QED
    BY <1>0, <2>3, <2>4, NewCallFits
<1>4. CASE Follow
  <2>1. PICK url \in Urls : call' = Request(url, FALSE, FALSE)
    BY <1>4 DEF Follow
  <2>2. call' \in Requests /\ ~call'.found
    BY <2>1, RequestsAre
  <2>3. UNCHANGED <<isPageTransitioning, pageTransitionQueue, dom, activePage, shown, loading,
                    held, transition>>
    BY <1>4 DEF Follow, pages
  <2> QED
    BY <1>0, <2>2, <2>3, NewCallFits
<1>5. \/ Turn \/ Answer \/ ListenerSettles \/ OutDone \/ InDone \/ NavigateEvent \/ Follow
      \/ UNCHANGED <<isPageTransitioning, pageTransitionQueue, call, dom, activePage, shown,
                     loading, held, transition>>
  BY DEF PagesNext, Back, ShowMessage, HideMessage, vars, pages, lock
<1> QED
  BY <1>1, <1>2, <1>3, <1>4, <1>5

LEMMA PagesInvNext == PagesAssumption /\ PagesInv /\ [PagesNext]_vars => PagesInv'
  BY HistoryFitsNext, LoaderFitsNext, ChangeFitsNext DEF PagesInv, ChangeFits

(* A user who waits: nothing is queued, what is under way goes to the      *)
(* location or, unless it follows the hash, takes it along; what was told  *)
(* by the browser is the location.                                         *)
Leads(request) == IF request.fromHash THEN request.url = Location ELSE activePage = Location

CalmFits ==
  /\ pageTransitionQueue = <<>> /\ held = None
  /\ call # None => Leads(call)
  /\ loading # None => Leads(loading)
  /\ transition # None => activePage = Location
  /\ isPageTransitioning \/ call # None => timers = <<>>
  /\ isPageTransitioning => call = None
  /\ timers # <<>> => timers = <<Location>>
  /\ ShowsLocation

LEMMA CalmInitial == ASSUME PagesAssumption, PagesInit PROVE CalmFits
<1>1. call.fromHash /\ call.url = Home
  BY RequestsAre DEF PagesInit, InitializePage, PagesAssumption, NavigationAssumption
<1>2. Location = Home
  BY DEF PagesInit, InitializePage, Init, Location
<1>3. /\ pageTransitionQueue = <<>> /\ loading = None /\ held = None
      /\ transition = None /\ timers = <<>> /\ ~isPageTransitioning /\ activePage = None
  BY DEF PagesInit, InitializePage
<1> QED
  BY <1>1, <1>2, <1>3 DEF CalmFits, Leads, ShowsLocation

LEMMA CalmTurns ==
  ASSUME PagesAssumption, Certain, PagesInv, CalmFits, Turn
  PROVE  CalmFits'
<1>0. Nothing /\ ChangeFits /\ EntriesType /\ StackType
  BY NothingIs, TypeParts DEF PagesInv, ChangeFits, HistoryFits
<1>1. /\ call \in Requests /\ call # None /\ call.url \in Urls /\ ~isPageTransitioning
      /\ loading = None /\ held = None /\ transition = None /\ timers = <<>>
      /\ pageTransitionQueue = <<>> /\ Leads(call)
  BY <1>0 DEF Turn, Queue, Prevented, LoadPage, SamePage, ChangePage, IsLocked, CalmFits,
     ChangeFits, RequestsFit, LockHasReason, Requests
<1>2. ~Queue /\ ~Prevented
  BY <1>1 DEF Queue, Prevented, IsLocked, Certain
<1>3. CASE LoadPage
  <2>1. ~call.found /\ UNCHANGED <<entries, position, activePage, transition, timers>>
    BY <1>3 DEF LoadPage, navigation, browser, pages
  <2>2. Location' = Location
    BY <2>1 DEF Location
  <2>3. call \in Asks
    BY <1>1, <2>1, FoundIs
  <2>4. CASE call' = [call EXCEPT !.found = TRUE]
             /\ UNCHANGED <<isPageTransitioning, pageTransitionQueue, loading, held>>
    <3>1. call'.url = call.url /\ call'.fromHash = call.fromHash
      BY <2>3, <2>4, AsksAre
    <3>2. call' # None
      BY <2>3, <2>4, AsksAre, <1>0 DEF Nothing
    <3> QED
      BY <1>1, <2>1, <2>2, <2>4, <3>1, <3>2 DEF CalmFits, Leads, ShowsLocation
  <2>5. CASE isPageTransitioning' = TRUE /\ loading' = call /\ call' = None
             /\ UNCHANGED <<pageTransitionQueue, held>>
    BY <1>1, <2>1, <2>2, <2>5 DEF CalmFits, Leads, ShowsLocation, Idle
  <2>6. call.url \notin Foreign /\ call.url \in dom \cup Remote \cup Foreign
    <3>1. call.url \in Embedded \cup Remote
      BY <1>1 DEF Certain
    <3>2. Embedded \subseteq dom /\ Foreign \cap (Embedded \cup Remote) = {}
      BY <1>0 DEF ChangeFits, DomFits, PagesAssumption
    <3> QED
      BY <3>1, <3>2
  <2> QED
    BY <1>3, <2>4, <2>5, <2>6 DEF LoadPage, Certain
<1>4. CASE SamePage
  <2>1. /\ call.url = activePage /\ call' = None /\ ~isPageTransitioning'
        /\ UNCHANGED <<entries, position, activePage, transition, timers, loading, held,
                       pageTransitionQueue>>
    BY <1>4 DEF SamePage, Unlocked, navigation, browser, pages
  <2>2. Location' = Location /\ activePage = Location
    BY <1>1, <2>1 DEF Location, Leads
  <2> QED
    BY <1>1, <2>1, <2>2 DEF CalmFits, ShowsLocation
<1>5. CASE ChangePage
  <2>1. activePage' = call.url /\ UNCHANGED <<timers, loading, held>>
    BY <1>5 DEF ChangePage
  <2>2. activePage' = Location'
    <3>1. CASE call.fromHash
      <4>1. UNCHANGED <<entries, position>>
        BY <1>5, <3>1 DEF ChangePage, FollowsHash, browser
      <4> QED
        BY <1>1, <2>1, <3>1, <4>1 DEF Leads, Location
    <3>2. CASE ~call.fromHash
      <4>1. Go(call.url, TRUE)
        BY <1>5, <3>2 DEF ChangePage, FollowsHash
      <4> QED
        BY <1>0, <1>1, <2>1, <4>1, GoEntries DEF Nothing
    <3> QED
      BY <3>1, <3>2
  <2>3. call' = None /\ pageTransitionQueue' = <<>>
    BY <1>1, <1>5 DEF ChangePage, Release, Waiting
  <2> QED
    BY <1>1, <2>1, <2>2, <2>3 DEF CalmFits, ShowsLocation
<1> QED
  BY <1>2, <1>3, <1>4, <1>5 DEF Turn

LEMMA CalmNext ==
  ASSUME PagesAssumption, Certain, PagesInv, CalmFits, PagesNext \/ UNCHANGED vars
  PROVE  CalmFits'
<1>0. Nothing /\ ChangeFits /\ TypeOK /\ Stated /\ EntriesType /\ timers \in Seq(Urls)
  BY NothingIs, TypeParts DEF PagesInv, ChangeFits, HistoryFits
<1>1. CASE UNCHANGED <<navigation, pages, lock, loading, held, transition, timers>>
  BY <1>1 DEF navigation, browser, pages, lock, CalmFits, Leads, Location, ShowsLocation, Idle
<1>2. CASE Answer
  <2>1. /\ loading \in Asks /\ loading # None /\ isPageTransitioning /\ transition = None
        /\ call = None /\ timers = <<>>
    BY <1>0, <1>2 DEF Answer, Loaded, LoadFails, ChangeFits, RequestsFit, LockHasReason, CalmFits
  <2>2. Loaded
    BY <1>2 DEF Answer, LoadFails, Certain
  <2>3. /\ call' = [loading EXCEPT !.found = TRUE] /\ loading' = None
        /\ isPageTransitioning' = FALSE
        /\ UNCHANGED <<entries, position, activePage, held, transition, timers,
                       pageTransitionQueue>>
    BY <2>2 DEF Loaded, Resolved, navigation, browser
  <2>4. /\ call'.url = loading.url /\ call'.fromHash = loading.fromHash /\ call' # None
    BY <1>0, <2>1, <2>3, AsksAre DEF Nothing
  <2> QED
    BY <2>1, <2>3, <2>4 DEF CalmFits, Leads, Location, ShowsLocation
<1>3. CASE OutDone
  <2>1. /\ transition # None /\ call = None /\ isPageTransitioning /\ timers = <<>>
        /\ UNCHANGED <<entries, position, activePage, isPageTransitioning, pageTransitionQueue,
                       call, loading, held, timers>>
    BY <1>0, <1>3 DEF OutDone, navigation, browser, lock, ChangeFits, LockHasReason, CalmFits
  <2> QED
    BY <2>1 DEF CalmFits, Leads, Location, ShowsLocation, Idle
<1>4. CASE InDone
  <2>1. /\ transition # None /\ transition' = None /\ call = None /\ isPageTransitioning
        /\ loading = None /\ timers = <<>> /\ pageTransitionQueue = <<>> /\ Release
        /\ UNCHANGED <<entries, position, activePage, loading, held, timers>>
    BY <1>0, <1>4 DEF InDone, navigation, browser, ChangeFits, LockHasReason, CalmFits
  <2>2. call' = None /\ pageTransitionQueue' = <<>> /\ isPageTransitioning' = FALSE
    BY <2>1 DEF Release, Waiting
  <2> QED
    BY <2>1, <2>2 DEF CalmFits, Location, ShowsLocation
<1>5. CASE NavigateEvent
  <2>1. /\ call = None /\ timers = <<Location>> /\ timers' = Tail(timers)
        /\ call' = Request(Head(timers), FALSE, TRUE) /\ ~isPageTransitioning
        /\ UNCHANGED <<entries, position, activePage, isPageTransitioning, pageTransitionQueue,
                       loading, held, transition>>
    BY <1>5 DEF NavigateEvent, navigation, browser, pages, CalmFits
  <2>2. timers' = <<>> /\ Head(timers) = Location
    BY <2>1
  <2>3. call' \in Requests /\ call'.fromHash /\ call'.url = Location
    BY <1>0, <2>1, <2>2, LocationType, RequestsAre
  <2> QED
    BY <1>0, <2>1, <2>2, <2>3 DEF Nothing, CalmFits, Leads, Location, ShowsLocation,
       ChangeFits, LockHasReason
<1>6. CASE Follow
  <2>1. /\ call = None /\ Idle /\ activePage = Location
        /\ UNCHANGED <<entries, position, activePage, isPageTransitioning, pageTransitionQueue,
                       loading, held, transition, timers>>
    BY <1>6 DEF Follow, UserActs, Certain, browser, pages, CalmFits, ShowsLocation
  <2>2. PICK url \in Urls : call' = Request(url, FALSE, FALSE)
    BY <1>6 DEF Follow
  <2>3. call' \in Requests /\ ~call'.fromHash
    BY <2>2, RequestsAre
  <2> QED
    BY <1>0, <2>1, <2>3 DEF Nothing, CalmFits, Leads, Location, ShowsLocation, Idle
<1>7. CASE Back
  <2>1. /\ call = None /\ ~isPageTransitioning /\ timers = <<>>
        /\ timers' = Append(timers, told'.url) /\ told'.url = Location'
        /\ UNCHANGED <<activePage, isPageTransitioning, pageTransitionQueue, call, loading,
                       held, transition>>
    BY <1>0, <1>7, BackTells DEF Back, UserActs, Idle, Certain, pages, lock
  <2>2. timers' = <<Location'>>
    BY <2>1
  <2>3. loading = None /\ transition = None
    BY <1>0, <2>1 DEF ChangeFits, LockHasReason
  <2> QED
    BY <2>1, <2>2, <2>3 DEF CalmFits, ShowsLocation, Idle
<1>8. \/ Turn \/ Answer \/ OutDone \/ InDone \/ NavigateEvent \/ Follow \/ Back
      \/ ListenerSettles
      \/ UNCHANGED <<navigation, pages, lock, loading, held, transition, timers>>
  BY DEF PagesNext, ShowMessage, HideMessage, vars
<1>9. ~ListenerSettles
  BY DEF ListenerSettles, CalmFits
<1> QED
  BY <1>1, <1>2, <1>3, <1>4, <1>5, <1>6, <1>7, <1>8, <1>9, CalmTurns

(* However links, the back button, answers of the server, listeners that   *)
(* prevent and animations interleave: between two changes just the active  *)
(* page is shown, and the document has it; the lock is held for one load,  *)
(* one request that a listener took over or one transition and never for   *)
(* nothing; and a user who waits for every change sees the page of the     *)
(* location, where listeners prevent nothing.                              *)
THEOREM PagesAreShown == ASSUME PagesAssumption PROVE PagesSpec => []PagesFit
<1> DEFINE Calmly == Certain => CalmFits
<1>1. PagesInv /\ Calmly => PagesFit
  <2> SUFFICES ASSUME PagesInv, Calmly PROVE PagesFit
    OBVIOUS
  <2>1. pageTransitionQueue \in Seq(Requests) /\ {loading, held} \subseteq Requests \cup {None}
    <3>1. Asks \subseteq Requests
      BY AsksAre
    <3>2. pageTransitionQueue \in Seq(Asks) /\ {loading, held} \subseteq Asks \cup {None}
      BY DEF PagesInv, RequestsFit
    <3> QED
      BY <3>1, <3>2
  <2>2. PagesTypeOK
    <3>1. TypeOK /\ timers \in Seq(Urls) /\ isPageTransitioning \in BOOLEAN
      BY DEF PagesInv, HistoryFits
    <3>2. /\ dom \subseteq Urls /\ shown \subseteq Urls /\ activePage \in Urls \cup {None}
          /\ transition = None \/ transition \in Transitions
          /\ call \in Requests \cup {None}
      BY DEF PagesInv, DomFits, ShownFits, RequestsFit
    <3>3. LoaderFits
      BY DEF PagesInv
    <3> QED
      BY <2>1, <3>1, <3>2, <3>3 DEF PagesTypeOK, LoaderFits
  <2>3. OnePageShown /\ ShownPagesExist /\ LockHasReason
    BY DEF PagesInv, ShownFits, DomFits, OnePageShown, ShownPagesExist
  <2>4. Certain => ShowsLocation
    BY DEF CalmFits
  <2> QED
    BY <2>2, <2>3, <2>4 DEF PagesFit
<1>2. PagesInit => PagesInv /\ Calmly
  BY PagesInitial, CalmInitial
<1>3. PagesInv /\ Calmly /\ [PagesNext]_vars => PagesInv' /\ Calmly'
  <2> SUFFICES ASSUME PagesInv, Calmly, [PagesNext]_vars PROVE PagesInv' /\ Calmly'
    OBVIOUS
  <2>1. PagesInv'
    BY PagesInvNext
  <2>2. ASSUME Certain PROVE CalmFits'
    BY <2>2, CalmNext
  <2> QED
    BY <2>1, <2>2 DEF Certain
<1> HIDE DEF Calmly
<1> QED
  BY <1>1, <1>2, <1>3, PTL DEF PagesSpec

-----------------------------------------------------------------------------
(* The polling for a changed hash *)

CONSTANTS Hashes, Frame, Reentrant, MaxChanges, MaxBindings

VARIABLES hash, last_hash, bound, ready, whenReady, timeout_id, otherTimers, depth, frame,
          frameEntries, framePosition, changes, bindings

HP == INSTANCE HashPoll WITH entries <- frameEntries, position <- framePosition

Steps == {"start", "stop"}

HashType ==
  /\ hash \in Hashes /\ last_hash \in Hashes /\ bound \in BOOLEAN /\ ready \in BOOLEAN
  /\ whenReady \in Seq(Steps) /\ timeout_id \in {"undefined", "set", "over"}
  /\ changes \in 0..MaxChanges /\ bindings \in 0..MaxBindings

FrameType ==
  /\ frame \in {"none", "loading", "loaded"}
  /\ frameEntries \in Seq(Hashes) /\ framePosition \in 0..Len(frameEntries)

(* What waits until the DOM is ready leads to what was bound last.         *)
WaitFits ==
  /\ ready => whenReady = <<>>
  /\ whenReady # <<>> => (whenReady[Len(whenReady)] = "start" <=> bound)

(* Without a frame: when no handler runs, a loop polls or none was begun.  *)
PolledFits ==
  /\ depth = 0 => timeout_id # "over"
  /\ whenReady = <<>> /\ depth = 0 /\ bound => timeout_id = "set"

(* With handlers that leave the event alone: there is one loop, and start  *)
(* and stop wait in turn.                                                  *)
Runs == timeout_id = "set" \/ depth = 1

OnceFits ==
  /\ otherTimers = 0 /\ depth \in {0, 1} /\ (depth = 1 => timeout_id # "set")
  /\ whenReady = <<>> => (Runs <=> bound)
  /\ whenReady # <<>> => (whenReady[1] = "start" <=> ~Runs)
  /\ \A i \in 1..(Len(whenReady) - 1) : whenReady[i] # whenReady[i + 1]

(* With a frame: nothing polls before it is there, and then it has an      *)
(* entry.                                                                  *)
FramedFits ==
  /\ otherTimers = 0 /\ depth \in {0, 1} /\ (depth = 1 => timeout_id # "set")
  /\ frame # "loaded" => timeout_id = "undefined" /\ depth = 0
  /\ frame = "loaded" => framePosition \in 1..Len(frameEntries)
  /\ HP!NoEntryTwice

LoopInv ==
  /\ HashType /\ FrameType /\ otherTimers \in Nat /\ depth \in Nat /\ WaitFits
  /\ ~Frame => frame = "none" /\ PolledFits
  /\ ~Frame /\ ~Reentrant => OnceFits
  /\ Frame => FramedFits

LEMMA LoopInit == HP!HashPollAssumption /\ HP!Init => LoopInv
<1> SUFFICES ASSUME HP!HashPollAssumption, HP!Init PROVE LoopInv
  OBVIOUS
<1>1. /\ hash \in Hashes /\ last_hash = hash /\ bound = FALSE /\ ready = FALSE /\ whenReady = <<>>
      /\ timeout_id = "undefined" /\ otherTimers = 0 /\ depth = 0
      /\ frame = "none" /\ frameEntries = <<>> /\ framePosition = 0
      /\ changes = 0 /\ bindings = 0
  BY DEF HP!Init
<1>2. HashType
  <2>1. whenReady \in Seq(Steps)
    BY <1>1
  <2>2. changes \in 0..MaxChanges /\ bindings \in 0..MaxBindings
    BY <1>1 DEF HP!HashPollAssumption
  <2> QED
    BY <1>1, <2>1, <2>2 DEF HashType
<1>3. FrameType
  BY <1>1 DEF FrameType
<1>4. WaitFits /\ PolledFits /\ OnceFits
  BY <1>1 DEF WaitFits, PolledFits, OnceFits, Runs
<1>5. FramedFits
  BY <1>1 DEF FramedFits, HP!NoEntryTwice
<1> QED
  BY <1>1, <1>2, <1>3, <1>4, <1>5 DEF LoopInv

Entered ==
  /\ frameEntries' \in Seq(Hashes) /\ framePosition' \in 1..Len(frameEntries')
  /\ HP!NoEntryTwice'

(* The history in the frame after history_set.                             *)
LEMMA SetFits ==
  ASSUME FrameType, Frame, hash \in Hashes, HP!NoEntryTwice,
         framePosition \in 1..Len(frameEntries), HP!history_set(HP!history_get)
  PROVE  Entered
<1>0. frameEntries \in Seq(Hashes) /\ framePosition \in 0..Len(frameEntries)
  BY DEF FrameType
<1>1. CASE HP!Writes(HP!history_get)
  <2>1. hash # frameEntries[framePosition]
    BY <1>1 DEF HP!Writes, HP!history_get
  <2>2. /\ frameEntries' = Append(SubSeq(frameEntries, 1, framePosition), hash)
        /\ framePosition' = framePosition + 1
    BY <1>1 DEF HP!history_set, HP!Behind
  <2>3. /\ frameEntries' \in Seq(Hashes) /\ Len(frameEntries') = framePosition + 1
        /\ frameEntries'[framePosition + 1] = hash
        /\ \A i \in 1..framePosition : frameEntries'[i] = frameEntries[i]
    BY <1>0, <2>2, CutAndAppended
  <2>4. ASSUME NEW i \in 1..(Len(frameEntries') - 1)
        PROVE  frameEntries'[i] # frameEntries'[i + 1]
    <3>1. CASE i = framePosition
      BY <2>1, <2>3, <2>4, <3>1
    <3>2. CASE i # framePosition
      <4>1. i \in 1..framePosition /\ i + 1 \in 1..framePosition /\ i \in 1..(Len(frameEntries) - 1)
        BY <1>0, <2>3, <2>4, <3>2
      <4> QED
        BY <2>3, <4>1 DEF HP!NoEntryTwice
    <3> QED
      BY <3>1, <3>2
  <2> QED
    BY <1>0, <2>2, <2>3, <2>4 DEF Entered, HP!NoEntryTwice
<1>2. CASE ~HP!Writes(HP!history_get)
  BY <1>0, <1>2 DEF HP!history_set, Entered, HP!NoEntryTwice
<1> QED
  BY <1>1, <1>2

(* What start and stop do.                                                 *)
Begun(step) ==
  /\ hash' \in Hashes /\ last_hash' \in Hashes /\ timeout_id' \in {"undefined", "set", "over"}
  /\ otherTimers' \in Nat /\ depth' \in Nat
  /\ UNCHANGED <<frameEntries, framePosition>>
  /\ frame' \in {"none", "loading", "loaded"}
  /\ ~Frame => /\ frame' = frame
               /\ step = "stop" => timeout_id' = "undefined" /\ depth' = depth
               /\ step = "start" /\ PolledFits =>
                    (depth' = 0 => timeout_id' = "set")
               /\ depth = 0 /\ timeout_id # "over" =>
                    /\ otherTimers' = otherTimers /\ depth' \in {0, 1}
                    /\ depth' = 1 => timeout_id' # "set"
                    /\ (timeout_id' = "set" \/ depth' = 1) <=> step = "start"
  /\ Frame => /\ UNCHANGED <<otherTimers, depth, timeout_id>>
              /\ frame' = "loaded" <=> frame = "loaded"

LEMMA CallFits ==
  ASSUME LoopInv, NEW step \in Steps, HP!Call(step)
  PROVE  Begun(step)
<1>0. HashType /\ FrameType /\ otherTimers \in Nat /\ depth \in Nat
  BY DEF LoopInv
<1>1. CASE step = "stop"
  <2>1. /\ timeout_id' = (IF Frame THEN timeout_id ELSE "undefined")
        /\ UNCHANGED <<hash, last_hash, otherTimers, depth, frame, frameEntries, framePosition>>
    BY <1>1 DEF HP!Call, HP!stop, HP!Cleared, HP!iframe
  <2> QED
    BY <1>0, <1>1, <2>1 DEF Begun, HashType, FrameType
<1>2. CASE step = "start" /\ Frame
  <2>1. /\ frame' = (IF frame = "none" THEN "loading" ELSE frame)
        /\ UNCHANGED <<hash, last_hash, timeout_id, otherTimers, depth, frameEntries, framePosition>>
    BY <1>2 DEF HP!Call, HP!start, HP!timers
  <2> QED
    BY <1>0, <1>2, <2>1 DEF Begun, HashType, FrameType
<1>3. CASE step = "start" /\ ~Frame
  <2>1. CASE timeout_id # "undefined"
    <3>1. UNCHANGED <<hash, last_hash, timeout_id, otherTimers, depth, frame, frameEntries,
                      framePosition>>
      BY <1>3, <2>1 DEF HP!Call, HP!start, HP!Starts, HP!timers, HP!iframe
    <3> QED
      BY <1>0, <1>3, <2>1, <3>1 DEF Begun, HashType, FrameType, PolledFits
  <2>2. CASE timeout_id = "undefined"
    <3>1. HP!poll(timeout_id) /\ UNCHANGED frame
      BY <1>3, <2>2 DEF HP!Call, HP!start, HP!Starts
    <3>2. CASE hash # last_hash
      <4>1. /\ last_hash' = hash /\ depth' = depth + 1 /\ timeout_id' = "undefined"
            /\ UNCHANGED <<hash, otherTimers, frameEntries, framePosition>>
        BY <1>3, <2>2, <3>1, <3>2 DEF HP!poll, HP!Seen, HP!history_set
      <4> QED
        BY <1>0, <1>3, <3>1, <4>1 DEF Begun, HashType, FrameType
    <3>3. CASE hash = last_hash
      <4>1. /\ hash' = last_hash /\ timeout_id' = "set" /\ otherTimers' = otherTimers
            /\ UNCHANGED <<last_hash, depth, frameEntries, framePosition>>
        BY <1>0, <1>3, <2>2, <3>1, <3>3 DEF HP!poll, HP!Follows, HP!history_get, HP!Armed
      <4> QED
        BY <1>0, <1>3, <3>1, <4>1 DEF Begun, HashType, FrameType
    <3> QED
      BY <3>2, <3>3
  <2> QED
    BY <2>1, <2>2
<1> QED
  BY <1>1, <1>2, <1>3 DEF HP!Call

LEMMA BindFits == ASSUME HP!HashPollAssumption, LoopInv, HP!Bind PROVE LoopInv'
<1> DEFINE step == IF bound THEN "stop" ELSE "start"
<1>0. HashType /\ FrameType /\ otherTimers \in Nat /\ depth \in Nat /\ WaitFits
  BY DEF LoopInv
<1>1. /\ bound' = ~bound /\ bound' \in BOOLEAN /\ UNCHANGED <<ready, changes>>
      /\ bindings' \in 0..MaxBindings /\ step \in Steps /\ (depth > 0 => Reentrant)
  BY <1>0 DEF HP!Bind, HP!MayAct, HashType, HP!HashPollAssumption, Steps
<1>2. CASE ready /\ HP!Call(step) /\ UNCHANGED whenReady
  <2>1. Begun(step) /\ whenReady = <<>>
    BY <1>0, <1>1, <1>2, CallFits DEF WaitFits
  <2>2. HashType' /\ FrameType' /\ otherTimers' \in Nat /\ depth' \in Nat /\ WaitFits'
    BY <1>0, <1>1, <1>2, <2>1 DEF HashType, FrameType, Begun, WaitFits
  <2>3. ~Frame => frame' = "none" /\ PolledFits'
    BY <1>0, <1>1, <1>2, <2>1 DEF LoopInv, Begun, PolledFits, HashType
  <2>4. ASSUME ~Frame, ~Reentrant PROVE OnceFits'
    <3>1. OnceFits /\ PolledFits /\ depth = 0
      BY <1>0, <1>1, <2>4 DEF LoopInv
    <3>2. timeout_id # "over"
      BY <3>1 DEF PolledFits
    <3>3. /\ otherTimers' = 0 /\ depth' \in {0, 1} /\ (depth' = 1 => timeout_id' # "set")
          /\ (timeout_id' = "set" \/ depth' = 1) <=> step = "start"
      BY <2>1, <2>4, <3>1, <3>2 DEF Begun, OnceFits
    <3>4. step = "start" <=> bound'
      BY <1>1
    <3>5. whenReady' = <<>>
      BY <1>2, <2>1
    <3>6. \A i \in 1..(Len(whenReady') - 1) : whenReady'[i] # whenReady'[i + 1]
      BY <3>5
    <3> QED
      BY <3>3, <3>4, <3>5, <3>6 DEF OnceFits, Runs
  <2>5. Frame => FramedFits'
    BY <1>0, <2>1 DEF LoopInv, Begun, FramedFits, HP!NoEntryTwice
  <2> QED
    BY <2>2, <2>3, <2>4, <2>5 DEF LoopInv
<1>3. CASE ~ready /\ whenReady' = Append(whenReady, step)
             /\ UNCHANGED <<hash, last_hash, timeout_id, otherTimers, depth, frame, frameEntries,
                            framePosition>>
  <2>1. /\ whenReady \in Seq(Steps) /\ whenReady' \in Seq(Steps)
        /\ Len(whenReady') = Len(whenReady) + 1 /\ whenReady'[Len(whenReady')] = step
        /\ \A i \in 1..Len(whenReady) : whenReady'[i] = whenReady[i]
    BY <1>0, <1>1, <1>3 DEF HashType
  <2>2. whenReady' # <<>> /\ Len(whenReady) \in Nat
    BY <2>1
  <2>3. HashType' /\ FrameType' /\ WaitFits'
    BY <1>0, <1>1, <1>3, <2>1, <2>2 DEF HashType, FrameType, WaitFits
  <2>4. ~Frame => frame' = "none" /\ PolledFits'
    BY <1>3, <2>2 DEF LoopInv, PolledFits
  <2>5. ASSUME ~Frame, ~Reentrant PROVE OnceFits'
    <3>1. OnceFits
      BY <2>5 DEF LoopInv
    <3>2. CASE whenReady = <<>>
      <4>1. Len(whenReady') = 1 /\ whenReady'[1] = step
        BY <2>1, <3>2
      <4> QED
        BY <1>1, <1>3, <2>2, <3>1, <3>2, <4>1 DEF OnceFits, Runs
    <3>3. CASE whenReady # <<>>
      <4>1. Len(whenReady) >= 1 /\ whenReady'[1] = whenReady[1]
        BY <2>1, <3>3
      <4>2. whenReady[Len(whenReady)] # step
        BY <1>0, <3>3 DEF WaitFits
      <4>3. ASSUME NEW i \in 1..(Len(whenReady') - 1) PROVE whenReady'[i] # whenReady'[i + 1]
        <5>1. CASE i = Len(whenReady)
          BY <2>1, <2>2, <4>1, <4>2, <5>1
        <5>2. CASE i # Len(whenReady)
          <6>1. i \in 1..(Len(whenReady) - 1) /\ i + 1 \in 1..Len(whenReady) /\ i \in 1..Len(whenReady)
            BY <2>1, <2>2, <4>3, <5>2
          <6> QED
            BY <2>1, <3>1, <6>1 DEF OnceFits
        <5> QED
          BY <5>1, <5>2
      <4> QED
        BY <1>3, <2>2, <3>1, <3>3, <4>1, <4>3 DEF OnceFits, Runs
    <3> QED
      BY <3>2, <3>3
  <2>6. Frame => FramedFits'
    BY <1>3 DEF LoopInv, FramedFits, HP!NoEntryTwice
  <2> QED
    BY <1>0, <1>3, <2>3, <2>4, <2>5, <2>6 DEF LoopInv
<1> QED
  BY <1>2, <1>3 DEF HP!Bind, HP!timers, HP!iframe

LEMMA ReadyFits == ASSUME LoopInv, HP!DOMReady PROVE LoopInv'
<1>0. HashType /\ FrameType /\ otherTimers \in Nat /\ depth \in Nat /\ WaitFits
  BY DEF LoopInv
<1>1. depth = 0 /\ ~ready /\ UNCHANGED <<bound, changes, bindings>>
  BY DEF HP!DOMReady, HP!bounds
<1>2. CASE whenReady = <<>> /\ ready' = TRUE
             /\ UNCHANGED <<hash, last_hash, timeout_id, otherTimers, depth, frame, frameEntries,
                            framePosition, whenReady>>
  <2>1. HashType' /\ FrameType' /\ WaitFits'
    BY <1>0, <1>1, <1>2 DEF HashType, FrameType, WaitFits
  <2> QED
    BY <1>0, <1>1, <1>2, <2>1 DEF LoopInv, PolledFits, OnceFits, Runs, FramedFits, HP!NoEntryTwice
<1>3. CASE whenReady # <<>> /\ HP!Call(Head(whenReady)) /\ whenReady' = Tail(whenReady)
             /\ ready' = ready
  <2> DEFINE step == Head(whenReady)
  <2>1. /\ whenReady \in Seq(Steps) /\ Len(whenReady) \in Nat /\ Len(whenReady) >= 1
        /\ step \in Steps /\ step = whenReady[1]
        /\ whenReady' \in Seq(Steps) /\ Len(whenReady') = Len(whenReady) - 1
        /\ \A i \in 1..(Len(whenReady) - 1) : whenReady'[i] = whenReady[i + 1]
    BY <1>0, <1>3 DEF HashType
  <2>2. Begun(step)
    BY <1>3, <2>1, CallFits
  <2> HIDE DEF step
  <2>3. HashType' /\ FrameType' /\ otherTimers' \in Nat /\ depth' \in Nat
    BY <1>0, <1>1, <1>3, <2>1, <2>2 DEF HashType, FrameType, Begun
  <2>4. whenReady' = <<>> <=> Len(whenReady) = 1
    BY <2>1
  <2>5. WaitFits'
    <3>1. whenReady' # <<>> => whenReady'[Len(whenReady')] = whenReady[Len(whenReady)]
      BY <2>1, <2>4
    <3> QED
      BY <1>0, <1>1, <1>3, <3>1 DEF WaitFits
  <2>6. ~Frame => frame' = "none" /\ PolledFits'
    <3>1. ASSUME ~Frame PROVE PolledFits'
      <4>1. PolledFits
        BY <3>1 DEF LoopInv
      <4>2. timeout_id # "over"
        BY <1>1, <4>1 DEF PolledFits
      <4>3. CASE step = "start"
        BY <1>0, <2>2, <3>1, <4>1, <4>3 DEF Begun, PolledFits, HashType
      <4>4. CASE step = "stop"
        <5>1. timeout_id' = "undefined"
          BY <2>2, <3>1, <4>4 DEF Begun
        <5>2. whenReady' = <<>> => ~bound'
          BY <1>0, <1>1, <1>3, <2>1, <2>4, <4>4 DEF WaitFits
        <5> QED
          BY <5>1, <5>2 DEF PolledFits
      <4> QED
        BY <2>1, <4>3, <4>4 DEF Steps
    <3> QED
      BY <2>2, <3>1 DEF LoopInv, Begun
  <2>7. ASSUME ~Frame, ~Reentrant PROVE OnceFits'
    <3>1. OnceFits /\ timeout_id # "over"
      BY <1>1, <2>7 DEF LoopInv, PolledFits
    <3>2. /\ otherTimers' = 0 /\ depth' \in {0, 1} /\ (depth' = 1 => timeout_id' # "set")
          /\ (timeout_id' = "set" \/ depth' = 1) <=> step = "start"
      BY <1>1, <2>2, <2>7, <3>1 DEF Begun, OnceFits
    <3>3. whenReady' = <<>> => ((timeout_id' = "set" \/ depth' = 1) <=> bound')
      BY <1>0, <1>1, <1>3, <2>1, <2>4, <3>2 DEF WaitFits
    <3>4. ASSUME whenReady' # <<>> PROVE whenReady'[1] = "start" <=> step # "start"
      <4>1. Len(whenReady) >= 2 /\ whenReady'[1] = whenReady[2]
        BY <2>1, <2>4, <3>4
      <4>2. whenReady[1] # whenReady[2] /\ whenReady[2] \in Steps
        BY <2>1, <3>1, <4>1 DEF OnceFits
      <4> QED
        BY <2>1, <4>1, <4>2 DEF Steps
    <3>5. ASSUME NEW i \in 1..(Len(whenReady') - 1) PROVE whenReady'[i] # whenReady'[i + 1]
      <4>1. /\ i \in 1..(Len(whenReady) - 1) /\ i + 1 \in 1..(Len(whenReady) - 1)
        BY <2>1, <3>5
      <4>2. whenReady'[i] = whenReady[i + 1] /\ whenReady'[i + 1] = whenReady[(i + 1) + 1]
        BY <2>1, <4>1
      <4> QED
        BY <3>1, <4>1, <4>2 DEF OnceFits
    <3> QED
      BY <3>2, <3>3, <3>4, <3>5 DEF OnceFits, Runs
  <2>8. Frame => FramedFits'
    BY <2>2 DEF LoopInv, Begun, FramedFits, HP!NoEntryTwice
  <2> QED
    BY <2>3, <2>5, <2>6, <2>7, <2>8 DEF LoopInv
<1> QED
  BY <1>2, <1>3 DEF HP!DOMReady, HP!timers, HP!iframe

LEMMA ReturnFits == ASSUME LoopInv, HP!HandlersReturn PROVE LoopInv'
<1>0. HashType /\ FrameType /\ otherTimers \in Nat /\ depth \in Nat /\ WaitFits
  BY DEF LoopInv
<1>1. /\ depth > 0 /\ depth' = depth - 1 /\ timeout_id' = "set"
      /\ otherTimers' = otherTimers + (IF timeout_id = "set" THEN 1 ELSE 0)
      /\ UNCHANGED <<hash, last_hash, bound, ready, whenReady, frame, frameEntries, framePosition,
                     changes, bindings>>
  BY DEF HP!HandlersReturn, HP!AfterHandlers, HP!Armed, HP!iframe, HP!bounds
<1>2. HashType' /\ FrameType' /\ otherTimers' \in Nat /\ depth' \in Nat /\ WaitFits'
  BY <1>0, <1>1 DEF HashType, FrameType, WaitFits
<1>3. ~Frame => frame' = "none" /\ PolledFits'
  BY <1>1 DEF LoopInv, PolledFits
<1>4. ~Frame /\ ~Reentrant => OnceFits'
  BY <1>0, <1>1 DEF LoopInv, OnceFits, Runs
<1>5. Frame => FramedFits'
  BY <1>0, <1>1 DEF LoopInv, FramedFits, HP!NoEntryTwice
<1> QED
  BY <1>2, <1>3, <1>4, <1>5 DEF LoopInv

LEMMA TimerFits == ASSUME LoopInv, HP!TimerRunsOut PROVE LoopInv'
<1>0. HashType /\ FrameType /\ otherTimers \in Nat /\ depth \in Nat /\ WaitFits
  BY DEF LoopInv
<1>1. depth = 0 /\ UNCHANGED <<bound, ready, whenReady, frame, changes, bindings>>
  BY DEF HP!TimerRunsOut, HP!bounds
<1>2. Frame => framePosition \in 1..Len(frameEntries) /\ HP!NoEntryTwice /\ timeout_id = "set"
  BY DEF HP!TimerRunsOut, LoopInv, FramedFits
<1>3. CASE /\ hash # last_hash /\ last_hash' = hash /\ depth' = depth + 1
           /\ HP!history_set(HP!history_get) /\ hash' = hash
           /\ otherTimers' \in Nat /\ (otherTimers = 0 => otherTimers' = 0 /\ timeout_id' = "over")
           /\ timeout_id' \in {"undefined", "set", "over"}
  <2>1. Frame => Entered
    BY <1>0, <1>2, <1>3, SetFits DEF HashType
  <2>2. ~Frame => UNCHANGED <<frameEntries, framePosition>>
    BY <1>3 DEF HP!history_set
  <2>3. HashType' /\ WaitFits' /\ depth' \in Nat /\ depth' = 1
    BY <1>0, <1>1, <1>3 DEF HashType, WaitFits
  <2>4. FrameType'
    BY <1>0, <1>1, <2>1, <2>2 DEF FrameType, Entered
  <2>5. ~Frame => frame' = "none" /\ PolledFits'
    BY <1>1, <2>3 DEF LoopInv, PolledFits
  <2>6. ASSUME ~Frame, ~Reentrant PROVE OnceFits'
    <3>1. OnceFits /\ otherTimers' = 0 /\ timeout_id' = "over" /\ timeout_id = "set"
      BY <1>3, <2>6 DEF LoopInv, OnceFits, HP!TimerRunsOut
    <3> QED
      BY <1>1, <2>3, <3>1 DEF OnceFits, Runs
  <2>7. ASSUME Frame PROVE FramedFits'
    <3>1. FramedFits /\ otherTimers' = 0 /\ timeout_id' = "over" /\ frame = "loaded"
      BY <1>2, <1>3, <2>7 DEF LoopInv, FramedFits
    <3> QED
      BY <1>1, <2>1, <2>3, <2>7, <3>1 DEF FramedFits, Entered
  <2> QED
    BY <1>3, <2>3, <2>4, <2>5, <2>6, <2>7 DEF LoopInv
<1>4. CASE /\ hash' = HP!history_get /\ timeout_id' = "set" /\ otherTimers' \in Nat
           /\ (otherTimers = 0 => otherTimers' = 0)
           /\ UNCHANGED <<last_hash, depth, frameEntries, framePosition>>
  <2>1. hash' \in Hashes
    BY <1>0, <1>2, <1>4 DEF HP!history_get, HashType, FrameType
  <2>2. HashType' /\ FrameType' /\ WaitFits' /\ depth' \in Nat
    BY <1>0, <1>1, <1>4, <2>1 DEF HashType, FrameType, WaitFits
  <2>3. ~Frame => frame' = "none" /\ PolledFits'
    BY <1>1, <1>4 DEF LoopInv, PolledFits
  <2>4. ASSUME ~Frame, ~Reentrant PROVE OnceFits'
    <3>1. OnceFits /\ timeout_id = "set"
      BY <2>4 DEF LoopInv, OnceFits, HP!TimerRunsOut
    <3> QED
      BY <1>1, <1>4, <3>1 DEF OnceFits, Runs
  <2>5. ASSUME Frame PROVE FramedFits'
    <3>1. FramedFits /\ frame = "loaded"
      BY <1>2, <2>5 DEF LoopInv, FramedFits
    <3> QED
      BY <1>1, <1>4, <3>1 DEF FramedFits, HP!NoEntryTwice
  <2> QED
    BY <1>4, <2>2, <2>3, <2>4, <2>5 DEF LoopInv
<1>5. ASSUME timeout_id = "set", HP!poll("over") PROVE LoopInv'
  <2>1. CASE hash # last_hash
    BY <1>0, <1>3, <1>5, <2>1 DEF HP!poll, HP!Seen
  <2>2. CASE hash = last_hash
    BY <1>0, <1>4, <1>5, <2>2 DEF HP!poll, HP!Follows, HP!Armed
  <2> QED
    BY <2>1, <2>2
<1>6. ASSUME otherTimers > 0, hash # last_hash, HP!Seen, HP!history_set(HP!history_get),
             otherTimers' = otherTimers - 1, UNCHANGED <<hash, timeout_id>>
      PROVE  LoopInv'
  BY <1>0, <1>3, <1>6 DEF HP!Seen, HashType
<1>7. ASSUME otherTimers > 0, hash' = HP!Follows, timeout_id' = "set",
             otherTimers' = IF timeout_id = "set" THEN otherTimers ELSE otherTimers - 1,
             UNCHANGED <<last_hash, depth, frameEntries, framePosition>>
      PROVE  LoopInv'
  BY <1>0, <1>4, <1>7 DEF HP!Follows
<1> QED
  BY <1>5, <1>6, <1>7 DEF HP!TimerRunsOut

LEMMA FrameLoadsFits == ASSUME LoopInv, HP!FrameLoads PROVE LoopInv'
<1>0. HashType /\ FrameType /\ otherTimers \in Nat /\ depth \in Nat /\ WaitFits
  BY DEF LoopInv
<1>1. /\ Frame /\ FramedFits /\ frame # "loaded" /\ frame' = "loaded" /\ depth = 0
      /\ timeout_id = "undefined" /\ otherTimers = 0
      /\ frameEntries' = <<hash>> /\ framePosition' = 1
      /\ UNCHANGED <<hash, bound, ready, whenReady, changes, bindings>>
  BY DEF LoopInv, HP!FrameLoads, FramedFits, HP!bounds
<1>2. frameEntries' \in Seq(Hashes) /\ Len(frameEntries') = 1
  <2>1. hash \in Hashes
    BY <1>0 DEF HashType
  <2> QED
    BY <1>1, <2>1
<1>3. /\ last_hash' \in Hashes /\ otherTimers' = 0 /\ depth' \in {0, 1}
      /\ timeout_id' \in {"undefined", "set"} /\ (depth' = 1 => timeout_id' # "set")
  BY <1>0, <1>1 DEF HP!FrameLoads, HP!Seen, HP!Armed, HP!timers, HashType
<1>4. HashType' /\ FrameType' /\ WaitFits'
  BY <1>0, <1>1, <1>2, <1>3 DEF HashType, FrameType, WaitFits
<1>5. FramedFits'
  BY <1>1, <1>2, <1>3 DEF FramedFits, HP!NoEntryTwice
<1> QED
  BY <1>1, <1>3, <1>4, <1>5 DEF LoopInv

LEMMA ChangeFitsHash == ASSUME HP!HashPollAssumption, LoopInv, HP!Change PROVE LoopInv'
<1>0. HashType /\ FrameType /\ otherTimers \in Nat /\ depth \in Nat /\ WaitFits
  BY DEF LoopInv
<1>1. UNCHANGED <<last_hash, bound, ready, whenReady, timeout_id, otherTimers, depth, frame,
                  frameEntries, bindings>>
  BY DEF HP!Change, HP!timers
<1>2. changes' \in 0..MaxChanges
  BY <1>0 DEF HP!Change, HashType, HP!HashPollAssumption
<1>3. hash' \in Hashes /\ framePosition' \in 0..Len(frameEntries)
      /\ (framePosition' = framePosition \/ framePosition' \in 1..Len(frameEntries))
  <2>1. DOMAIN frameEntries = 1..Len(frameEntries)
    BY <1>0 DEF FrameType
  <2> QED
    BY <1>0, <2>1 DEF HP!Change, HashType, FrameType
<1>4. HashType' /\ FrameType' /\ WaitFits'
  BY <1>0, <1>1, <1>2, <1>3 DEF HashType, FrameType, WaitFits
<1>5. (~Frame => PolledFits') /\ (~Frame /\ ~Reentrant => OnceFits')
  BY <1>1 DEF LoopInv, PolledFits, OnceFits, Runs
<1>6. Frame => FramedFits'
  BY <1>1, <1>3 DEF LoopInv, FramedFits, HP!NoEntryTwice
<1> QED
  BY <1>0, <1>1, <1>4, <1>5, <1>6 DEF LoopInv

LEMMA LoopNext == HP!HashPollAssumption /\ LoopInv /\ [HP!Next]_(HP!vars) => LoopInv'
<1> SUFFICES ASSUME HP!HashPollAssumption, LoopInv, HP!Next \/ UNCHANGED HP!vars PROVE LoopInv'
  OBVIOUS
<1>1. CASE UNCHANGED HP!vars
  BY <1>1 DEF HP!vars, HP!timers, HP!iframe, HP!bounds, LoopInv, HashType, FrameType, WaitFits,
     PolledFits, OnceFits, Runs, FramedFits, HP!NoEntryTwice
<1> QED
  BY <1>1, BindFits, ReadyFits, ReturnFits, TimerFits, FrameLoadsFits, ChangeFitsHash
  DEF HP!Next

(* A handler that is bound has a loop that polls for it, also when it was  *)
(* bound and unbound before the DOM was ready or from inside a handler;    *)
(* where handlers leave the event alone there is no second loop and none   *)
(* without a handler; and the history in the frame has no entry twice in   *)
(* a row.                                                                  *)
THEOREM OneLoopIsEnough ==
  ASSUME HP!HashPollAssumption PROVE HP!Spec => []HP!OneLoopPolls
<1>1. LoopInv => HP!OneLoopPolls
  <2> SUFFICES ASSUME LoopInv PROVE HP!OneLoopPolls
    OBVIOUS
  <2>1. HP!TypeOK
    BY DEF LoopInv, HashType, FrameType, Steps, HP!TypeOK
  <2>2. HP!OneLoop
    BY DEF LoopInv, OnceFits, FramedFits, HP!OneLoop
  <2>3. ~Frame => HP!BoundIsPolled
    BY DEF LoopInv, WaitFits, PolledFits, HP!BoundIsPolled, HP!Quiet
  <2>4. ~Reentrant => HP!StopStops
    BY DEF LoopInv, WaitFits, OnceFits, Runs, HP!StopStops, HP!Quiet
  <2>5. Frame => HP!NoEntryTwice
    BY DEF LoopInv, FramedFits
  <2> QED
    BY <2>1, <2>2, <2>3, <2>4, <2>5 DEF HP!OneLoopPolls
<1>2. HP!Init => LoopInv
  BY LoopInit
<1>3. LoopInv /\ [HP!Next]_(HP!vars) => LoopInv'
  BY LoopNext
<1> QED
  BY <1>1, <1>2, <1>3, PTL DEF HP!Spec

-----------------------------------------------------------------------------
(* Opening and closing popups *)

CONSTANTS Popups, Pages, PageOf, Start, Keeps, Animated, UserMoves,
          PopupsWait, PopupMoves
VARIABLES popupEntries, popupPosition, boundPopup, asked, events, page, active, popup

P == INSTANCE Popup WITH
  entries <- popupEntries, position <- popupPosition, bound <- boundPopup,
  Calm <- PopupsWait, MaxMoves <- PopupMoves

PopupUrls == [page : Pages, popup : BOOLEAN]

(* A popup opens or is open while its handlers are bound, and closes while *)
(* it is active and nobody's are.                                          *)
PopupFits(p) ==
  /\ popup[p].prereqs = "open" => boundPopup = p
  /\ popup[p].prereqs = "close" => active = p /\ boundPopup = None
  /\ popup[p].shown => boundPopup = p \/ popup[p].prereqs = "close"
  /\ popup[p].isOpen => boundPopup = p /\ popup[p].prereqs # "close"
  /\ ~Animated => popup[p].prereqs = None

(* The popup whose handlers are bound is the active one, on the page that  *)
(* is shown.                                                               *)
BoundFits == boundPopup = None \/ (boundPopup = active /\ page = PageOf[boundPopup])

PopupInv == P!TypeOK /\ BoundFits /\ \A p \in Popups : PopupFits(p)

LEMMA ClosesFields ==
  ASSUME P!PopupAssumption, NEW f \in P!Fields, NEW immediate \in BOOLEAN
  PROVE  /\ P!Closes(f, immediate) \in P!Fields
         /\ P!Closes(f, immediate).isOpen = FALSE
         /\ Animated /\ ~immediate => P!Closes(f, immediate).prereqs = "close"
         /\ ~Animated \/ immediate => /\ P!Closes(f, immediate).prereqs = None
                                     /\ P!Closes(f, immediate).shown = FALSE
BY DEF P!Closes, P!Begins, P!Waits, P!Fields, P!PopupAssumption

LEMMA OpensFields ==
  ASSUME P!PopupAssumption, NEW f \in P!Fields, P!Active \in PopupUrls
  PROVE  /\ P!Opens(f) \in P!Fields
         /\ P!Opens(f).shown = TRUE
         /\ Animated => P!Opens(f).prereqs = "open" /\ P!Opens(f).isOpen = f.isOpen
         /\ ~Animated => P!Opens(f).prereqs = None
BY DEF P!Opens, P!Begins, P!Fields, P!PopupAssumption, PopupUrls
AtRest(f) == f.prereqs = None /\ f.shown = FALSE /\ f.isOpen = FALSE

(* Every popup but the active one is closed and stays so by itself.        *)
LEMMA OthersAtRest ==
  ASSUME P!PopupAssumption, PopupInv, NEW q \in Popups, q # active
  PROVE  AtRest(popup[q])
<1>1. popup[q] \in P!Fields /\ q # None /\ PopupFits(q) /\ boundPopup # q
  BY DEF PopupInv, P!TypeOK, P!PopupAssumption, BoundFits
<1>2. popup[q].prereqs \in {"open", "close", None} /\ popup[q].shown \in BOOLEAN
        /\ popup[q].isOpen \in BOOLEAN
  BY <1>1 DEF P!Fields
<1>3. popup[q].prereqs = None
  BY <1>1, <1>2 DEF PopupFits
<1>4. popup[q].shown = FALSE /\ popup[q].isOpen = FALSE
  BY <1>1, <1>2, <1>3 DEF PopupFits, P!PopupAssumption
<1> QED
  BY <1>3, <1>4 DEF AtRest

LEMMA RestFits ==
  ASSUME P!PopupAssumption, NEW q, AtRest(popup[q])
  PROVE  PopupFits(q)
BY DEF AtRest, PopupFits, P!PopupAssumption

(* _closePopup for the active popup, whatever page is shown next.          *)
LEMMA ClosePopupFits ==
  ASSUME P!PopupAssumption, PopupInv, NEW p \in Popups, active = p,
         NEW immediate \in BOOLEAN, P!ClosePopup(p, immediate)
  PROVE  /\ popup' \in [Popups -> P!Fields] /\ active' \in Popups \cup {None} /\ BoundFits'
         /\ \A q \in Popups : PopupFits(q)'
<1>1. /\ popup \in [Popups -> P!Fields] /\ p # None
      /\ popup' = [popup EXCEPT ![p] = P!Closes(popup[p], immediate)]
      /\ boundPopup' = None
  BY DEF P!ClosePopup, PopupInv, P!TypeOK, P!PopupAssumption
<1>2. /\ P!Closes(popup[p], immediate) \in P!Fields
      /\ P!Closes(popup[p], immediate).isOpen = FALSE
      /\ Animated /\ ~immediate => P!Closes(popup[p], immediate).prereqs = "close"
      /\ ~Animated \/ immediate => AtRest(P!Closes(popup[p], immediate))
  <2>1. popup[p] \in P!Fields
    BY <1>1
  <2> QED
    BY <2>1, ClosesFields DEF AtRest
<1>3. popup' \in [Popups -> P!Fields]
  BY <1>1, <1>2
<1>4. active' \in Popups \cup {None}
  BY DEF P!ClosePopup, P!Released
<1>5. ASSUME NEW q \in Popups PROVE PopupFits(q)'
  <2>1. CASE q # p
    <3>1. popup'[q] = popup[q]
      BY <1>1, <2>1
    <3>2. AtRest(popup[q])
      BY <2>1, OthersAtRest
    <3>3. AtRest(popup'[q])
      BY <3>1, <3>2
    <3> QED
      BY <3>3 DEF AtRest, PopupFits, P!PopupAssumption
  <2>2. CASE q = p
    <3>1. popup'[q] = P!Closes(popup[p], immediate)
      BY <1>1, <2>2
    <3>2. CASE Animated /\ ~immediate
      <4>1. popup'[q].prereqs = "close" /\ popup'[q].isOpen = FALSE
        BY <1>2, <3>1, <3>2
      <4>2. active' = q
        BY <2>2, <3>2 DEF P!ClosePopup, P!Released, P!Waits
      <4> QED
        BY <1>1, <3>2, <4>1, <4>2 DEF PopupFits
    <3>3. CASE ~Animated \/ immediate
      <4>1. AtRest(popup'[q])
        BY <1>2, <3>1, <3>3
      <4> QED
        BY <4>1 DEF AtRest, PopupFits, P!PopupAssumption
    <3> QED
      BY <3>2, <3>3
  <2> QED
    BY <2>1, <2>2
<1> QED
  BY <1>1, <1>3, <1>4, <1>5 DEF BoundFits

(* pagebeforechange leaves no popup bound.                                 *)
LEMMA PageBeforeChangeFits ==
  ASSUME P!PopupAssumption, PopupInv, NEW url, P!PageBeforeChange(url)
  PROVE  /\ popup' \in [Popups -> P!Fields] /\ active' \in Popups \cup {None} /\ boundPopup' = None
         /\ \A q \in Popups : PopupFits(q)'
<1>1. CASE boundPopup = None
  BY <1>1 DEF P!PageBeforeChange, PopupInv, P!TypeOK, PopupFits
<1>2. CASE boundPopup # None
  <2>1. boundPopup \in Popups /\ active = boundPopup
    BY <1>2 DEF PopupInv, P!TypeOK, BoundFits
  <2>2. P!Immediate(url) \in BOOLEAN
    BY DEF P!Immediate
  <2>3. P!ClosePopup(boundPopup, P!Immediate(url))
    BY <1>2 DEF P!PageBeforeChange
  <2>4. boundPopup' = None
    BY <2>3 DEF P!ClosePopup
  <2> QED
    BY <2>1, <2>2, <2>3, <2>4, ClosePopupFits
<1> QED
  BY <1>1, <1>2

LEMMA OpenFits ==
  ASSUME P!PopupAssumption, PopupInv, NEW p \in Popups, P!Open(p)
  PROVE  /\ popup' \in [Popups -> P!Fields] /\ BoundFits'
         /\ \A q \in Popups : PopupFits(q)'
<1> DEFINE fields == P!LeftOpen
           f == P!Opens(fields[p])
<1>1. popup \in [Popups -> P!Fields] /\ P!Active \in PopupUrls
  <2>1. popupEntries \in Seq(PopupUrls) /\ popupPosition \in DOMAIN popupEntries /\ popup \in [Popups -> P!Fields]
    BY DEF PopupInv, P!TypeOK, PopupUrls
  <2>2. popupEntries[popupPosition] \in PopupUrls
    BY <2>1
  <2> QED
    BY <2>1, <2>2 DEF P!Active
<1>2. ASSUME NEW q \in Popups PROVE AtRest(fields[q]) /\ fields[q] \in P!Fields
  <2>1. CASE boundPopup = None
    <3>1. active = None /\ q # None /\ fields = popup
      BY <2>1 DEF P!Open, P!MayOpen, P!PopupAssumption, P!LeftOpen
    <3> QED
      BY <1>1, <3>1, OthersAtRest
  <2>2. CASE boundPopup # None
    <3>1. boundPopup \in Popups /\ active = boundPopup
            /\ fields = [popup EXCEPT ![boundPopup] = P!Closes(popup[boundPopup], TRUE)]
      BY <2>2 DEF PopupInv, P!TypeOK, BoundFits, P!LeftOpen
    <3>2. CASE q = boundPopup
      <4>1. fields[q] = P!Closes(popup[boundPopup], TRUE)
        BY <1>1, <3>1, <3>2
      <4>2. popup[boundPopup] \in P!Fields
        BY <1>1, <3>1
      <4>3. AtRest(P!Closes(popup[boundPopup], TRUE)) /\ P!Closes(popup[boundPopup], TRUE) \in P!Fields
        BY <4>2, ClosesFields DEF AtRest
      <4> QED
        BY <4>1, <4>3
    <3>3. CASE q # boundPopup
      <4>1. fields[q] = popup[q]
        BY <1>1, <3>1, <3>3
      <4> QED
        BY <1>1, <3>1, <3>3, <4>1, OthersAtRest
    <3> QED
      BY <3>2, <3>3
  <2> QED
    BY <2>1, <2>2
<1>3. DOMAIN fields = Popups
  BY <1>1 DEF P!LeftOpen
<1>4. popup' = [fields EXCEPT ![p] = P!Altered(f)]
  BY DEF P!Open
<1> HIDE DEF fields
<1>5. /\ f \in P!Fields /\ f.shown = TRUE
      /\ Animated => f.prereqs = "open" /\ f.isOpen = FALSE
      /\ ~Animated => f.prereqs = None
  BY <1>1, <1>2, OpensFields DEF AtRest
<1> HIDE DEF f
<1>6. /\ popup'[p] \in P!Fields /\ popup'[p].shown = TRUE
      /\ popup'[p].prereqs = f.prereqs /\ popup'[p].isOpen = f.isOpen
  <2>1. popup'[p] = [f EXCEPT !.urlAltered = @ \/ (Keeps /\ ~P!HasHash)]
    BY <1>3, <1>4 DEF P!Altered
  <2>2. (f.urlAltered \/ (Keeps /\ ~P!HasHash)) \in BOOLEAN
    OBVIOUS
  <2> QED
    BY <1>5, <2>1, <2>2 DEF P!Fields
<1>7. ASSUME NEW q \in Popups, q # p PROVE popup'[q] = fields[q]
  BY <1>3, <1>4, <1>7
<1>8. popup' \in [Popups -> P!Fields]
  <2>1. \A q \in Popups : popup'[q] \in P!Fields
    BY <1>2, <1>6, <1>7
  <2>2. DOMAIN popup' = Popups /\ popup' = [q \in DOMAIN popup' |-> popup'[q]]
    BY <1>3, <1>4
  <2> QED
    BY <2>1, <2>2
<1>9. boundPopup' = p /\ active' = p /\ page' = page /\ page = PageOf[p] /\ p # None
  BY DEF P!Open, P!Binds, P!PopupAssumption
<1>10. ASSUME NEW q \in Popups PROVE PopupFits(q)'
  <2>1. CASE q = p
    <3>1. popup'[p].prereqs # "close"
      BY <1>5, <1>6 DEF P!PopupAssumption
    <3> QED
      BY <1>5, <1>6, <1>9, <2>1, <3>1 DEF PopupFits
  <2>2. CASE q # p
    <3>1. AtRest(popup'[q])
      BY <1>2, <1>7, <2>2
    <3> QED
      BY <3>1 DEF AtRest, PopupFits, P!PopupAssumption
  <2> QED
    BY <2>1, <2>2
<1> QED
  BY <1>8, <1>9, <1>10 DEF BoundFits

LEMMA AnimationEndsFits ==
  ASSUME P!PopupAssumption, PopupInv, NEW p \in Popups, P!AnimationEnds(p)
  PROVE  /\ popup' \in [Popups -> P!Fields] /\ active' \in Popups \cup {None} /\ BoundFits'
         /\ \A q \in Popups : PopupFits(q)'
<1> DEFINE kind == popup[p].prereqs
<1>1. /\ popup \in [Popups -> P!Fields] /\ p # None /\ popup[p] \in P!Fields
      /\ kind \in {"open", "close"} /\ PopupFits(p) /\ UNCHANGED <<page, boundPopup>>
  BY DEF PopupInv, P!TypeOK, P!AnimationEnds, P!PopupAssumption, P!Fields
<1>2. popup' = [popup EXCEPT ![p] = [popup[p] EXCEPT !.prereqs = None, !.stale = {},
                  !.isOpen = @ \/ "open" = kind, !.shown = @ /\ "close" # kind]]
  BY DEF P!AnimationEnds, P!Runs
<1>3. /\ popup'[p] \in P!Fields /\ popup'[p].prereqs = None
      /\ popup'[p].isOpen = (popup[p].isOpen \/ "open" = kind)
      /\ popup'[p].shown = (popup[p].shown /\ "close" # kind)
  BY <1>1, <1>2 DEF P!Fields
<1>4. \A q \in Popups : q # p => popup'[q] = popup[q]
  BY <1>1, <1>2
<1>5. popup' \in [Popups -> P!Fields]
  BY <1>1, <1>2, <1>3, <1>4
<1> HIDE DEF kind
<1>6. CASE kind = "open"
  <2>1. boundPopup = p /\ active' = active /\ boundPopup' = p
    BY <1>1, <1>6 DEF PopupFits, P!AnimationEnds, P!Runs, kind
  <2>2. ASSUME NEW q \in Popups PROVE PopupFits(q)'
    <3>1. CASE q = p
      BY <1>3, <2>1, <3>1 DEF PopupFits, P!PopupAssumption
    <3>2. CASE q # p
      <4>1. AtRest(popup'[q])
        BY <1>1, <1>4, <2>1, <3>2, OthersAtRest DEF PopupInv, BoundFits
      <4> QED
        BY <4>1 DEF AtRest, PopupFits, P!PopupAssumption
    <3> QED
      BY <3>1, <3>2
  <2>3. BoundFits' /\ active' \in Popups \cup {None}
    BY <1>1, <2>1 DEF PopupInv, BoundFits, P!TypeOK
  <2> QED
    BY <1>5, <2>2, <2>3
<1>7. CASE kind = "close"
  <2>1. active = p /\ boundPopup' = None /\ active' = None
    BY <1>1, <1>7 DEF PopupFits, P!AnimationEnds, P!Runs, kind
  <2>2. ASSUME NEW q \in Popups PROVE PopupFits(q)'
    <3>1. AtRest(popup'[q])
      <4>1. CASE q = p
        BY <1>1, <1>3, <1>7, <4>1 DEF AtRest, PopupFits, kind, P!Fields
      <4>2. CASE q # p
        BY <1>4, <2>1, <4>2, OthersAtRest
      <4> QED
        BY <4>1, <4>2
    <3> QED
      BY <3>1 DEF AtRest, PopupFits, P!PopupAssumption
  <2> QED
    BY <1>5, <2>1, <2>2 DEF BoundFits
<1> QED
  BY <1>1, <1>6, <1>7 DEF kind
(* The history is never empty and the position is in it.                   *)
PopupHistory == popupEntries \in Seq(PopupUrls) /\ popupPosition \in 1..Len(popupEntries)
QueuesType ==
  /\ asked \in Seq({"back", "forward"})
  /\ events \in Seq([url : PopupUrls, direction : {"back", "forward"}])

(* The first of a sequence and its domain.                                *)
LEMMA DomainOf == ASSUME NEW S, NEW s \in Seq(S) PROVE DOMAIN s = 1..Len(s)
  OBVIOUS

LEMMA PopupType ==
  P!TypeOK <=> /\ PopupHistory /\ QueuesType
               /\ page \in Pages /\ active \in Popups \cup {None} /\ boundPopup \in Popups \cup {None}
               /\ popup \in [Popups -> P!Fields] /\ moves \in 0..PopupMoves
<1>1. popupEntries \in Seq(PopupUrls) => DOMAIN popupEntries = 1..Len(popupEntries)
  OBVIOUS
<1> QED
  BY <1>1 DEF P!TypeOK, PopupHistory, QueuesType, PopupUrls

LEMMA PushedType ==
  ASSUME PopupHistory, NEW entry \in PopupUrls, popupEntries' = P!Pushed(entry), popupPosition' = popupPosition + 1
  PROVE  PopupHistory'
<1>1. popupEntries \in Seq(PopupUrls) /\ popupPosition \in 1..Len(popupEntries) /\ Len(popupEntries) \in Nat
  BY DEF PopupHistory
<1>2. SubSeq(popupEntries, 1, popupPosition) \in Seq(PopupUrls) /\ Len(SubSeq(popupEntries, 1, popupPosition)) = popupPosition
  BY <1>1
<1>3. popupEntries' \in Seq(PopupUrls) /\ Len(popupEntries') = popupPosition + 1
  BY <1>2 DEF P!Pushed
<1> QED
  BY <1>1, <1>3 DEF PopupHistory

LEMMA PopupHistoryNext ==
  ASSUME P!PopupAssumption, P!TypeOK, P!Next \/ UNCHANGED P!vars
  PROVE  PopupHistory'
<1>0. PopupHistory /\ QueuesType /\ page \in Pages
  BY PopupType
<1>1. CASE UNCHANGED <<popupEntries, popupPosition>>
  BY <1>0, <1>1 DEF PopupHistory
<1>2. ASSUME NEW p \in Popups, P!Open(p) PROVE PopupHistory'
  <2>1. P!Entry(P!Active.page, TRUE) \in PopupUrls
    <3>1. popupEntries[popupPosition] \in PopupUrls
      BY <1>0 DEF PopupHistory
    <3> QED
      BY <3>1 DEF P!Entry, P!Active, PopupUrls
  <2> QED
    BY <1>0, <1>1, <1>2, <2>1, PushedType DEF P!Open
<1>3. CASE P!Follow
  <2>1. PICK q \in Pages : popupEntries' = P!Pushed(P!Entry(q, FALSE))
    BY <1>3 DEF P!Follow
  <2>2. P!Entry(q, FALSE) \in PopupUrls /\ popupPosition' = popupPosition + 1
    BY <1>3 DEF P!Follow, P!Entry, PopupUrls
  <2> QED
    BY <1>0, <2>1, <2>2, PushedType
<1>4. CASE P!Traverse
  <2>1. popupEntries' = popupEntries /\ popupPosition' \in DOMAIN popupEntries
    BY <1>4 DEF P!Traverse
  <2> QED
    BY <1>0, <2>1 DEF PopupHistory
<1>5. UNCHANGED <<popupEntries, popupPosition>> \/ P!Follow \/ P!Traverse \/ \E p \in Popups : P!Open(p)
  BY DEF P!Next, P!Close, P!AnimationEnds, P!User, P!NowhereToGo, P!NavigateEvent, P!vars, P!browser
<1> QED
  BY <1>1, <1>2, <1>3, <1>4, <1>5

LEMMA PopupQueuesNext ==
  ASSUME P!PopupAssumption, P!TypeOK, P!Next \/ UNCHANGED P!vars
  PROVE  QueuesType'
<1> DEFINE Moves == {"back", "forward"}
           PopupEvents == [url : PopupUrls, direction : Moves]
<1>0. PopupHistory /\ asked \in Seq(Moves) /\ events \in Seq(PopupEvents)
  BY PopupType DEF QueuesType
<1>1. CASE UNCHANGED <<asked, events>>
  BY <1>0, <1>1 DEF QueuesType
<1>2. ASSUME NEW p \in Popups, P!Close(p) PROVE QueuesType'
  <2>1. events' = events /\ asked' \in {asked, Append(asked, "back")}
    BY <1>2 DEF P!Close
  <2> QED
    BY <1>0, <2>1 DEF QueuesType
<1>3. CASE P!User
  <2>1. PICK m \in UserMoves : asked' = Append(asked, m) /\ events' = events
    BY <1>3 DEF P!User
  <2>2. m \in Moves
    BY DEF P!PopupAssumption
  <2> QED
    BY <1>0, <2>1, <2>2 DEF QueuesType
<1>4. CASE P!Traverse
  <2>1. asked # <<>> /\ asked' = Tail(asked) /\ Head(asked) \in Moves
    BY <1>0, <1>4 DEF P!Traverse
  <2>2. asked' \in Seq(Moves)
    BY <1>0, <2>1
  <2>3. popupPosition' \in DOMAIN popupEntries
    BY <1>4 DEF P!Traverse
  <2>4. popupEntries[popupPosition'] \in PopupUrls
    BY <1>0, <2>3 DEF PopupHistory
  <2>5. [url |-> popupEntries[popupPosition'], direction |-> Head(asked)] \in PopupEvents
    BY <2>1, <2>4
  <2>6. events' = Append(events, [url |-> popupEntries[popupPosition'], direction |-> Head(asked)])
    BY <1>4 DEF P!Traverse
  <2>7. events' \in Seq(PopupEvents)
    BY <1>0, <2>5, <2>6
  <2> QED
    BY <2>2, <2>7 DEF QueuesType
<1>5. CASE P!NowhereToGo
  <2>1. asked # <<>> /\ asked' = Tail(asked) /\ events' = events
    BY <1>5 DEF P!NowhereToGo
  <2> QED
    BY <1>0, <2>1 DEF QueuesType
<1>6. CASE P!NavigateEvent
  <2>1. events # <<>> /\ events' = Tail(events) /\ Head(events).direction \in Moves
    <3>1. events # <<>> /\ events' = Tail(events)
      BY <1>6 DEF P!NavigateEvent
    <3> HIDE DEF PopupEvents
    <3>2. Head(events) \in PopupEvents
      BY <1>0, <3>1, FirstOf
    <3> QED
      BY <3>1, <3>2 DEF PopupEvents
  <2>2. asked' \in {asked, Append(asked, Head(events).direction)}
    BY <1>6 DEF P!NavigateEvent
  <2>3. asked' \in Seq(Moves)
    BY <1>0, <2>1, <2>2
  <2>4. events' \in Seq(PopupEvents)
    BY <1>0, <2>1
  <2> QED
    BY <2>3, <2>4 DEF QueuesType
<1>7. \/ UNCHANGED <<asked, events>> \/ P!User \/ P!Traverse \/ P!NowhereToGo
      \/ P!NavigateEvent \/ \E p \in Popups : P!Close(p)
  BY DEF P!Next, P!Open, P!AnimationEnds, P!Follow, P!vars, P!browser
<1> QED
  BY <1>1, <1>2, <1>3, <1>4, <1>5, <1>6, <1>7

LEMMA PopupFitsNext ==
  ASSUME P!PopupAssumption, PopupInv, P!Next \/ UNCHANGED P!vars
  PROVE  /\ popup' \in [Popups -> P!Fields] /\ BoundFits' /\ page' \in Pages
         /\ active' \in Popups \cup {None} /\ boundPopup' \in Popups \cup {None}
         /\ \A q \in Popups : PopupFits(q)'
<1> DEFINE Goal == /\ popup' \in [Popups -> P!Fields] /\ BoundFits' /\ page' \in Pages
                   /\ active' \in Popups \cup {None} /\ boundPopup' \in Popups \cup {None}
                   /\ \A q \in Popups : PopupFits(q)'
<1>0. /\ popup \in [Popups -> P!Fields] /\ page \in Pages /\ active \in Popups \cup {None}
      /\ boundPopup \in Popups \cup {None} /\ events \in Seq([url : PopupUrls, direction : {"back", "forward"}])
  BY PopupType DEF PopupInv, QueuesType
<1>1. CASE UNCHANGED <<page, active, boundPopup, popup>>
  BY <1>0, <1>1 DEF PopupInv, BoundFits, PopupFits
<1>2. ASSUME NEW p \in Popups, P!Open(p) PROVE Goal
  <2>1. active' = p /\ boundPopup' = p /\ page' = page
    BY <1>2 DEF P!Open, P!Binds
  <2> QED
    BY <1>0, <1>2, <2>1, OpenFits
<1>3. ASSUME NEW p \in Popups, P!Close(p) PROVE Goal
  <2>1. CASE P!ClosesByBack(p)
    <3>1. UNCHANGED <<page, active, boundPopup>> /\ popup' = [popup EXCEPT ![p].urlAltered = FALSE]
      BY <1>3, <2>1 DEF P!Close
    <3>2. popup' \in [Popups -> P!Fields]
      BY <1>0, <3>1 DEF P!Fields
    <3>3. ASSUME NEW q \in Popups
          PROVE  /\ popup'[q].prereqs = popup[q].prereqs /\ popup'[q].shown = popup[q].shown
                 /\ popup'[q].isOpen = popup[q].isOpen
      <4>1. popup[q] \in P!Fields
        BY <1>0
      <4> QED
        BY <1>0, <3>1, <4>1 DEF P!Fields
    <3>4. ASSUME NEW q \in Popups PROVE PopupFits(q)'
      BY <3>1, <3>3 DEF PopupInv, PopupFits
    <3> QED
      BY <1>0, <3>1, <3>2, <3>4 DEF PopupInv, BoundFits
  <2>2. CASE ~P!ClosesByBack(p)
    <3>1. active = p /\ P!ClosePopup(p, FALSE) /\ page' = page
      BY <1>3, <2>2 DEF P!Close
    <3>2. boundPopup' = None
      BY <3>1 DEF P!ClosePopup
    <3> QED
      BY <1>0, <3>1, <3>2, ClosePopupFits
  <2> QED
    BY <2>1, <2>2
<1>4. ASSUME NEW p \in Popups, P!AnimationEnds(p) PROVE Goal
  <2>1. UNCHANGED <<page, boundPopup>>
    BY <1>4 DEF P!AnimationEnds
  <2> QED
    BY <1>0, <1>4, <2>1, AnimationEndsFits
<1>5. ASSUME NEW url, P!PageBeforeChange(url), page' \in Pages PROVE Goal
  BY <1>5, PageBeforeChangeFits DEF BoundFits
<1>6. CASE P!Follow
  BY <1>5, <1>6 DEF P!Follow
<1>7. CASE P!NavigateEvent
  <2> DEFINE url == Head(events).url
  <2>1. events # <<>>
    BY <1>7 DEF P!NavigateEvent
  <2>2. Head(events) \in [url : PopupUrls, direction : {"back", "forward"}]
    <3> DEFINE PopupEvents == [url : PopupUrls, direction : {"back", "forward"}]
    <3>1. events \in Seq(PopupEvents)
      BY <1>0
    <3> HIDE DEF PopupEvents
    <3>2. Head(events) \in PopupEvents
      BY <2>1, <3>1, FirstOf
    <3> QED
      BY <3>2 DEF PopupEvents
  <2>3. url \in PopupUrls
    BY <2>2
  <2>4. \/ UNCHANGED <<page, active, boundPopup, popup>>
        \/ P!PageBeforeChange(url) /\ page' \in {page, url.page}
    BY <1>7 DEF P!NavigateEvent
  <2> HIDE DEF url
  <2>5. url.page \in Pages
    BY <2>3 DEF PopupUrls
  <2> QED
    BY <1>0, <1>1, <1>5, <2>4, <2>5
<1>8. UNCHANGED <<page, active, boundPopup, popup>> \/ P!Follow \/ P!NavigateEvent
        \/ \E p \in Popups : P!Open(p) \/ P!Close(p) \/ P!AnimationEnds(p)
  BY DEF P!Next, P!User, P!Traverse, P!NowhereToGo, P!vars
<1> QED
  BY <1>1, <1>2, <1>3, <1>4, <1>6, <1>7, <1>8

LEMMA PopupNext == P!PopupAssumption /\ PopupInv /\ [P!Next]_(P!vars) => PopupInv'
<1> SUFFICES ASSUME P!PopupAssumption, PopupInv, P!Next \/ UNCHANGED P!vars PROVE PopupInv'
  OBVIOUS
<1>1. PopupHistory' /\ QueuesType'
  BY PopupHistoryNext, PopupQueuesNext DEF PopupInv
<1>2. moves' \in 0..PopupMoves
  <2>1. moves' = moves \/ P!Moved
    BY DEF P!Next, P!Open, P!Close, P!AnimationEnds, P!Follow, P!User, P!Traverse, P!NowhereToGo,
       P!NavigateEvent, P!vars
  <2> QED
    BY <2>1, PopupType DEF PopupInv, P!Moved, P!PopupAssumption
<1>3. /\ popup' \in [Popups -> P!Fields] /\ BoundFits' /\ page' \in Pages
      /\ active' \in Popups \cup {None} /\ boundPopup' \in Popups \cup {None}
      /\ \A q \in Popups : PopupFits(q)'
  BY PopupFitsNext
<1>4. P!TypeOK'
  <2>1. DOMAIN popupEntries' = 1..Len(popupEntries')
    BY <1>1, DomainOf DEF PopupHistory
  <2> QED
    BY <1>1, <1>2, <1>3, <2>1 DEF P!TypeOK, PopupHistory, QueuesType, PopupUrls
<1> QED
  BY <1>3, <1>4 DEF PopupInv

LEMMA PopupInit == P!PopupAssumption /\ P!Init => PopupInv
<1> SUFFICES ASSUME P!PopupAssumption, P!Init PROVE PopupInv
  OBVIOUS
<1>1. PopupHistory /\ QueuesType
  <2>1. popupEntries = <<P!Entry(Start, FALSE)>> /\ popupPosition = 1 /\ asked = <<>> /\ events = <<>>
    BY DEF P!Init
  <2>2. P!Entry(Start, FALSE) \in PopupUrls
    BY DEF P!Entry, PopupUrls, P!PopupAssumption
  <2>3. ASSUME NEW S, NEW e \in S PROVE <<e>> \in Seq(S) /\ Len(<<e>>) = 1
    OBVIOUS
  <2>4. popupEntries \in Seq(PopupUrls) /\ Len(popupEntries) = 1
    BY <2>1, <2>2, <2>3
  <2>5. ASSUME NEW S PROVE <<>> \in Seq(S)
    OBVIOUS
  <2>6. asked \in Seq({"back", "forward"}) /\ events \in Seq([url : PopupUrls, direction : {"back", "forward"}])
    BY <2>1, <2>5
  <2>7. popupPosition \in 1..Len(popupEntries)
    BY <2>1, <2>4
  <2> QED
    BY <2>4, <2>6, <2>7 DEF PopupHistory, QueuesType
<1>2. popup \in [Popups -> P!Fields]
  BY DEF P!Init, P!Entry, P!Fields, P!PopupAssumption
<1>3. \A q \in Popups : PopupFits(q)
  BY DEF P!Init, PopupFits, P!PopupAssumption
<1>4. moves \in 0..PopupMoves /\ page \in Pages /\ active = None /\ boundPopup = None
  BY DEF P!Init, P!PopupAssumption
<1> QED
  BY <1>1, <1>2, <1>3, <1>4, PopupType DEF PopupInv, BoundFits

(* One popup is to be seen at most, the active one, and on the page that   *)
(* is shown unless it is being closed, however opening, closing, links and *)
(* the back button interleave.                                             *)
THEOREM PopupsAreWhereTheyFit == ASSUME P!PopupAssumption PROVE P!Spec => []P!PopupsFit
<1>1. PopupInv => P!PopupsFit
  <2> SUFFICES ASSUME PopupInv PROVE P!PopupsFit
    OBVIOUS
  <2>1. ASSUME NEW p \in Popups
        PROVE  /\ popup[p].shown => active = p
               /\ popup[p].isOpen => active = p /\ popup[p].prereqs # "close"
               /\ popup[p].shown /\ popup[p].prereqs # "close" => page = PageOf[p]
               /\ ~Animated /\ popup[p].shown => page = PageOf[p]
    BY DEF PopupInv, PopupFits, BoundFits, P!PopupAssumption
  <2> QED
    BY <2>1 DEF PopupInv, P!PopupsFit, P!OnlyActiveIsShown, P!OpenIsOnItsPage, P!ShownIsOnItsPage
<1>2. P!Init => PopupInv
  BY PopupInit
<1>3. PopupInv /\ [P!Next]_(P!vars) => PopupInv'
  BY PopupNext
<1> QED
  BY <1>1, <1>2, <1>3, PTL DEF P!Spec

(* Below the entry of a popup is that of its page.                         *)
BelowFits ==
  /\ popupEntries[1].popup = FALSE
  /\ \A i \in 2..Len(popupEntries) :
       popupEntries[i].popup => popupEntries[i - 1] = P!Entry(popupEntries[i].page, FALSE)

LEMMA PushedBelow ==
  ASSUME PopupHistory, BelowFits, NEW entry \in PopupUrls,
         entry.popup => popupEntries[popupPosition] = P!Entry(entry.page, FALSE),
         popupEntries' = P!Pushed(entry)
  PROVE  BelowFits'
<1>1. popupEntries \in Seq(PopupUrls) /\ popupPosition \in 1..Len(popupEntries)
  BY DEF PopupHistory
<1>2. /\ Len(popupEntries') = popupPosition + 1 /\ popupEntries'[popupPosition + 1] = entry
      /\ \A i \in 1..popupPosition : popupEntries'[i] = popupEntries[i]
  BY <1>1, CutAndAppended DEF P!Pushed
<1>3. popupEntries'[1].popup = FALSE
  BY <1>1, <1>2 DEF BelowFits
<1>4. ASSUME NEW i \in 2..Len(popupEntries'), popupEntries'[i].popup
      PROVE  popupEntries'[i - 1] = P!Entry(popupEntries'[i].page, FALSE)
  <2>1. CASE i = popupPosition + 1
    <3>1. i - 1 = popupPosition /\ popupPosition \in 1..popupPosition
      BY <1>1, <2>1
    <3>2. popupEntries'[i] = entry /\ popupEntries'[i - 1] = popupEntries[popupPosition]
      BY <1>2, <2>1, <3>1
    <3> QED
      BY <1>4, <3>2
  <2>2. CASE i # popupPosition + 1
    <3>1. i \in 2..Len(popupEntries) /\ i \in 1..popupPosition /\ i - 1 \in 1..popupPosition
      BY <1>1, <1>2, <1>4, <2>2
    <3>2. popupEntries'[i] = popupEntries[i] /\ popupEntries'[i - 1] = popupEntries[i - 1]
      BY <1>2, <3>1
    <3>3. popupEntries[i].popup
      BY <1>4, <3>2
    <3>4. popupEntries[i - 1] = P!Entry(popupEntries[i].page, FALSE)
      BY <3>1, <3>3 DEF BelowFits
    <3> QED
      BY <3>2, <3>4
  <2> QED
    BY <2>1, <2>2
<1> QED
  BY <1>3, <1>4 DEF BelowFits

LEMMA BelowNext ==
  ASSUME P!PopupAssumption, PopupInv, BelowFits, [P!Next]_(P!vars) PROVE BelowFits'
<1>0. PopupHistory
  BY PopupType DEF PopupInv
<1>1. popupEntries \in Seq(PopupUrls) /\ popupPosition \in 1..Len(popupEntries)
  BY <1>0 DEF PopupHistory
<1>2. CASE UNCHANGED popupEntries
  BY <1>2 DEF BelowFits
<1>3. ASSUME NEW p \in Popups, P!Open(p) PROVE BelowFits'
  <2> DEFINE entry == P!Entry(P!Active.page, TRUE)
  <2>1. CASE ~P!HasHash /\ popupEntries' = P!Pushed(entry)
    <3>1. P!Active \in PopupUrls /\ P!Active = popupEntries[popupPosition]
      BY <1>1 DEF P!Active
    <3>2. P!Active.popup = FALSE
      BY <1>1, <2>1, <3>1 DEF P!HasHash, P!Active, BelowFits, PopupUrls
    <3>3. P!Active = P!Entry(P!Active.page, FALSE)
      BY <3>1, <3>2 DEF P!Entry, PopupUrls
    <3>4. entry \in PopupUrls /\ entry.page = P!Active.page
      BY <3>1 DEF P!Entry, PopupUrls
    <3> HIDE DEF entry
    <3> QED
      BY <1>0, <2>1, <3>1, <3>3, <3>4, PushedBelow
  <2> QED
    BY <1>2, <1>3, <2>1 DEF P!Open
<1>4. CASE P!Follow
  <2>1. PICK p \in Pages : popupEntries' = P!Pushed(P!Entry(p, FALSE))
    BY <1>4 DEF P!Follow
  <2>2. P!Entry(p, FALSE) \in PopupUrls /\ ~P!Entry(p, FALSE).popup
    BY DEF P!Entry, PopupUrls
  <2> QED
    BY <1>0, <2>1, <2>2, PushedBelow
<1>5. \/ UNCHANGED popupEntries \/ P!Follow \/ \E p \in Popups : P!Open(p)
  BY DEF P!Next, P!Close, P!AnimationEnds, P!User, P!Traverse, P!NowhereToGo, P!NavigateEvent,
     P!vars, P!browser
<1> QED
  BY <1>2, <1>3, <1>4, <1>5

LEMMA BelowInit == ASSUME P!PopupAssumption, P!Init PROVE BelowFits
<1>1. popupEntries = <<P!Entry(Start, FALSE)>> /\ Len(popupEntries) = 1
  BY DEF P!Init
<1>2. popupEntries[1] = P!Entry(Start, FALSE)
  BY <1>1
<1> QED
  BY <1>1, <1>2 DEF BelowFits, P!Entry

(* Whoever moves, with animations or without, and with as many popups on a *)
(* page as there are: a move back from the entry of a popup comes to the   *)
(* entry of its page.                                                      *)
THEOREM BackComesToThePage ==
  ASSUME P!PopupAssumption PROVE P!Spec => [][P!BackFromPopup]_(P!vars)
<1>1. PopupInv /\ BelowFits => P!BackFromPopup
  <2> SUFFICES ASSUME PopupInv, BelowFits, P!Traverse, P!Active.popup, Head(asked) = "back"
               PROVE  popupEntries[popupPosition'] = P!Entry(P!Active.page, FALSE)
    BY DEF P!BackFromPopup
  <2>1. popupPosition \in 1..Len(popupEntries) /\ Len(popupEntries) \in Nat
    BY PopupType DEF PopupInv, PopupHistory
  <2>2. popupPosition' = popupPosition - 1 /\ popupEntries[popupPosition].popup
    BY DEF P!Traverse, P!Active
  <2>3. popupPosition \in 2..Len(popupEntries)
    BY <2>1, <2>2 DEF BelowFits
  <2> QED
    BY <2>2, <2>3 DEF BelowFits, P!Active
<1>2. P!Init => PopupInv /\ BelowFits
  BY PopupInit, BelowInit
<1>3. PopupInv /\ BelowFits /\ [P!Next]_(P!vars) => PopupInv' /\ BelowFits'
  BY PopupNext, BelowNext
<1> QED
  BY <1>1, <1>2, <1>3, PTL DEF P!Spec

(* Users without the buttons of the browser, who do not follow a link      *)
(* while it goes back, and pages with one popup each that closes at once.  *)
Quietly ==
  /\ PopupsWait /\ UserMoves = {} /\ ~Animated
  /\ \A p, q \in Popups : PageOf[p] = PageOf[q] => p = q

EntriesFit ==
  /\ BelowFits
  /\ popupPosition < Len(popupEntries) => popupPosition + 1 = Len(popupEntries) /\ popupEntries[popupPosition + 1].popup

(* Going back leads from the entry of a popup to that of its page, once.   *)
BacksFit ==
  /\ popupEntries[popupPosition].page = page /\ active = boundPopup
  /\ \A i \in 1..Len(events) : events[i].url = P!Entry(page, FALSE)
  /\ asked # <<>> =>
       /\ asked = <<"back">> /\ P!HasHash
       /\ \A p \in Popups : PageOf[p] = page => ~popup[p].urlAltered
  /\ boundPopup # None /\ P!ClosesByBack(boundPopup) => P!HasHash

QuietInv == PopupInv /\ EntriesFit /\ BacksFit

LEMMA AlteredStays ==
  ASSUME NEW f \in P!Fields, NEW immediate \in BOOLEAN
  PROVE  P!Closes(f, immediate).urlAltered = f.urlAltered
BY DEF P!Closes, P!Begins, P!Waits, P!Fields

LEMMA ClosedAltered ==
  ASSUME P!TypeOK, NEW p \in Popups, NEW immediate \in BOOLEAN, P!ClosePopup(p, immediate)
  PROVE  \A q \in Popups : popup'[q].urlAltered = popup[q].urlAltered
<1>1. popup' = [popup EXCEPT ![p] = P!Closes(popup[p], immediate)]
  BY DEF P!ClosePopup
<1>2. popup \in [Popups -> P!Fields]
  BY DEF P!TypeOK
<1>3. P!Closes(popup[p], immediate).urlAltered = popup[p].urlAltered
  BY <1>2, AlteredStays
<1> QED
  BY <1>1, <1>2, <1>3

LEMMA ChangedAltered ==
  ASSUME P!TypeOK, ~Animated, active = boundPopup, NEW url, P!PageBeforeChange(url)
  PROVE  /\ \A q \in Popups : popup'[q].urlAltered = popup[q].urlAltered
         /\ active' = None /\ boundPopup' = None
<1>1. CASE boundPopup = None
  BY <1>1 DEF P!PageBeforeChange
<1>2. CASE boundPopup # None
  <2>1. boundPopup \in Popups /\ P!Immediate(url) \in BOOLEAN
    BY <1>2 DEF P!TypeOK, P!Immediate
  <2>2. P!ClosePopup(boundPopup, P!Immediate(url))
    BY <1>2 DEF P!PageBeforeChange
  <2>3. active' = None /\ boundPopup' = None
    BY <2>2 DEF P!ClosePopup, P!Released, P!Waits
  <2> QED
    BY <2>1, <2>2, <2>3, ClosedAltered
<1> QED
  BY <1>1, <1>2

LEMMA OpenedAltered ==
  ASSUME P!PopupAssumption, P!TypeOK, NEW p \in Popups, P!Open(p)
  PROVE  /\ \A q \in Popups \ {p} : popup'[q].urlAltered = popup[q].urlAltered
         /\ popup'[p].urlAltered = (popup[p].urlAltered \/ (Keeps /\ ~P!HasHash))
<1> DEFINE left == P!LeftOpen
<1>1. popup \in [Popups -> P!Fields]
  BY DEF P!TypeOK
<1>2. ASSUME NEW q \in Popups PROVE left[q] \in P!Fields /\ left[q].urlAltered = popup[q].urlAltered
  <2>1. CASE boundPopup = None
    BY <1>1, <2>1 DEF P!LeftOpen
  <2>2. CASE boundPopup # None
    <3>1. boundPopup \in Popups /\ left = [popup EXCEPT ![boundPopup] = P!Closes(popup[boundPopup], TRUE)]
      BY <2>2 DEF P!LeftOpen, P!TypeOK
    <3>2. P!Closes(popup[boundPopup], TRUE) \in P!Fields
      BY <1>1, <3>1, ClosesFields
    <3>3. P!Closes(popup[boundPopup], TRUE).urlAltered = popup[boundPopup].urlAltered
      BY <1>1, <3>1, AlteredStays
    <3> HIDE DEF left
    <3> QED
      BY <1>1, <3>1, <3>2, <3>3
  <2> QED
    BY <2>1, <2>2
<1>3. DOMAIN left = Popups
  BY <1>1 DEF P!LeftOpen
<1>4. popup' = [left EXCEPT ![p] = P!Altered(P!Opens(left[p]))]
  BY DEF P!Open
<1> HIDE DEF left
<1>5. P!Active \in PopupUrls
  <2>1. popupEntries \in Seq(PopupUrls) /\ popupPosition \in DOMAIN popupEntries
    BY DEF P!TypeOK, PopupUrls
  <2> QED
    BY <2>1 DEF P!Active
<1>6. P!Opens(left[p]) \in P!Fields
  BY <1>2, <1>5, OpensFields
<1>7. P!Opens(left[p]).urlAltered = left[p].urlAltered
  BY <1>2, <1>5 DEF P!Opens, P!Begins, P!Fields, PopupUrls
<1>8. P!Altered(P!Opens(left[p])).urlAltered = (left[p].urlAltered \/ (Keeps /\ ~P!HasHash))
  BY <1>6, <1>7 DEF P!Altered, P!Fields
<1> QED
  BY <1>2, <1>3, <1>4, <1>8

(* A new entry is put on top of the one that is looked at.                 *)
LEMMA PushedFits ==
  ASSUME PopupHistory, EntriesFit, NEW entry \in PopupUrls,
         entry.popup => popupEntries[popupPosition] = P!Entry(entry.page, FALSE),
         popupEntries' = P!Pushed(entry), popupPosition' = popupPosition + 1
  PROVE  EntriesFit' /\ popupEntries'[popupPosition'] = entry /\ Len(popupEntries') = popupPosition'
         /\ popupPosition' > 1
<1>1. popupEntries \in Seq(PopupUrls) /\ popupPosition \in 1..Len(popupEntries)
  BY DEF PopupHistory
<1>2. Len(popupEntries') = popupPosition + 1 /\ popupEntries'[popupPosition + 1] = entry
  BY <1>1, CutAndAppended DEF P!Pushed
<1>3. BelowFits'
  BY PushedBelow DEF EntriesFit
<1>5. Len(popupEntries') = popupPosition' /\ popupPosition' > 1
  BY <1>1, <1>2
<1>6. EntriesFit'
  <2>1. ~(popupPosition' < Len(popupEntries'))
    BY <1>1, <1>5
  <2> QED
    BY <1>3, <2>1 DEF EntriesFit
<1> QED
  BY <1>2, <1>5, <1>6

(* What lies below the entry of a popup, and that nothing lies above it.   *)
LEMMA BelowPopup ==
  ASSUME PopupHistory, EntriesFit, popupEntries[popupPosition].page = page
  PROVE  /\ P!HasHash => /\ popupPosition = Len(popupEntries)
                         /\ popupEntries[popupPosition - 1] = P!Entry(page, FALSE)
         /\ ~P!HasHash => popupEntries[popupPosition] = P!Entry(page, FALSE)
<1>1. popupEntries \in Seq(PopupUrls) /\ popupPosition \in 1..Len(popupEntries) /\ Len(popupEntries) \in Nat
  BY DEF PopupHistory
<1>2. CASE P!HasHash
  <2>1. popupEntries[popupPosition].popup /\ popupPosition \in 2..Len(popupEntries)
    BY <1>1, <1>2 DEF P!HasHash, P!Active
  <2>2. popupEntries[popupPosition - 1] = P!Entry(page, FALSE)
    BY <2>1 DEF EntriesFit, BelowFits
  <2>3. popupPosition = Len(popupEntries)
    <3>1. SUFFICES ASSUME popupPosition < Len(popupEntries) PROVE FALSE
      BY <1>1
    <3>2. popupEntries[popupPosition + 1].popup /\ popupPosition + 1 \in 2..Len(popupEntries)
      BY <1>1, <3>1 DEF EntriesFit, BelowFits
    <3>3. popupEntries[(popupPosition + 1) - 1] = P!Entry(popupEntries[popupPosition + 1].page, FALSE)
      BY <3>2 DEF EntriesFit, BelowFits
    <3>4. (popupPosition + 1) - 1 = popupPosition
      BY <1>1
    <3> QED
      BY <2>1, <3>3, <3>4 DEF P!Entry
  <2> QED
    BY <1>2, <2>2, <2>3
<1>3. CASE ~P!HasHash
  <2>1. popupEntries[popupPosition] \in PopupUrls
    BY <1>1
  <2>2. popupEntries[popupPosition].popup = FALSE
    BY <1>1, <1>3, <2>1 DEF P!HasHash, P!Active, EntriesFit, BelowFits, PopupUrls
  <2> QED
    BY <1>3, <2>1, <2>2 DEF P!Entry, PopupUrls
<1> QED
  BY <1>2, <1>3

LEMMA QuietOpen ==
  ASSUME P!PopupAssumption, Quietly, QuietInv, NEW p \in Popups, P!Open(p)
  PROVE  EntriesFit' /\ BacksFit' /\ page' = page
<1>0. PopupHistory /\ P!TypeOK /\ EntriesFit /\ BacksFit /\ page \in Pages
  BY PopupType DEF QuietInv, PopupInv
<1>1. page' = page /\ asked' = asked /\ events' = events /\ active' = p /\ boundPopup' = p /\ p # None
  BY DEF P!Open, P!Binds, P!PopupAssumption
<1>2. /\ \A q \in Popups \ {p} : popup'[q].urlAltered = popup[q].urlAltered
      /\ popup'[p].urlAltered = (popup[p].urlAltered \/ (Keeps /\ ~P!HasHash))
  BY <1>0, OpenedAltered
<1>3. CASE Keeps /\ ~P!HasHash
  <2> DEFINE entry == P!Entry(page, TRUE)
  <2>1. popupEntries' = P!Pushed(entry) /\ popupPosition' = popupPosition + 1
    BY <1>0, <1>3 DEF P!Open, BacksFit, P!Active
  <2>2. entry \in PopupUrls /\ entry.page = page /\ entry.popup = TRUE
    BY <1>0 DEF P!Entry, PopupUrls
  <2>3. popupEntries[popupPosition] = P!Entry(page, FALSE)
    BY <1>0, <1>3, BelowPopup DEF BacksFit
  <2> HIDE DEF entry
  <2>4. EntriesFit' /\ popupEntries'[popupPosition'] = entry /\ popupPosition' > 1
    BY <1>0, <2>1, <2>2, <2>3, PushedFits
  <2>5. asked' = <<>>
    BY <1>0, <1>1, <1>3 DEF BacksFit
  <2>6. P!HasHash'
    BY <2>2, <2>4 DEF P!HasHash, P!Active
  <2> QED
    BY <1>0, <1>1, <2>2, <2>4, <2>5, <2>6 DEF BacksFit
<1>4. CASE P!HasHash \/ ~Keeps
  <2>1. UNCHANGED <<popupEntries, popupPosition>>
    BY <1>4 DEF P!Open
  <2>2. P!HasHash' = P!HasHash
    BY <2>1 DEF P!HasHash, P!Active
  <2>3. EntriesFit'
    BY <1>0, <2>1 DEF EntriesFit, BelowFits
  <2>4. \A q \in Popups : popup'[q].urlAltered = popup[q].urlAltered
    BY <1>0, <1>2, <1>4 DEF P!TypeOK, P!Fields
  <2>5. P!ClosesByBack(p)' => P!HasHash
    BY <1>4 DEF P!ClosesByBack
  <2> QED
    BY <1>0, <1>1, <2>1, <2>2, <2>3, <2>4, <2>5 DEF BacksFit
<1> QED
  BY <1>1, <1>3, <1>4

LEMMA QuietClose ==
  ASSUME P!PopupAssumption, Quietly, QuietInv, NEW p \in Popups, P!Close(p)
  PROVE  EntriesFit' /\ BacksFit' /\ page' = page
<1>0. P!TypeOK /\ EntriesFit /\ BacksFit /\ BoundFits /\ popup \in [Popups -> P!Fields]
      /\ asked \in Seq({"back", "forward"})
  BY PopupType DEF QuietInv, PopupInv, QueuesType
<1>1. active = p /\ boundPopup = p /\ p # None /\ page = PageOf[p]
      /\ UNCHANGED <<popupEntries, popupPosition, events, page>>
  BY <1>0 DEF P!Close, P!PopupAssumption, BacksFit, BoundFits
<1>2. EntriesFit' /\ P!HasHash' = P!HasHash
  BY <1>0, <1>1 DEF EntriesFit, BelowFits, P!HasHash, P!Active
<1>3. CASE P!ClosesByBack(p)
  <2>1. asked' = Append(asked, "back") /\ popup' = [popup EXCEPT ![p].urlAltered = FALSE]
        /\ UNCHANGED <<active, boundPopup>>
    BY <1>3 DEF P!Close
  <2>2. P!HasHash /\ asked = <<>>
    BY <1>0, <1>1, <1>3 DEF BacksFit, P!ClosesByBack
  <2>3. asked' = <<"back">>
    BY <2>1, <2>2
  <2>4. popup'[p].urlAltered = FALSE
    BY <1>0, <2>1 DEF P!Fields
  <2>5. \A q \in Popups : PageOf[q] = page => ~popup'[q].urlAltered
    BY <1>1, <2>4 DEF Quietly
  <2> QED
    BY <1>0, <1>1, <1>2, <2>1, <2>2, <2>3, <2>5 DEF BacksFit
<1>4. CASE ~P!ClosesByBack(p)
  <2>1. P!ClosePopup(p, FALSE) /\ asked' = asked
    BY <1>4 DEF P!Close
  <2>2. active' = None /\ boundPopup' = None
    BY <2>1 DEF P!ClosePopup, P!Released, P!Waits, Quietly
  <2>3. \A q \in Popups : popup'[q].urlAltered = popup[q].urlAltered
    BY <1>0, <2>1, ClosedAltered
  <2> QED
    BY <1>0, <1>1, <1>2, <2>1, <2>2, <2>3 DEF BacksFit
<1> QED
  BY <1>1, <1>3, <1>4

LEMMA QuietFollow ==
  ASSUME P!PopupAssumption, Quietly, QuietInv, P!Follow
  PROVE  EntriesFit' /\ BacksFit' /\ popupEntries' # popupEntries
<1>0. PopupHistory /\ P!TypeOK /\ EntriesFit /\ BacksFit
  BY PopupType DEF QuietInv, PopupInv
<1>1. PICK q \in Pages : /\ P!PageBeforeChange(P!Entry(q, FALSE)) /\ page' = q
                         /\ popupEntries' = P!Pushed(P!Entry(q, FALSE))
  BY DEF P!Follow
<1>2. popupPosition' = popupPosition + 1 /\ asked' = <<>> /\ events' = <<>>
  BY DEF P!Follow, Quietly
<1> DEFINE entry == P!Entry(q, FALSE)
<1>3. entry \in PopupUrls /\ entry.page = q /\ entry.popup = FALSE
  BY DEF P!Entry, PopupUrls
<1>4. active' = None /\ boundPopup' = None
  BY <1>0, <1>1, ChangedAltered DEF BacksFit, Quietly
<1>5. popupEntries' = P!Pushed(entry)
  BY <1>1
<1> HIDE DEF entry
<1>6. EntriesFit' /\ popupEntries'[popupPosition'] = entry /\ Len(popupEntries') = popupPosition'
  BY <1>0, <1>2, <1>3, <1>5, PushedFits
<1>7. BacksFit'
  <2>1. popupEntries'[popupPosition'].page = page' /\ active' = boundPopup'
    BY <1>1, <1>3, <1>4, <1>6 DEF P!Follow
  <2>2. 1..Len(events') = {}
    BY <1>2
  <2>3. \A i \in 1..Len(events') : events'[i].url = P!Entry(page', FALSE)
    BY <2>2
  <2> QED
    BY <1>2, <1>4, <2>1, <2>3 DEF BacksFit
<1>8. popupEntries' # popupEntries
  <2>1. SUFFICES ASSUME popupEntries' = popupEntries PROVE FALSE
    OBVIOUS
  <2>2. popupPosition < Len(popupEntries) /\ popupEntries[popupPosition + 1] = entry
    BY <1>0, <1>2, <1>6, <2>1 DEF PopupHistory
  <2> QED
    BY <1>0, <1>3, <2>2 DEF EntriesFit, BelowFits
<1> QED
  BY <1>6, <1>7, <1>8

LEMMA QuietTraverse ==
  ASSUME P!PopupAssumption, Quietly, QuietInv, P!Traverse \/ P!NowhereToGo
  PROVE  EntriesFit' /\ BacksFit' /\ page' = page
<1>0. PopupHistory /\ QueuesType /\ EntriesFit /\ BacksFit /\ BoundFits /\ boundPopup \in Popups \cup {None}
  BY PopupType DEF QuietInv, PopupInv
<1>1. asked # <<>> /\ asked' = Tail(asked) /\ UNCHANGED <<popupEntries, page, active, boundPopup, popup>>
  BY DEF P!Traverse, P!NowhereToGo
<1>2. asked = <<"back">> /\ P!HasHash /\ \A p \in Popups : PageOf[p] = page => ~popup[p].urlAltered
  BY <1>0, <1>1 DEF BacksFit
<1>3. asked' = <<>> /\ Head(asked) = "back"
  BY <1>1, <1>2
<1>4. popupPosition = Len(popupEntries) /\ popupEntries[popupPosition - 1] = P!Entry(page, FALSE) /\ popupEntries[popupPosition].popup
      /\ popupPosition \in 2..Len(popupEntries)
  <2>1. popupEntries[popupPosition].page = page /\ popupPosition \in 1..Len(popupEntries)
    BY <1>0 DEF BacksFit, PopupHistory
  <2>2. popupEntries[popupPosition].popup
    BY <1>2 DEF P!HasHash, P!Active
  <2>3. popupPosition = Len(popupEntries) /\ popupEntries[popupPosition - 1] = P!Entry(page, FALSE)
    BY <1>0, <1>2, <2>1, BelowPopup
  <2>4. popupPosition # 1
    BY <1>0, <2>2 DEF EntriesFit, BelowFits
  <2> QED
    BY <2>1, <2>2, <2>3, <2>4
<1>5. P!Traverse
  BY <1>3, <1>4 DEF P!NowhereToGo
<1>6. popupPosition' = popupPosition - 1 /\ events' = Append(events, [url |-> popupEntries[popupPosition'], direction |-> "back"])
  BY <1>3, <1>5 DEF P!Traverse
<1>7. popupEntries'[popupPosition'] = P!Entry(page, FALSE) /\ popupEntries'[popupPosition'].page = page
  BY <1>1, <1>4, <1>6 DEF P!Entry
<1>8. EntriesFit'
  <2>1. popupPosition' + 1 = Len(popupEntries') /\ popupEntries'[popupPosition' + 1].popup
    BY <1>1, <1>4, <1>6
  <2> QED
    BY <1>0, <1>1, <2>1 DEF EntriesFit, BelowFits
<1>9. \A i \in 1..Len(events') : events'[i].url = P!Entry(page, FALSE)
  <2> DEFINE event == [url |-> P!Entry(page, FALSE), direction |-> "back"]
  <2>1. event.url = P!Entry(page, FALSE) /\ events' = Append(events, event)
    BY <1>1, <1>6, <1>7
  <2> HIDE DEF event
  <2>2. events \in Seq([url : PopupUrls, direction : {"back", "forward"}])
    BY <1>0 DEF QueuesType
  <2>3. /\ Len(events') = Len(events) + 1 /\ events'[Len(events) + 1] = event
        /\ \A i \in 1..Len(events) : events'[i] = events[i]
    BY <2>1, <2>2
  <2>4. \A i \in 1..Len(events') : i \in 1..Len(events) \/ i = Len(events) + 1
    BY <2>2, <2>3
  <2> QED
    BY <1>0, <2>1, <2>3, <2>4 DEF BacksFit
<1>10. boundPopup = None \/ ~P!ClosesByBack(boundPopup)
  BY <1>0, <1>2 DEF BoundFits, P!ClosesByBack
<1>11. P!ClosesByBack(boundPopup)' = P!ClosesByBack(boundPopup)
  BY <1>1 DEF P!ClosesByBack
<1> QED
  BY <1>0, <1>1, <1>3, <1>7, <1>8, <1>9, <1>10, <1>11 DEF BacksFit

LEMMA QuietEvent ==
  ASSUME P!PopupAssumption, Quietly, QuietInv, P!NavigateEvent
  PROVE  EntriesFit' /\ BacksFit' /\ page' = page
<1>0. P!TypeOK /\ QueuesType /\ EntriesFit /\ BacksFit
  BY PopupType DEF QuietInv, PopupInv
<1>1. events # <<>> /\ events' = Tail(events) /\ UNCHANGED <<popupEntries, popupPosition>>
  BY DEF P!NavigateEvent
<1>2. events \in Seq([url : PopupUrls, direction : {"back", "forward"}])
  BY <1>0 DEF QueuesType
<1>3. Head(events).url = P!Entry(page, FALSE)
  <2>1. Head(events) = events[1] /\ 1 \in 1..Len(events)
    BY <1>1, <1>2
  <2> QED
    BY <1>0, <2>1 DEF BacksFit
<1>4. ~P!Skips(Head(events).url) /\ Head(events).url.page = page
  BY <1>3 DEF P!Skips, P!Entry
<1>5. P!PageBeforeChange(Head(events).url) /\ page' = page /\ asked' = asked
  BY <1>4 DEF P!NavigateEvent
<1>6. active' = None /\ boundPopup' = None /\ \A q \in Popups : popup'[q].urlAltered = popup[q].urlAltered
  BY <1>0, <1>5, ChangedAltered DEF BacksFit, Quietly
<1>7. \A i \in 1..Len(events') : events'[i].url = P!Entry(page, FALSE)
  <2>1. Len(events') = Len(events) - 1 /\ Len(events) \in Nat
        /\ \A i \in 1..Len(events') : events'[i] = events[i + 1]
    BY <1>1, <1>2
  <2>2. TAKE i \in 1..Len(events')
  <2>3. i + 1 \in 1..Len(events)
    BY <2>1
  <2>4. events[i + 1].url = P!Entry(page, FALSE)
    BY <1>0, <2>3 DEF BacksFit
  <2> QED
    BY <2>1, <2>4
<1>8. EntriesFit' /\ P!HasHash' = P!HasHash
  BY <1>0, <1>1 DEF EntriesFit, BelowFits, P!HasHash, P!Active
<1> QED
  BY <1>0, <1>1, <1>5, <1>6, <1>7, <1>8 DEF BacksFit

LEMMA QuietNext ==
  ASSUME P!PopupAssumption, Quietly, QuietInv, [P!Next]_(P!vars)
  PROVE  QuietInv' /\ [P!CloseKeepsPage]_(P!vars)
<1>1. PopupInv'
  BY PopupNext DEF QuietInv
<1>2. CASE UNCHANGED P!vars
  <2>1. UNCHANGED <<popupEntries, popupPosition, events, asked, page, active, boundPopup, popup>>
    BY <1>2 DEF P!vars, P!browser
  <2>2. EntriesFit' /\ BacksFit'
    BY <2>1 DEF QuietInv, EntriesFit, BelowFits, BacksFit, P!HasHash, P!Active, P!ClosesByBack
  <2> QED
    BY <1>1, <1>2, <2>2 DEF QuietInv
<1>3. CASE P!Follow
  BY <1>1, <1>3, QuietFollow DEF QuietInv, P!CloseKeepsPage
<1>4. CASE P!Traverse \/ P!NowhereToGo \/ P!NavigateEvent
  BY <1>1, <1>4, QuietTraverse, QuietEvent DEF QuietInv, P!CloseKeepsPage
<1>5. ASSUME NEW p \in Popups, P!Open(p) \/ P!Close(p)
      PROVE  QuietInv' /\ [P!CloseKeepsPage]_(P!vars)
  BY <1>1, <1>5, QuietOpen, QuietClose DEF QuietInv, P!CloseKeepsPage
<1>6. ASSUME NEW p \in Popups PROVE ~P!AnimationEnds(p)
  BY DEF QuietInv, PopupInv, PopupFits, Quietly, P!AnimationEnds
<1>7. ~P!User
  BY DEF Quietly, P!User
<1> QED
  BY <1>2, <1>3, <1>4, <1>5, <1>6, <1>7 DEF P!Next

(* Opening and closing popups in any order, twice too, leaves no page,     *)
(* where a page has one popup that closes at once and links wait until it  *)
(* has gone back.                                                          *)
LEMMA ClosingKeepsPage ==
  ASSUME P!PopupAssumption, Quietly PROVE P!Spec => [][P!CloseKeepsPage]_(P!vars)
<1>1. P!Init => QuietInv
  <2> SUFFICES ASSUME P!Init PROVE QuietInv
    OBVIOUS
  <2>1. PopupInv
    BY PopupInit
  <2>2. popupEntries = <<P!Entry(Start, FALSE)>> /\ popupPosition = 1 /\ events = <<>> /\ asked = <<>>
        /\ page = Start /\ active = None /\ boundPopup = None
    BY DEF P!Init
  <2>3. popupEntries[1] = P!Entry(Start, FALSE) /\ Len(popupEntries) = 1 /\ Len(events) = 0
    BY <2>2
  <2>4. EntriesFit
    BY <2>2, <2>3 DEF EntriesFit, BelowFits, P!Entry
  <2>5. BacksFit
    BY <2>2, <2>3 DEF BacksFit, P!Entry
  <2> QED
    BY <2>1, <2>4, <2>5 DEF QuietInv
<1>2. QuietInv /\ [P!Next]_(P!vars) => QuietInv' /\ [P!CloseKeepsPage]_(P!vars)
  BY QuietNext
<1> QED
  BY <1>1, <1>2, PTL DEF P!Spec

================================================================================
