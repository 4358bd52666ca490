----------------------- MODULE DualCheckpointerProofs -----------------------
(***************************************************************************)
(* The safety of DualCheckpointer for any number of users of a run's graph *)
(* and any number of checkpoints.                                          *)
(***************************************************************************)
EXTENDS DualCheckpointer, WellFoundedInduction, TLAPS

\* A checkpoint or none.
Cp == StoredCheckpoint \cup {Missing}

\* The records of the loops, over the set of checkpoints.
LoopsType(S) == [Loops -> [pc : {"idle", "cold", "run", "put", "commit", "mirror"},
                           read : S, new : S]]

\* created_at tells the checkpoints apart, also those that are not committed yet.
Stamps ==
    /\ \A r \in postgres : r.at <= clock
    /\ \A q, r \in postgres : q.at = r.at => q = r
    /\ \A l \in Loops : loop[l].pc = "commit" =>
         /\ loop[l].new \in StoredCheckpoint
         /\ loop[l].new.of = l[2]
         /\ loop[l].new.at <= clock
         /\ \A r \in postgres : r.at # loop[l].new.at
    /\ \A l, m \in Loops : loop[l].pc = "commit" /\ loop[m].pc = "commit" /\ l # m
                             => loop[l].new.at # loop[m].new.at

\* What a loop is about to mirror is committed.
MirrorsAreCommitted == \A l \in Loops : loop[l].pc = "mirror" => loop[l].new \in postgres

\* A task owes the run a checkpoint from the start of an agent's graph to its commit.
Owing ==
    \A t \in Tasks :
        /\ loop[<<t, Agent>>].pc # "idle" => owes[t] = "superstep"
        /\ owes[t] = "put" => loop[<<t, Run>>].pc \in {"put", "commit"}
        /\ loop[<<t, Run>>].pc \in {"idle", "cold"} => owes[t] = "nothing"

\* A checkpoint of the run that will be greater than r is on its way.
OnItsWay(r) ==
    \E t \in Tasks :
        \/ owes[t] = "superstep"
        \/ /\ owes[t] = "put"
           /\ \/ loop[<<t, Run>>].pc = "put"
              \/ loop[<<t, Run>>].pc = "commit" /\ r.at < loop[<<t, Run>>].new.at

\* A checkpoint of the run follows an agent's, or will, unless a task died owing it.
Followed ==
    \A r \in postgres : r.of = Agent =>
        \/ abandoned
        \/ \E q \in postgres : q.of = Run /\ r.at < q.at
        \/ OnItsWay(r)

IsGreatest(r) == r \in postgres /\ \A q \in postgres : q.at <= r.at

(***************************************************************************)
(* Without a disturbance there is one task at a time, and the Redis key    *)
(* holds the latest checkpoint or nothing, except while a pillar is at     *)
(* work in its agent's graph, and until the mirror of a put is written.    *)
(***************************************************************************)
OneAtATime ==
    \A t, u \in Tasks : loop[<<t, Run>>].pc # "idle" /\ loop[<<u, Run>>].pc # "idle" => t = u

CommitsGreatest ==
    \A t \in Tasks : loop[<<t, Run>>].pc = "commit" /\ owes[t] # "superstep"
        => \A r \in postgres : r.at < loop[<<t, Run>>].new.at

MirrorsGreatest ==
    \A t \in Tasks : loop[<<t, Run>>].pc = "mirror" /\ owes[t] # "superstep"
        => IsGreatest(loop[<<t, Run>>].new)

CacheIsGreatest ==
    (\A t \in Tasks : owes[t] = "nothing" /\ loop[<<t, Run>>].pc # "mirror")
        => redis = Missing \/ IsGreatest(redis)

Undisturbed ==
    ~disturbed => /\ ~abandoned /\ OneAtATime
                  /\ CommitsGreatest /\ MirrorsGreatest /\ CacheIsGreatest

IInv == /\ TypeOK /\ Stamps /\ CacheIsDurable /\ MirrorsAreCommitted
        /\ Owing /\ Followed /\ Undisturbed

-----------------------------------------------------------------------------
(* Pairs of a task and a graph, and the greatest checkpoint *)

\* A loop is a pair of its task and its graph.
LEMMA Pairs ==
    /\ \A t \in Tasks, o \in {Run, Agent} : <<t, o>> \in Loops
    /\ \A t, u, o, p : <<t, o>> = <<u, p>> <=> t = u /\ o = p
    /\ \A l \in Loops : l[1] \in Tasks /\ l[2] \in {Run, Agent} /\ l = <<l[1], l[2]>>
    /\ Run # Agent
  BY DEF Loops, Run, Agent

\* A bounded set of numbers has a greatest one: its least bound.
LEMMA HasGreatest ==
    ASSUME NEW S, NEW n \in Nat, S \subseteq 0..n, S # {}
    PROVE  \E i \in S : \A j \in S : j <= i
  <1> DEFINE bounds == {b \in Nat : \A j \in S : j <= b}
             less == OpToRel(<, Nat)
  <1>1. bounds \subseteq Nat /\ n \in bounds OBVIOUS
  <1>2. IsWellFoundedOn(less, Nat) BY NatLessThanWellFounded
  <1> HIDE DEF bounds
  <1>3. PICK b \in bounds : \A c \in bounds : <<c, b>> \notin less
    <2> HIDE DEF less
    <2> QED BY <1>1, <1>2, WFMin
  <1> USE DEF bounds
  <1>4. \A c \in bounds : ~(c < b) BY <1>3 DEF OpToRel
  <1>5. b \in S
    <2> SUFFICES ASSUME b \notin S PROVE FALSE OBVIOUS
    <2>1. PICK j \in S : TRUE OBVIOUS
    <2>2. b - 1 \in bounds BY <2>1
    <2> QED BY <2>2, <1>4
  <1> QED BY <1>5

\* What a cold read returns is the greatest of the committed checkpoints, if any.
LEMMA LatestIsGreatest ==
    ASSUME TypeOK, postgres # {}
    PROVE  IsGreatest(Latest) /\ Latest \in StoredCheckpoint
  <1> DEFINE stamps == {r.at : r \in postgres}
  <1>1. MaxCheckpoints \in Nat /\ stamps \subseteq 0..MaxCheckpoints /\ stamps # {}
    BY CheckpointerAssumption DEF TypeOK, StoredCheckpoint
  <1> HIDE DEF stamps
  <1>2. PICK i \in stamps : \A j \in stamps : j <= i BY <1>1, HasGreatest
  <1>3. PICK r \in postgres : \A q \in postgres : q.at <= r.at BY <1>2 DEF stamps
  <1>4. Latest \in postgres /\ \A q \in postgres : q.at <= Latest.at BY <1>3 DEF Latest
  <1> QED BY <1>4 DEF TypeOK, IsGreatest

\* The greatest checkpoint is the latest: created_at tells them apart.
LEMMA GreatestIsLatest ==
    ASSUME TypeOK, Stamps, NEW r, IsGreatest(r)
    PROVE  Latest = r
  <1>1. r \in postgres /\ postgres # {} BY DEF IsGreatest
  <1>2. IsGreatest(Latest) BY <1>1, LatestIsGreatest
  <1>3. r.at \in Nat /\ Latest.at \in Nat
    BY <1>1, <1>2 DEF TypeOK, IsGreatest, StoredCheckpoint
  <1> QED BY <1>1, <1>2, <1>3 DEF IsGreatest, Stamps

\* What a cold read returns is a stored checkpoint or none.
LEMMA LatestType == TypeOK => Latest \in Cp
  <1>1. CASE postgres = {} BY <1>1 DEF Latest, Cp
  <1>2. CASE postgres # {} BY <1>2, LatestIsGreatest DEF Cp
  <1> QED BY <1>1, <1>2

-----------------------------------------------------------------------------
(* What an action writes to a loop's record, over any set of checkpoints *)

\* TypeOK in the words of the lemmas.
Typed ==
    /\ postgres \subseteq StoredCheckpoint
    /\ clock \in 0..MaxCheckpoints
    /\ redis \in Cp
    /\ loop \in LoopsType(Cp)
    /\ owes \in [Tasks -> {"nothing", "superstep", "put"}]
    /\ disturbed \in BOOLEAN
    /\ abandoned \in BOOLEAN

\* TypeOK says the same.
LEMMA TypeParts == TypeOK <=> Typed
  BY DEF TypeOK, Typed, LoopsType, Cp

\* The same of the next state.
LEMMA TypePartsNext == TypeOK' <=> Typed'
  BY DEF TypeOK, Typed, LoopsType, Cp

ReadTo(f, l, v) == [f EXCEPT ![l].pc = "run", ![l].read = v]
PcTo(f, l, c) == [f EXCEPT ![l].pc = c]
PutTo(f, l, v) == [f EXCEPT ![l].pc = "put", ![l].read = v]
NewTo(f, l, c, v) == [f EXCEPT ![l].pc = c, ![l].new = v]
IdleTo(f, l) == [f EXCEPT ![l] = Idle]

OthersKeep(f, g, l) == \A m \in Loops \ {l} : g[m] = f[m]

\* A read writes the loop's pc and what it read.
LEMMA WriteRead ==
    ASSUME NEW S, NEW f \in LoopsType(S), NEW l \in Loops, NEW v \in S
    PROVE  LET g == ReadTo(f, l, v)
           IN  /\ g \in LoopsType(S) /\ OthersKeep(f, g, l)
               /\ g[l].pc = "run" /\ g[l].read = v /\ g[l].new = f[l].new
  BY DEF LoopsType, ReadTo, OthersKeep

\* A miss and a commit write the loop's pc alone.
LEMMA WritePc ==
    ASSUME NEW S, NEW f \in LoopsType(S), NEW l \in Loops, NEW c \in {"cold", "mirror"}
    PROVE  LET g == PcTo(f, l, c)
           IN  /\ g \in LoopsType(S) /\ OthersKeep(f, g, l)
               /\ g[l].pc = c /\ g[l].new = f[l].new
  BY DEF LoopsType, PcTo, OthersKeep

\* The end of a superstep writes the pc and forgets what was read.
LEMMA WritePut ==
    ASSUME NEW S, NEW f \in LoopsType(S), NEW l \in Loops, NEW v \in S
    PROVE  LET g == PutTo(f, l, v)
           IN  /\ g \in LoopsType(S) /\ OthersKeep(f, g, l)
               /\ g[l].pc = "put" /\ g[l].new = f[l].new
  BY DEF LoopsType, PutTo, OthersKeep

\* An insert and a mirror write the pc and what is being put.
LEMMA WriteNew ==
    ASSUME NEW S, NEW f \in LoopsType(S), NEW l \in Loops, NEW v \in S,
           NEW c \in {"commit", "run"}
    PROVE  LET g == NewTo(f, l, c, v)
           IN  /\ g \in LoopsType(S) /\ OthersKeep(f, g, l)
               /\ g[l].pc = c /\ g[l].new = v
  BY DEF LoopsType, NewTo, OthersKeep

\* A graph that returns leaves an idle record.
LEMMA WriteIdle ==
    ASSUME NEW f \in LoopsType(Cp), NEW l \in Loops
    PROVE  LET g == IdleTo(f, l)
           IN  /\ g \in LoopsType(Cp) /\ OthersKeep(f, g, l)
               /\ g[l].pc = "idle"
  <1>1. Missing \in Cp BY DEF Cp
  <1> QED BY <1>1 DEF LoopsType, Idle, IdleTo, OthersKeep

-----------------------------------------------------------------------------
(* The invariant holds at first and is kept *)

\* The initial state satisfies the invariant: both stores are empty.
LEMMA InitialState == Init => IInv
  <1> SUFFICES ASSUME Init PROVE IInv OBVIOUS
  <1>1. \A l \in Loops : loop[l].pc = "idle" BY DEF Init, Idle
  <1>2. TypeOK
    <2>1. Missing \in Cp BY DEF Cp
    <2>2. Idle \in [pc : {"idle", "cold", "run", "put", "commit", "mirror"}, read : Cp, new : Cp]
      BY <2>1 DEF Idle
    <2>3. loop \in LoopsType(Cp) BY <2>2 DEF Init, LoopsType
    <2>4. postgres \subseteq StoredCheckpoint /\ redis \in Cp BY <2>1 DEF Init
    <2>5. clock \in 0..MaxCheckpoints BY CheckpointerAssumption DEF Init
    <2>6. owes \in [Tasks -> {"nothing", "superstep", "put"}] BY DEF Init
    <2>7. disturbed \in BOOLEAN /\ abandoned \in BOOLEAN BY DEF Init
    <2>8. Typed BY <2>3, <2>4, <2>5, <2>6, <2>7 DEF Typed
    <2> QED BY <2>8, TypeParts
  <1>3. Stamps BY <1>1 DEF Init, Stamps
  <1>4. CacheIsDurable /\ Followed BY DEF Init, CacheIsDurable, Followed
  <1>5. MirrorsAreCommitted BY <1>1 DEF MirrorsAreCommitted
  <1>6. Owing BY <1>1, Pairs DEF Init, Owing
  <1>7. Undisturbed
    BY <1>1, Pairs DEF Init, Undisturbed, OneAtATime, CommitsGreatest, MirrorsGreatest,
                       CacheIsGreatest
  <1> QED BY <1>2, <1>3, <1>4, <1>5, <1>6, <1>7 DEF IInv

(***************************************************************************)
(* A step that leaves both stores as they are and makes no loop commit or  *)
(* mirror keeps what is said of the stores.                                *)
(***************************************************************************)
LEMMA StoresStay ==
    ASSUME IInv, UNCHANGED <<postgres, clock, redis>>,
           \A m \in Loops : loop'[m].pc \in {"commit", "mirror"} => loop'[m] = loop[m]
    PROVE  Stamps' /\ CacheIsDurable' /\ MirrorsAreCommitted'
  <1> USE DEF IInv
  <1>1. Stamps' BY DEF Stamps
  <1>2. CacheIsDurable' BY DEF CacheIsDurable
  <1>3. MirrorsAreCommitted' BY DEF MirrorsAreCommitted
  <1> QED BY <1>1, <1>2, <1>3

\* A graph that starts changes no store; a task beside another disturbs.
LEMMA HotStep ==
    ASSUME IInv, NEW t \in Tasks, NEW o \in {Run, Agent}, aget_tuple_hot(t, o)
    PROVE  IInv'
  <1> USE TypeParts DEF IInv, Typed
  <1> DEFINE l == <<t, o>>
  <1>0. l \in Loops /\ l[1] = t /\ l[2] = o BY Pairs
  <1>1. /\ loop[l].pc = "idle"
        /\ o = Agent => loop[<<t, Run>>].pc \in {"run", "put", "commit", "mirror"}
        /\ UNCHANGED <<postgres, clock, redis, abandoned>>
        /\ owes' = IF o = Agent THEN [owes EXCEPT ![t] = "superstep"] ELSE owes
        /\ disturbed' \in BOOLEAN
        /\ ~disturbed' => ~disturbed /\ \A u \in Tasks \ {t} : loop[<<u, Run>>].pc = "idle"
    BY DEF aget_tuple_hot, Starts
  <1>2. \/ loop' = PcTo(loop, l, "cold")
        \/ loop' = ReadTo(loop, l, redis)
    BY DEF aget_tuple_hot, ReadTo, PcTo
  <1> HIDE DEF l
  <1>3. /\ loop' \in LoopsType(Cp)
        /\ loop'[l].pc \in {"cold", "run"}
        /\ OthersKeep(loop, loop', l)
    BY <1>0, <1>2, WritePc, WriteRead
  <1>4. \A u \in Tasks, p \in {Run, Agent} : <<u, p>> # l => loop'[<<u, p>>] = loop[<<u, p>>]
    BY <1>3, Pairs DEF OthersKeep
  <1>5. /\ owes' \in [Tasks -> {"nothing", "superstep", "put"}]
        /\ \A u \in Tasks \ {t} : owes'[u] = owes[u]
        /\ owes'[t] = IF o = Agent THEN "superstep" ELSE owes[t]
    BY <1>1
  <1>6. \A u \in Tasks : /\ <<u, Run>> = l <=> u = t /\ o = Run
                         /\ <<u, Agent>> = l <=> u = t /\ o = Agent
    BY Pairs DEF l
  <1>7. TypeOK' BY <1>1, <1>3, <1>5, TypePartsNext
  <1>8. Stamps' /\ CacheIsDurable' /\ MirrorsAreCommitted'
    BY <1>1, <1>3, StoresStay DEF OthersKeep
  <1>9. Owing'
    <2> SUFFICES ASSUME NEW u \in Tasks
                 PROVE  /\ loop'[<<u, Agent>>].pc # "idle" => owes'[u] = "superstep"
                        /\ owes'[u] = "put" => loop'[<<u, Run>>].pc \in {"put", "commit"}
                        /\ loop'[<<u, Run>>].pc \in {"idle", "cold"} => owes'[u] = "nothing"
      BY DEF Owing
    <2>1. CASE u = t /\ o = Run BY <2>1, <1>1, <1>3, <1>4, <1>5, <1>6, Pairs DEF Owing
    <2>2. CASE u = t /\ o = Agent BY <2>2, <1>1, <1>3, <1>4, <1>5, <1>6, Pairs DEF Owing
    <2>3. CASE u # t BY <2>3, <1>4, <1>5, <1>6, Pairs DEF Owing
    <2> QED BY <2>1, <2>2, <2>3
  <1>10. \A r \in postgres : OnItsWay(r) => OnItsWay(r)'
    <2> SUFFICES ASSUME NEW r \in postgres, NEW u \in Tasks,
                        \/ owes[u] = "superstep"
                        \/ /\ owes[u] = "put"
                           /\ \/ loop[<<u, Run>>].pc = "put"
                              \/ loop[<<u, Run>>].pc = "commit" /\ r.at < loop[<<u, Run>>].new.at
                 PROVE  OnItsWay(r)'
      BY DEF OnItsWay
    <2>1. CASE u = t /\ o = Agent BY <2>1, <1>5 DEF OnItsWay
    <2>2. CASE ~(u = t /\ o = Agent)
      <3>1. owes'[u] = owes[u] BY <2>2, <1>5
      <3>2. loop[<<u, Run>>].pc # "idle" \/ owes[u] = "superstep" BY DEF Owing
      <3>3. owes[u] = "superstep" \/ loop'[<<u, Run>>] = loop[<<u, Run>>]
        BY <3>2, <1>1, <1>4, <1>6
      <3> QED BY <3>1, <3>3 DEF OnItsWay
    <2> QED BY <2>1, <2>2
  <1>11. Followed' BY <1>1, <1>10 DEF Followed
  <1>12. Undisturbed'
    <2> SUFFICES ASSUME ~disturbed'
                 PROVE  (~abandoned /\ OneAtATime
                           /\ CommitsGreatest /\ MirrorsGreatest /\ CacheIsGreatest)'
      BY DEF Undisturbed
    <2>1. ~abandoned /\ CommitsGreatest /\ MirrorsGreatest /\ CacheIsGreatest
      BY <1>1 DEF Undisturbed
    <2>2. OneAtATime'
      <3>1. \A u \in Tasks \ {t} : loop'[<<u, Run>>].pc = "idle" BY <1>1, <1>4, <1>6, Pairs
      <3> QED BY <3>1 DEF OneAtATime
    <2>3. CommitsGreatest' BY <1>1, <1>3, <1>4, <1>5, <1>6, <2>1, Pairs DEF CommitsGreatest
    <2>4. MirrorsGreatest'
      BY <1>1, <1>3, <1>4, <1>5, <1>6, <2>1, Pairs DEF MirrorsGreatest, IsGreatest
    <2>5. CacheIsGreatest'
      BY <1>1, <1>3, <1>4, <1>5, <1>6, <2>1, Pairs DEF CacheIsGreatest, IsGreatest
    <2> QED BY <1>1, <2>1, <2>2, <2>3, <2>4, <2>5
  <1> QED BY <1>7, <1>8, <1>9, <1>11, <1>12

\* The facts of a step of one loop that the lemmas below start from.
Moves(t, o) ==
    LET l == <<t, o>>
    IN  /\ loop' \in LoopsType(Cp)
        /\ \A m \in Loops \ {l} : loop'[m] = loop[m]
        /\ \A u \in Tasks, p \in {Run, Agent} : u # t \/ p # o => loop'[<<u, p>>] = loop[<<u, p>>]

\* What OthersKeep says, for the loops of tasks.
LEMMA MovesOne ==
    ASSUME NEW t \in Tasks, NEW o \in {Run, Agent},
           loop' \in LoopsType(Cp), OthersKeep(loop, loop', <<t, o>>)
    PROVE  Moves(t, o)
  BY Pairs DEF Moves, OthersKeep

\* A step that commits nothing and leaves the puts that are owed alone keeps Followed.
LEMMA FollowedStays ==
    ASSUME Followed, UNCHANGED <<postgres, owes, abandoned>>,
           \A u \in Tasks : owes[u] = "put" => loop'[<<u, Run>>] = loop[<<u, Run>>]
    PROVE  Followed'
  <1>1. \A r \in postgres : OnItsWay(r) => OnItsWay(r)'
    <2> SUFFICES ASSUME NEW r \in postgres, NEW u \in Tasks,
                        \/ owes[u] = "superstep"
                        \/ /\ owes[u] = "put"
                           /\ \/ loop[<<u, Run>>].pc = "put"
                              \/ loop[<<u, Run>>].pc = "commit" /\ r.at < loop[<<u, Run>>].new.at
                 PROVE  OnItsWay(r)'
      BY DEF OnItsWay
    <2>1. CASE owes[u] = "superstep" BY <2>1 DEF OnItsWay
    <2>2. CASE owes[u] = "put" BY <2>2 DEF OnItsWay
    <2> QED BY <2>1, <2>2
  <1> QED BY <1>1 DEF Followed

\* A miss in Redis is answered by PostgreSQL: the loop goes on to its supersteps.
LEMMA ColdStep ==
    ASSUME IInv, NEW t \in Tasks, NEW o \in {Run, Agent}, aget_tuple_cold(t, o)
    PROVE  IInv'
  <1> USE TypeParts DEF IInv, Typed
  <1> DEFINE l == <<t, o>>
  <1>0. l \in Loops BY Pairs
  <1>1. /\ loop[l].pc = "cold" /\ loop' = ReadTo(loop, l, Latest)
        /\ UNCHANGED <<postgres, clock, redis, owes, disturbed, abandoned>>
    BY DEF aget_tuple_cold, ReadTo
  <1>2. Latest \in Cp BY LatestType
  <1>3. loop' \in LoopsType(Cp) /\ loop'[l].pc = "run" /\ OthersKeep(loop, loop', l)
    BY <1>0, <1>1, <1>2, WriteRead
  <1>4. Moves(t, o) BY <1>3, MovesOne
  <1>5. TypeOK' BY <1>1, <1>3, TypePartsNext
  <1>6. Stamps' /\ CacheIsDurable' /\ MirrorsAreCommitted'
    BY <1>1, <1>3, <1>4, StoresStay DEF Moves
  <1>7. Owing' BY <1>1, <1>3, <1>4 DEF Owing, Moves
  <1>8. \A u \in Tasks : owes[u] = "put" => loop'[<<u, Run>>] = loop[<<u, Run>>]
    BY <1>1, <1>4 DEF Owing, Moves
  <1>10. Followed' BY <1>1, <1>8, FollowedStays
  <1>11. Undisturbed'
    <2> SUFFICES ASSUME ~disturbed'
                 PROVE  (~abandoned /\ OneAtATime
                           /\ CommitsGreatest /\ MirrorsGreatest /\ CacheIsGreatest)'
      BY DEF Undisturbed
    <2>1. /\ ~abandoned /\ OneAtATime
          /\ CommitsGreatest /\ MirrorsGreatest /\ CacheIsGreatest
      BY <1>1 DEF Undisturbed
    <2>2. \A u \in Tasks : loop'[<<u, Run>>].pc # "idle" => loop[<<u, Run>>].pc # "idle"
      BY <1>1, <1>4 DEF Moves
    <2>3. \A u \in Tasks : loop'[<<u, Run>>].pc \in {"commit", "mirror"}
                             => loop'[<<u, Run>>] = loop[<<u, Run>>]
      BY <1>3, <1>4 DEF Moves
    <2>4. \A u \in Tasks : loop[<<u, Run>>].pc = "mirror" => loop'[<<u, Run>>].pc = "mirror"
      BY <1>1, <1>4 DEF Moves
    <2>5. OneAtATime' BY <2>1, <2>2 DEF OneAtATime
    <2>6. CommitsGreatest' BY <1>1, <2>1, <2>3 DEF CommitsGreatest
    <2>7. MirrorsGreatest' BY <1>1, <2>1, <2>3 DEF MirrorsGreatest, IsGreatest
    <2>8. CacheIsGreatest' BY <1>1, <2>1, <2>4 DEF CacheIsGreatest, IsGreatest
    <2> QED BY <1>1, <2>1, <2>5, <2>6, <2>7, <2>8
  <1> QED BY <1>5, <1>6, <1>7, <1>10, <1>11

\* A superstep hands its checkpoint over; the run's ends what an agent's graph owed to
\* the put, with the agent's graph at its end.
LEMMA SuperstepStep ==
    ASSUME IInv, NEW t \in Tasks, NEW o \in {Run, Agent}, superstep(t, o)
    PROVE  IInv'
  <1> USE TypeParts DEF IInv, Typed
  <1> DEFINE l == <<t, o>>
             pays == o = Run /\ owes[t] = "superstep"
  <1>0. l \in Loops /\ Missing \in Cp BY Pairs DEF Cp
  <1>1. /\ loop[l].pc = "run" /\ loop' = PutTo(loop, l, Missing)
        /\ o = Run => loop[<<t, Agent>>].pc = "idle"
        /\ owes' = IF pays THEN [owes EXCEPT ![t] = "put"] ELSE owes
        /\ UNCHANGED <<postgres, clock, redis, disturbed, abandoned>>
    BY DEF superstep, PutTo
  <1>2. loop' \in LoopsType(Cp) /\ loop'[l].pc = "put" /\ OthersKeep(loop, loop', l)
    BY <1>0, <1>1, WritePut
  <1>3. Moves(t, o) BY <1>2, MovesOne
  <1>4. /\ owes' \in [Tasks -> {"nothing", "superstep", "put"}]
        /\ \A u \in Tasks : u # t \/ ~pays => owes'[u] = owes[u]
        /\ pays => owes'[t] = "put"
    BY <1>1
  <1> HIDE DEF pays
  <1>5. TypeOK' BY <1>1, <1>2, <1>4, TypePartsNext
  <1>6. Stamps' /\ CacheIsDurable' /\ MirrorsAreCommitted'
    BY <1>1, <1>2, <1>3, StoresStay DEF Moves
  <1>7. owes[t] # "superstep" => owes[t] = "nothing" /\ owes'[t] = "nothing"
    BY <1>1, <1>4, Pairs DEF Owing, pays
  <1>8. Owing'
    <2> SUFFICES ASSUME NEW u \in Tasks
                 PROVE  /\ loop'[<<u, Agent>>].pc # "idle" => owes'[u] = "superstep"
                        /\ owes'[u] = "put" => loop'[<<u, Run>>].pc \in {"put", "commit"}
                        /\ loop'[<<u, Run>>].pc \in {"idle", "cold"} => owes'[u] = "nothing"
      BY DEF Owing
    <2>1. CASE u = t /\ o = Run
      BY <2>1, <1>1, <1>2, <1>3, <1>4, <1>7, Pairs DEF Owing, Moves, pays
    <2>2. CASE u = t /\ o = Agent
      BY <2>2, <1>1, <1>2, <1>3, <1>4, Pairs DEF Owing, Moves, pays
    <2>3. CASE u # t BY <2>3, <1>3, <1>4 DEF Owing, Moves
    <2> QED BY <2>1, <2>2, <2>3
  <1>9. \A r \in postgres : OnItsWay(r) => OnItsWay(r)'
    <2> SUFFICES ASSUME NEW r \in postgres, NEW u \in Tasks,
                        \/ owes[u] = "superstep"
                        \/ /\ owes[u] = "put"
                           /\ \/ loop[<<u, Run>>].pc = "put"
                              \/ loop[<<u, Run>>].pc = "commit" /\ r.at < loop[<<u, Run>>].new.at
                 PROVE  OnItsWay(r)'
      BY DEF OnItsWay
    <2>1. CASE u = t /\ pays
      <3>1. owes'[t] = "put" /\ loop'[<<t, Run>>].pc = "put" BY <2>1, <1>2, <1>4 DEF pays
      <3> QED BY <3>1 DEF OnItsWay
    <2>2. CASE u = t /\ ~pays BY <2>2, <1>4, <1>7 DEF OnItsWay
    <2>3. CASE u # t BY <2>3, <1>3, <1>4 DEF OnItsWay, Moves
    <2> QED BY <2>1, <2>2, <2>3
  <1>10. Followed' BY <1>1, <1>9 DEF Followed
  <1>11. Undisturbed'
    <2> SUFFICES ASSUME ~disturbed'
                 PROVE  (~abandoned /\ OneAtATime
                           /\ CommitsGreatest /\ MirrorsGreatest /\ CacheIsGreatest)'
      BY DEF Undisturbed
    <2>1. /\ ~abandoned /\ OneAtATime
          /\ CommitsGreatest /\ MirrorsGreatest /\ CacheIsGreatest
      BY <1>1 DEF Undisturbed
    <2>2. \A u \in Tasks : loop'[<<u, Run>>].pc # "idle" => loop[<<u, Run>>].pc # "idle"
      BY <1>1, <1>3 DEF Moves
    <2>3. \A u \in Tasks : loop'[<<u, Run>>].pc \in {"commit", "mirror"}
             => loop'[<<u, Run>>] = loop[<<u, Run>>] /\ owes'[u] = owes[u]
      BY <1>1, <1>2, <1>3, <1>4 DEF Moves, pays
    <2>4. \A u \in Tasks : loop[<<u, Run>>].pc = "mirror" => loop'[<<u, Run>>].pc = "mirror"
      BY <1>1, <1>3 DEF Moves
    <2>5. \A u \in Tasks : owes'[u] = "nothing" => owes[u] = "nothing" BY <1>4
    <2>6. OneAtATime' BY <2>1, <2>2 DEF OneAtATime
    <2>7. CommitsGreatest' BY <1>1, <2>1, <2>3 DEF CommitsGreatest
    <2>8. MirrorsGreatest' BY <1>1, <2>1, <2>3 DEF MirrorsGreatest, IsGreatest
    <2>9. CacheIsGreatest' BY <1>1, <2>1, <2>4, <2>5 DEF CacheIsGreatest, IsGreatest
    <2> QED BY <1>1, <2>1, <2>6, <2>7, <2>8, <2>9
  <1> QED BY <1>5, <1>6, <1>8, <1>10, <1>11

\* An insert takes a created_at greater than any before it.
LEMMA InsertStep ==
    ASSUME IInv, NEW t \in Tasks, NEW o \in {Run, Agent}, aput_insert(t, o)
    PROVE  IInv'
  <1> USE TypeParts DEF IInv, Typed
  <1> DEFINE l == <<t, o>>
             new == [at |-> clock + 1, of |-> o]
  <1>0. l \in Loops /\ l[1] = t /\ l[2] = o BY Pairs
  <1>1. /\ loop[l].pc = "put" /\ loop' = NewTo(loop, l, "commit", new)
        /\ clock < MaxCheckpoints /\ clock' = clock + 1
        /\ UNCHANGED <<postgres, redis, owes, disturbed, abandoned>>
    BY DEF aput_insert, NewTo
  <1>2. MaxCheckpoints \in Nat /\ clock \in Nat /\ clock' \in 0..MaxCheckpoints
    BY <1>1, CheckpointerAssumption
  <1>3. /\ new \in StoredCheckpoint /\ new.at = clock + 1 /\ new.of = o
    BY <1>1, <1>2 DEF StoredCheckpoint
  <1> HIDE DEF new
  <1>4. new \in Cp BY <1>3 DEF Cp
  <1>5. /\ loop' \in LoopsType(Cp) /\ OthersKeep(loop, loop', l)
        /\ loop'[l].pc = "commit" /\ loop'[l].new = new
    BY <1>0, <1>1, <1>4, WriteNew
  <1>6. Moves(t, o) BY <1>5, MovesOne
  <1>7. TypeOK' BY <1>1, <1>2, <1>5, TypePartsNext
  <1>8. \A r \in postgres : r.at \in Nat /\ r.at <= clock
    BY DEF Stamps, StoredCheckpoint
  <1>9. \A m \in Loops : loop[m].pc = "commit" => loop[m].new.at \in Nat /\ loop[m].new.at <= clock
    BY DEF Stamps, StoredCheckpoint
  <1>10. Stamps'
    <2>1. \A r \in postgres' : r.at <= clock' BY <1>1, <1>2, <1>8
    <2>2. \A q, r \in postgres' : q.at = r.at => q = r BY <1>1 DEF Stamps
    <2>3. ASSUME NEW m \in Loops, loop'[m].pc = "commit"
          PROVE  /\ loop'[m].new \in StoredCheckpoint
                 /\ loop'[m].new.of = m[2]
                 /\ loop'[m].new.at <= clock'
                 /\ \A r \in postgres' : r.at # loop'[m].new.at
      <3>1. CASE m = l BY <3>1, <1>0, <1>1, <1>2, <1>3, <1>5, <1>8
      <3>2. CASE m # l
        <4>1. loop'[m] = loop[m] BY <3>2, <1>6 DEF Moves
        <4> QED BY <4>1, <2>3, <1>1, <1>2, <1>9 DEF Stamps
      <3> QED BY <3>1, <3>2
    <2>4. \A m, n \in Loops : loop'[m].pc = "commit" /\ loop'[n].pc = "commit" /\ m # n
                                => loop'[m].new.at # loop'[n].new.at
      BY <1>2, <1>3, <1>5, <1>6, <1>9 DEF Stamps, Moves
    <2> QED BY <2>1, <2>2, <2>3, <2>4 DEF Stamps
  <1>11. CacheIsDurable' BY <1>1 DEF CacheIsDurable
  <1>12. MirrorsAreCommitted' BY <1>1, <1>5, <1>6 DEF MirrorsAreCommitted, Moves
  <1>13. Owing' BY <1>1, <1>5, <1>6 DEF Owing, Moves
  <1>14. \A r \in postgres : OnItsWay(r) => OnItsWay(r)'
    <2> SUFFICES ASSUME NEW r \in postgres, NEW u \in Tasks,
                        \/ owes[u] = "superstep"
                        \/ /\ owes[u] = "put"
                           /\ \/ loop[<<u, Run>>].pc = "put"
                              \/ loop[<<u, Run>>].pc = "commit" /\ r.at < loop[<<u, Run>>].new.at
                 PROVE  OnItsWay(r)'
      BY DEF OnItsWay
    <2>1. CASE u = t /\ o = Run BY <2>1, <1>1, <1>2, <1>3, <1>5, <1>8 DEF OnItsWay
    <2>2. CASE u # t \/ o # Run BY <2>2, <1>1, <1>6 DEF OnItsWay, Moves
    <2> QED BY <2>1, <2>2
  <1>15. Followed' BY <1>1, <1>14 DEF Followed
  <1>16. Undisturbed'
    <2> SUFFICES ASSUME ~disturbed'
                 PROVE  (~abandoned /\ OneAtATime
                           /\ CommitsGreatest /\ MirrorsGreatest /\ CacheIsGreatest)'
      BY DEF Undisturbed
    <2>1. /\ ~abandoned /\ OneAtATime
          /\ CommitsGreatest /\ MirrorsGreatest /\ CacheIsGreatest
      BY <1>1 DEF Undisturbed
    <2>2. \A u \in Tasks : /\ loop'[<<u, Run>>].pc # "idle" <=> loop[<<u, Run>>].pc # "idle"
                           /\ loop'[<<u, Run>>].pc = "mirror" <=> loop[<<u, Run>>].pc = "mirror"
                           /\ loop'[<<u, Run>>].pc = "mirror"
                                => loop'[<<u, Run>>] = loop[<<u, Run>>]
      BY <1>1, <1>5, <1>6 DEF Moves
    <2>3. OneAtATime' BY <2>1, <2>2 DEF OneAtATime
    <2>4. CommitsGreatest'
      <3> SUFFICES ASSUME NEW u \in Tasks, loop'[<<u, Run>>].pc = "commit", owes[u] # "superstep",
                          NEW r \in postgres
                   PROVE  r.at < loop'[<<u, Run>>].new.at
        BY <1>1 DEF CommitsGreatest
      <3>1. CASE u = t /\ o = Run BY <3>1, <1>2, <1>3, <1>5, <1>8
      <3>2. CASE u # t \/ o # Run
        <4>1. loop'[<<u, Run>>] = loop[<<u, Run>>] BY <3>2, <1>6 DEF Moves
        <4> QED BY <4>1, <2>1 DEF CommitsGreatest
      <3> QED BY <3>1, <3>2
    <2>5. MirrorsGreatest' BY <1>1, <2>1, <2>2 DEF MirrorsGreatest, IsGreatest
    <2>6. CacheIsGreatest' BY <1>1, <2>1, <2>2 DEF CacheIsGreatest, IsGreatest
    <2> QED BY <1>1, <2>1, <2>3, <2>4, <2>5, <2>6
  <1> QED BY <1>7, <1>10, <1>11, <1>12, <1>13, <1>15, <1>16

\* A commit: what the put owed the run is there, greater than the agent's checkpoints.
LEMMA CommitStep ==
    ASSUME IInv, NEW t \in Tasks, NEW o \in {Run, Agent}, aput_commit(t, o)
    PROVE  IInv'
  <1> USE TypeParts DEF IInv, Typed
  <1> DEFINE l == <<t, o>>
             new == loop[l].new
             pays == o = Run /\ owes[t] = "put"
  <1>0. l \in Loops /\ l[1] = t /\ l[2] = o BY Pairs
  <1>1. /\ loop[l].pc = "commit" /\ loop' = PcTo(loop, l, "mirror")
        /\ postgres' = postgres \cup {new}
        /\ owes' = IF pays THEN [owes EXCEPT ![t] = "nothing"] ELSE owes
        /\ UNCHANGED <<clock, redis, disturbed, abandoned>>
    BY DEF aput_commit, PcTo
  <1>2. /\ loop' \in LoopsType(Cp) /\ OthersKeep(loop, loop', l)
        /\ loop'[l].pc = "mirror" /\ loop'[l].new = new
    BY <1>0, <1>1, WritePc
  <1>3. Moves(t, o) BY <1>2, MovesOne
  <1>4. /\ owes' \in [Tasks -> {"nothing", "superstep", "put"}]
        /\ \A u \in Tasks : u # t \/ ~pays => owes'[u] = owes[u]
        /\ pays => owes'[t] = "nothing"
    BY <1>1
  <1>5. /\ new \in StoredCheckpoint /\ new.of = o /\ new.at <= clock
        /\ \A r \in postgres : r.at # new.at
        /\ \A m \in Loops : loop[m].pc = "commit" /\ m # l => loop[m].new.at # new.at
    BY <1>0, <1>1 DEF Stamps
  <1>6. clock \in Nat /\ new.at \in Nat /\ \A r \in postgres : r.at \in Nat
    BY <1>5, CheckpointerAssumption DEF StoredCheckpoint
  <1> HIDE DEF new, pays
  <1>7. TypeOK' BY <1>1, <1>2, <1>4, <1>5, TypePartsNext
  <1>8. Stamps'
    <2>1. \A r \in postgres' : r.at <= clock' BY <1>1, <1>5 DEF Stamps
    <2>2. \A q, r \in postgres' : q.at = r.at => q = r BY <1>1, <1>5 DEF Stamps
    <2>3. ASSUME NEW m \in Loops, loop'[m].pc = "commit"
          PROVE  /\ loop'[m].new \in StoredCheckpoint
                 /\ loop'[m].new.of = m[2]
                 /\ loop'[m].new.at <= clock'
                 /\ \A r \in postgres' : r.at # loop'[m].new.at
      <3>1. m # l /\ loop'[m] = loop[m] BY <2>3, <1>2, <1>3 DEF Moves
      <3> QED BY <3>1, <2>3, <1>1, <1>5 DEF Stamps
    <2>4. \A m, n \in Loops : loop'[m].pc = "commit" /\ loop'[n].pc = "commit" /\ m # n
                                => loop'[m].new.at # loop'[n].new.at
      BY <1>2, <1>3 DEF Stamps, Moves
    <2> QED BY <2>1, <2>2, <2>3, <2>4 DEF Stamps
  <1>9. CacheIsDurable' BY <1>1 DEF CacheIsDurable
  <1>10. MirrorsAreCommitted' BY <1>1, <1>2, <1>3 DEF MirrorsAreCommitted, Moves
  <1>11. Owing'
    <2> SUFFICES ASSUME NEW u \in Tasks
                 PROVE  /\ loop'[<<u, Agent>>].pc # "idle" => owes'[u] = "superstep"
                        /\ owes'[u] = "put" => loop'[<<u, Run>>].pc \in {"put", "commit"}
                        /\ loop'[<<u, Run>>].pc \in {"idle", "cold"} => owes'[u] = "nothing"
      BY DEF Owing
    <2>1. CASE u = t /\ o = Run
      BY <2>1, <1>1, <1>2, <1>3, <1>4, Pairs DEF Owing, Moves, pays
    <2>2. CASE u = t /\ o = Agent
      BY <2>2, <1>1, <1>2, <1>3, <1>4, Pairs DEF Owing, Moves, pays
    <2>3. CASE u # t BY <2>3, <1>3, <1>4 DEF Owing, Moves
    <2> QED BY <2>1, <2>2, <2>3
  <1>12. Followed'
    <2> SUFFICES ASSUME NEW r \in postgres', r.of = Agent, ~abandoned
                 PROVE  (\E q \in postgres' : q.of = Run /\ r.at < q.at) \/ OnItsWay(r)'
      BY <1>1 DEF Followed
    <2>1. CASE r \notin postgres
      <3>1. r = new /\ o = Agent BY <2>1, <1>1, <1>5, Pairs
      <3>2. owes[t] = "superstep" BY <3>1, <1>1 DEF Owing
      <3>3. owes'[t] = "superstep" BY <3>1, <3>2, <1>4, Pairs DEF pays
      <3> QED BY <3>3 DEF OnItsWay
    <2>2. CASE \E q \in postgres : q.of = Run /\ r.at < q.at BY <2>2, <1>1
    <2>3. CASE r \in postgres /\ OnItsWay(r)
      <3>1. PICK u \in Tasks :
                \/ owes[u] = "superstep"
                \/ /\ owes[u] = "put"
                   /\ \/ loop[<<u, Run>>].pc = "put"
                      \/ loop[<<u, Run>>].pc = "commit" /\ r.at < loop[<<u, Run>>].new.at
        BY <2>3 DEF OnItsWay
      <3>2. CASE u = t /\ pays
        <4>1. o = Run /\ r.at < new.at BY <3>1, <3>2, <1>1 DEF pays, new
        <4> QED BY <4>1, <1>1, <1>5
      <3>3. CASE u = t /\ ~pays
        <4>1. owes'[u] = owes[u] BY <3>3, <1>4
        <4>2. owes[u] = "superstep" \/ loop'[<<u, Run>>] = loop[<<u, Run>>]
          BY <3>1, <3>3, <1>3, Pairs DEF pays, Moves
        <4> QED BY <3>1, <4>1, <4>2 DEF OnItsWay
      <3>4. CASE u # t
        <4>1. owes'[u] = owes[u] /\ loop'[<<u, Run>>] = loop[<<u, Run>>]
          BY <3>4, <1>3, <1>4 DEF Moves
        <4> QED BY <3>1, <4>1 DEF OnItsWay
      <3> QED BY <3>2, <3>3, <3>4
    <2> QED BY <2>1, <2>2, <2>3 DEF Followed
  <1>13. Undisturbed'
    <2> SUFFICES ASSUME ~disturbed'
                 PROVE  (~abandoned /\ OneAtATime
                           /\ CommitsGreatest /\ MirrorsGreatest /\ CacheIsGreatest)'
      BY DEF Undisturbed
    <2>1. /\ ~abandoned /\ OneAtATime
          /\ CommitsGreatest /\ MirrorsGreatest /\ CacheIsGreatest
      BY <1>1 DEF Undisturbed
    <2>2. \A u \in Tasks : loop'[<<u, Run>>].pc # "idle" <=> loop[<<u, Run>>].pc # "idle"
      BY <1>1, <1>2, <1>3 DEF Moves
    <2>3. OneAtATime' BY <2>1, <2>2 DEF OneAtATime
    <2>4. loop[<<t, Run>>].pc # "idle"
      BY <1>1, Pairs DEF Owing
    <2>5. \A u \in Tasks \ {t} : loop'[<<u, Run>>].pc = "idle" BY <2>1, <2>2, <2>4 DEF OneAtATime
    <2>6. o = Agent => owes'[t] = "superstep" BY <1>1, <1>4, Pairs DEF Owing, pays
    <2>7. CommitsGreatest'
      BY <1>2, <2>5, <2>6, Pairs DEF CommitsGreatest
    <2>8. MirrorsGreatest'
      <3> SUFFICES ASSUME loop'[<<t, Run>>].pc = "mirror", owes'[t] # "superstep"
                   PROVE  IsGreatest(loop[<<t, Run>>].new)'
        BY <2>5 DEF MirrorsGreatest
      <3>1. o = Run /\ owes[t] # "superstep" BY <2>6, <1>4 DEF pays
      <3>2. \A r \in postgres : r.at < new.at
        BY <3>1, <1>1, <2>1 DEF CommitsGreatest, new
      <3> QED BY <3>1, <3>2, <1>1, <1>2, <1>6 DEF IsGreatest
    <2>9. CacheIsGreatest' BY <1>2, <2>6 DEF CacheIsGreatest
    <2> QED BY <1>1, <2>1, <2>3, <2>7, <2>8, <2>9
  <1> QED BY <1>7, <1>8, <1>9, <1>10, <1>11, <1>12, <1>13

\* A mirror writes what was committed, or fails and disturbs.
LEMMA MirrorStep ==
    ASSUME IInv, NEW t \in Tasks, NEW o \in {Run, Agent}, aput_redis(t, o)
    PROVE  IInv'
  <1> USE TypeParts DEF IInv, Typed
  <1> DEFINE l == <<t, o>>
  <1>0. l \in Loops /\ Missing \in Cp /\ loop[l].new \in Cp BY Pairs DEF Cp, LoopsType
  <1>1. /\ loop[l].pc = "mirror" /\ loop' = NewTo(loop, l, "run", Missing)
        /\ \/ redis' = loop[l].new /\ UNCHANGED disturbed
           \/ disturbed' = TRUE /\ UNCHANGED redis
        /\ UNCHANGED <<postgres, clock, owes, abandoned>>
    BY DEF aput_redis, NewTo
  <1>2. loop' \in LoopsType(Cp) /\ loop'[l].pc = "run" /\ OthersKeep(loop, loop', l)
    BY <1>0, <1>1, WriteNew
  <1>3. Moves(t, o) BY <1>2, MovesOne
  <1>4. TypeOK' BY <1>0, <1>1, <1>2, TypePartsNext
  <1>5. Stamps' BY <1>1, <1>2, <1>3 DEF Stamps, Moves
  <1>6. CacheIsDurable' BY <1>0, <1>1 DEF CacheIsDurable, MirrorsAreCommitted
  <1>7. MirrorsAreCommitted' BY <1>1, <1>2, <1>3 DEF MirrorsAreCommitted, Moves
  <1>8. Owing' BY <1>1, <1>2, <1>3 DEF Owing, Moves
  <1>9. \A u \in Tasks : owes[u] = "put" => loop'[<<u, Run>>] = loop[<<u, Run>>]
    BY <1>1, <1>3 DEF Owing, Moves
  <1>10. Followed' BY <1>1, <1>9, FollowedStays
  <1>11. Undisturbed'
    <2> SUFFICES ASSUME ~disturbed'
                 PROVE  (~abandoned /\ OneAtATime
                           /\ CommitsGreatest /\ MirrorsGreatest /\ CacheIsGreatest)'
      BY DEF Undisturbed
    <2>1. /\ ~abandoned /\ OneAtATime
          /\ CommitsGreatest /\ MirrorsGreatest /\ CacheIsGreatest
          /\ redis' = loop[l].new
      BY <1>1 DEF Undisturbed
    <2>2. \A u \in Tasks : loop'[<<u, Run>>].pc # "idle" <=> loop[<<u, Run>>].pc # "idle"
      BY <1>1, <1>2, <1>3 DEF Moves
    <2>3. OneAtATime' BY <2>1, <2>2 DEF OneAtATime
    <2>4. \A u \in Tasks : loop'[<<u, Run>>].pc \in {"commit", "mirror"}
                             => loop'[<<u, Run>>] = loop[<<u, Run>>]
      BY <1>2, <1>3 DEF Moves
    <2>5. CommitsGreatest' BY <1>1, <2>1, <2>4 DEF CommitsGreatest
    <2>6. MirrorsGreatest' BY <1>1, <2>1, <2>4 DEF MirrorsGreatest, IsGreatest
    <2>7. CacheIsGreatest'
      <3> SUFFICES ASSUME owes[t] = "nothing" PROVE IsGreatest(redis)'
        BY <1>1 DEF CacheIsGreatest
      <3>1. o = Run BY <1>1, Pairs DEF Owing
      <3>2. IsGreatest(loop[l].new) BY <3>1, <1>1, <2>1 DEF MirrorsGreatest
      <3> QED BY <3>2, <1>1, <2>1 DEF IsGreatest
    <2> QED BY <1>1, <2>1, <2>3, <2>5, <2>6, <2>7
  <1> QED BY <1>4, <1>5, <1>6, <1>7, <1>8, <1>10, <1>11

\* A graph that returns leaves the stores as they are; the run's owes nothing then.
LEMMA ReturnStep ==
    ASSUME IInv, NEW t \in Tasks, NEW o \in {Run, Agent}, return(t, o)
    PROVE  IInv'
  <1> USE TypeParts DEF IInv, Typed
  <1> DEFINE l == <<t, o>>
  <1>0. l \in Loops BY Pairs
  <1>1. /\ loop[l].pc = "run" /\ loop' = IdleTo(loop, l)
        /\ o = Run => loop[<<t, Agent>>].pc = "idle" /\ owes[t] = "nothing"
        /\ UNCHANGED <<postgres, clock, redis, owes, disturbed, abandoned>>
    BY DEF return, IdleTo
  <1>2. loop' \in LoopsType(Cp) /\ loop'[l].pc = "idle" /\ OthersKeep(loop, loop', l)
    BY <1>0, <1>1, WriteIdle
  <1>3. Moves(t, o) BY <1>2, MovesOne
  <1>4. TypeOK' BY <1>1, <1>2, TypePartsNext
  <1>5. Stamps' /\ CacheIsDurable' /\ MirrorsAreCommitted'
    BY <1>1, <1>2, <1>3, StoresStay DEF Moves
  <1>6. Owing' BY <1>1, <1>2, <1>3 DEF Owing, Moves
  <1>7. \A u \in Tasks : loop[<<u, Run>>].pc \in {"put", "commit", "mirror"}
                           => loop'[<<u, Run>>] = loop[<<u, Run>>]
    BY <1>1, <1>3 DEF Moves
  <1>8. Followed'
    <2>1. \A u \in Tasks : owes[u] = "put" => loop'[<<u, Run>>] = loop[<<u, Run>>]
      BY <1>7 DEF Owing
    <2> QED BY <1>1, <2>1, FollowedStays
  <1>9. Undisturbed'
    <2> SUFFICES ASSUME ~disturbed'
                 PROVE  (~abandoned /\ OneAtATime
                           /\ CommitsGreatest /\ MirrorsGreatest /\ CacheIsGreatest)'
      BY DEF Undisturbed
    <2>1. /\ ~abandoned /\ OneAtATime
          /\ CommitsGreatest /\ MirrorsGreatest /\ CacheIsGreatest
      BY <1>1 DEF Undisturbed
    <2>2. \A u \in Tasks : /\ loop'[<<u, Run>>].pc # "idle" => loop[<<u, Run>>].pc # "idle"
                           /\ loop'[<<u, Run>>].pc \in {"commit", "mirror"}
                                => loop'[<<u, Run>>] = loop[<<u, Run>>]
      BY <1>2, <1>3 DEF Moves
    <2>3. OneAtATime' BY <2>1, <2>2 DEF OneAtATime
    <2>4. CommitsGreatest' BY <1>1, <2>1, <2>2 DEF CommitsGreatest
    <2>5. MirrorsGreatest' BY <1>1, <2>1, <2>2 DEF MirrorsGreatest, IsGreatest
    <2>6. CacheIsGreatest' BY <1>1, <1>7, <2>1 DEF CacheIsGreatest, IsGreatest
    <2> QED BY <1>1, <2>1, <2>3, <2>4, <2>5, <2>6
  <1> QED BY <1>4, <1>5, <1>6, <1>8, <1>9

\* A task that dies disturbs, and abandons what it owed.
LEMMA CrashStep ==
    ASSUME IInv, NEW t \in Tasks, crash(t)
    PROVE  IInv'
  <1> USE TypeParts DEF IInv, Typed
  <1>1. /\ loop' = [l \in Loops |-> IF l[1] = t THEN Idle ELSE loop[l]]
        /\ owes' = [owes EXCEPT ![t] = "nothing"]
        /\ disturbed' = TRUE
        /\ abandoned' = (abandoned \/ owes[t] # "nothing")
        /\ UNCHANGED <<postgres, clock, redis>>
    BY DEF crash
  <1>2. \A l \in Loops : /\ l[1] = t => loop'[l] = Idle
                         /\ l[1] # t => loop'[l] = loop[l]
    BY <1>1
  <1>3. Idle \in [pc : {"idle", "cold", "run", "put", "commit", "mirror"}, read : Cp, new : Cp]
    BY DEF Idle, Cp
  <1>4. loop' \in LoopsType(Cp) BY <1>1, <1>3 DEF LoopsType
  <1>5. TypeOK' BY <1>1, <1>4, TypePartsNext
  <1>6. Stamps' /\ CacheIsDurable' /\ MirrorsAreCommitted'
    BY <1>1, <1>2, StoresStay DEF Idle
  <1>7. \A u \in Tasks : u # t => /\ owes'[u] = owes[u]
                                  /\ \A p \in {Run, Agent} : loop'[<<u, p>>] = loop[<<u, p>>]
    BY <1>1, <1>2, Pairs
  <1>8. owes'[t] = "nothing" /\ \A p \in {Run, Agent} : loop'[<<t, p>>].pc = "idle"
    BY <1>1, <1>2, Pairs DEF Idle
  <1>9. Owing'
    <2> SUFFICES ASSUME NEW u \in Tasks
                 PROVE  /\ loop'[<<u, Agent>>].pc # "idle" => owes'[u] = "superstep"
                        /\ owes'[u] = "put" => loop'[<<u, Run>>].pc \in {"put", "commit"}
                        /\ loop'[<<u, Run>>].pc \in {"idle", "cold"} => owes'[u] = "nothing"
      BY DEF Owing
    <2>1. CASE u = t BY <2>1, <1>8
    <2>2. CASE u # t BY <2>2, <1>7 DEF Owing
    <2> QED BY <2>1, <2>2
  <1>10. Followed'
    <2> SUFFICES ASSUME NEW r \in postgres, r.of = Agent, ~abandoned'
                 PROVE  (\E q \in postgres : q.of = Run /\ r.at < q.at) \/ OnItsWay(r)'
      BY <1>1 DEF Followed
    <2>1. ~abandoned /\ owes[t] = "nothing" BY <1>1
    <2>2. CASE \E q \in postgres : q.of = Run /\ r.at < q.at BY <2>2
    <2>3. CASE OnItsWay(r)
      <3>1. PICK u \in Tasks :
                \/ owes[u] = "superstep"
                \/ /\ owes[u] = "put"
                   /\ \/ loop[<<u, Run>>].pc = "put"
                      \/ loop[<<u, Run>>].pc = "commit" /\ r.at < loop[<<u, Run>>].new.at
        BY <2>3 DEF OnItsWay
      <3>2. u # t BY <2>1, <3>1
      <3> QED BY <3>1, <3>2, <1>7 DEF OnItsWay
    <2> QED BY <2>1, <2>2, <2>3 DEF Followed
  <1>11. Undisturbed' BY <1>1 DEF Undisturbed
  <1> QED BY <1>5, <1>6, <1>9, <1>10, <1>11

\* The key's expiry empties the cache, and a stuttering step changes nothing.
LEMMA ExpireStep ==
    ASSUME IInv, UNCHANGED <<postgres, clock, loop, owes, disturbed, abandoned>>,
           redis' \in {redis, Missing}
    PROVE  IInv'
  <1> USE DEF IInv
  <1>1. TypeOK' BY DEF TypeOK
  <1>2. Stamps' /\ CacheIsDurable' /\ MirrorsAreCommitted'
    BY DEF Stamps, CacheIsDurable, MirrorsAreCommitted
  <1>3. Owing' /\ Followed' BY DEF Owing, Followed, OnItsWay
  <1>4. Undisturbed'
    BY DEF Undisturbed, OneAtATime, CommitsGreatest, MirrorsGreatest, CacheIsGreatest, IsGreatest
  <1> QED BY <1>1, <1>2, <1>3, <1>4

\* Every step keeps the invariant.
LEMMA NextStep == IInv /\ [Next]_vars => IInv'
  <1> SUFFICES ASSUME IInv, [Next]_vars PROVE IInv' OBVIOUS
  <1>1. CASE expire BY <1>1, ExpireStep DEF expire
  <1>2. ASSUME NEW t \in Tasks, crash(t) PROVE IInv' BY <1>2, CrashStep
  <1>3. ASSUME NEW t \in Tasks, NEW o \in {Run, Agent},
               \/ aget_tuple_hot(t, o) \/ aget_tuple_cold(t, o) \/ superstep(t, o)
               \/ aput_insert(t, o) \/ aput_commit(t, o) \/ aput_redis(t, o) \/ return(t, o)
        PROVE  IInv'
    BY <1>3, HotStep, ColdStep, SuperstepStep, InsertStep, CommitStep, MirrorStep, ReturnStep
  <1>4. CASE UNCHANGED vars BY <1>4, ExpireStep DEF vars
  <1> QED BY <1>1, <1>2, <1>3, <1>4 DEF Next

\* The invariant holds in every reachable state.
LEMMA Invariance == Spec => []IInv
  <1> QED BY InitialState, NextStep, PTL DEF Spec

-----------------------------------------------------------------------------
(* Theorems *)

\* Every reachable state is of the declared types.
THEOREM TypeCorrect == Spec => []TypeOK
  <1>1. IInv => TypeOK BY DEF IInv
  <1> QED BY <1>1, Invariance, PTL

\* Redis never holds a checkpoint that PostgreSQL has not committed.
THEOREM CacheNeverAhead == Spec => []CacheIsDurable
  <1>1. IInv => CacheIsDurable BY DEF IInv
  <1> QED BY <1>1, Invariance, PTL

\* An agent's checkpoint that is the latest is followed by one of the run.
LEMMA FollowedByTheRuns == IInv => LatestIsTheRuns
  <1> SUFFICES ASSUME IInv, Latest # Missing, Latest.of = Agent, ~abandoned
               PROVE  \E t \in Tasks : owes[t] # "nothing"
    BY DEF LatestIsTheRuns
  <1> USE DEF IInv
  <1>1. IsGreatest(Latest) BY LatestIsGreatest DEF Latest
  <1>2. ASSUME NEW q \in postgres, q.of = Run, Latest.at < q.at PROVE FALSE
    BY <1>1, <1>2 DEF IsGreatest, TypeOK, StoredCheckpoint
  <1>3. OnItsWay(Latest) BY <1>1, <1>2 DEF Followed, IsGreatest
  <1> QED BY <1>3 DEF OnItsWay

\* An agent's checkpoint is PostgreSQL's latest only between the agent's start and the
\* run's next checkpoint, unless a task died there, however many tasks overlap.
THEOREM AgentsAreFollowed == Spec => []LatestIsTheRuns
  <1> QED BY FollowedByTheRuns, Invariance, PTL

\* A step that begins a task's work on the run reads the run's latest checkpoint, unless
\* something disturbed the thread.
LEMMA ReadStepReadsLatest ==
    ASSUME IInv, [Next]_vars, NEW t \in Tasks, ~disturbed'
    PROVE  ReadsLatest(t)
  <1> USE TypeParts DEF IInv, Typed
  <1> DEFINE l == <<t, Run>>
  <1> SUFFICES ASSUME loop[l].pc \in {"idle", "cold"}, loop'[l].pc = "run"
               PROVE  /\ loop'[l].read = Latest
                      /\ Latest # Missing => Latest.of = Run
    BY DEF ReadsLatest
  <1>0. l \in Loops BY Pairs
  <1>1. aget_tuple_hot(t, Run) \/ aget_tuple_cold(t, Run)
    <2>1. \A u \in Tasks, o \in {Run, Agent} : <<u, o>> # l /\
             (\/ aget_tuple_hot(u, o) \/ aget_tuple_cold(u, o) \/ superstep(u, o)
              \/ aput_insert(u, o) \/ aput_commit(u, o) \/ aput_redis(u, o) \/ return(u, o))
               => loop'[l] = loop[l]
      BY <1>0, Pairs DEF aget_tuple_hot, aget_tuple_cold, superstep, aput_insert, aput_commit,
                         aput_redis, return, LoopsType
    <2>2. ~superstep(t, Run) /\ ~aput_insert(t, Run) /\ ~aput_commit(t, Run)
            /\ ~aput_redis(t, Run) /\ ~return(t, Run)
      BY DEF superstep, aput_insert, aput_commit, aput_redis, return
    <2>3. ASSUME NEW u \in Tasks, crash(u) PROVE FALSE BY <2>3 DEF crash
    <2>4. expire \/ UNCHANGED vars => loop'[l] = loop[l] BY DEF expire, vars
    <2>5. loop'[l] # loop[l] OBVIOUS
    <2> QED BY <2>1, <2>2, <2>3, <2>4, <2>5, Pairs DEF Next
  <1>2. ~disturbed /\ owes[t] = "nothing" /\ \A u \in Tasks \ {t} : loop[<<u, Run>>].pc = "idle"
    <2>1. ~disturbed /\ owes[t] = "nothing"
      BY <1>1 DEF aget_tuple_hot, aget_tuple_cold, Owing
    <2>2. CASE aget_tuple_hot(t, Run) BY <2>1, <2>2 DEF aget_tuple_hot
    <2>3. CASE aget_tuple_cold(t, Run)
      BY <2>1, <2>3 DEF aget_tuple_cold, Undisturbed, OneAtATime
    <2> QED BY <1>1, <2>1, <2>2, <2>3
  <1>3. \A u \in Tasks : owes[u] = "nothing" /\ loop[<<u, Run>>].pc # "mirror"
    BY <1>2 DEF Owing
  <1>4. Latest # Missing => Latest.of = Run
    <2> SUFFICES ASSUME Latest # Missing PROVE Latest.of = Run OBVIOUS
    <2>1. Latest.of # Agent BY <1>2, <1>3, FollowedByTheRuns DEF LatestIsTheRuns, Undisturbed
    <2>2. Latest \in StoredCheckpoint BY LatestType DEF Cp
    <2> QED BY <2>1, <2>2 DEF StoredCheckpoint
  <1>5. CASE aget_tuple_cold(t, Run)
    <2>1. Latest \in Cp BY LatestType
    <2>2. loop' = ReadTo(loop, l, Latest) BY <1>5 DEF aget_tuple_cold, ReadTo
    <2> QED BY <1>0, <1>4, <2>1, <2>2, WriteRead
  <1>6. CASE aget_tuple_hot(t, Run)
    <2>1. loop' # PcTo(loop, l, "cold") BY <1>0, WritePc
    <2>2. redis # Missing /\ loop' = ReadTo(loop, l, redis)
      BY <1>6, <2>1 DEF aget_tuple_hot, ReadTo, PcTo
    <2>3. loop'[l].read = redis BY <1>0, <2>2, WriteRead
    <2>4. IsGreatest(redis) BY <1>2, <1>3, <2>2 DEF Undisturbed, CacheIsGreatest
    <2> QED BY <1>4, <2>3, <2>4, GreatestIsLatest
  <1> QED BY <1>1, <1>5, <1>6

\* As long as no mirror failed, no task died and none overlapped another, a task of the
\* run starts from the latest committed checkpoint, and it is the run's.
THEOREM UndisturbedReads == Spec => ReadsLatestUndisturbed
  <1>1. IInv /\ [Next]_vars => [\A t \in Tasks : ~disturbed' => ReadsLatest(t)]_vars
    BY ReadStepReadsLatest
  <1> QED BY <1>1, Invariance, PTL DEF Spec, ReadsLatestUndisturbed

=============================================================================
