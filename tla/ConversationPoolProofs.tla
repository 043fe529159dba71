------------------------ MODULE ConversationPoolProofs ------------------------
(***************************************************************************)
(* Theorems about ConversationPool, for any models, calls, capacity and    *)
(* bounds.  The single-writer discipline is inductive once it is known     *)
(* that ids come from the counter: a fresh id has no call in flight.  The  *)
(* same invariant carries the refinement of LruSet at the end.             *)
(***************************************************************************)
EXTENDS ConversationPoolLru, FiniteSetTheorems, TLAPS

USE PoolAssumption

(***************************************************************************)
(* What the operators on the Map do.                                       *)
(***************************************************************************)

IsMap(es) == DOMAIN es \subseteq Ids /\ es \in [DOMAIN es -> Entry]

LEMMA TouchMap ==
    ASSUME NEW es, IsMap(es), NEW i, NEW ordinal \in Nat
    PROVE  /\ IsMap(Touch(es, i, ordinal))
           /\ DOMAIN Touch(es, i, ordinal) = DOMAIN es
           /\ \A j \in DOMAIN es :
                  /\ Touch(es, i, ordinal)[j].locked = es[j].locked
                  /\ Touch(es, i, ordinal)[j].accessSeq =
                         IF j = i THEN ordinal ELSE es[j].accessSeq
BY DEF IsMap, Touch, Entry

LEMMA WithoutMap ==
    ASSUME NEW es, IsMap(es), NEW gone
    PROVE  /\ IsMap(Without(es, gone))
           /\ DOMAIN Without(es, gone) = DOMAIN es \ gone
           /\ \A j \in DOMAIN es \ gone : Without(es, gone)[j] = es[j]
BY DEF IsMap, Without, Live

\* Room is made by dropping nothing or one entry that is not locked.
LEMMA MadeRoomMap ==
    ASSUME NEW es, IsMap(es), NEW room \in MadeRoom(es)
    PROVE  /\ IsMap(room)
           /\ DOMAIN room \subseteq DOMAIN es
           /\ \A j \in DOMAIN es \ DOMAIN room : ~es[j].locked
           /\ \A j \in DOMAIN room : room[j] = es[j]
<1>1. CASE room = es
  BY <1>1
<1>2. ASSUME NEW i \in Live(es), IsLruEvictable(es, i), room = Without(es, {i})
      PROVE  /\ IsMap(room)
             /\ DOMAIN room \subseteq DOMAIN es
             /\ \A j \in DOMAIN es \ DOMAIN room : ~es[j].locked
             /\ \A j \in DOMAIN room : room[j] = es[j]
  <2>1. ~es[i].locked
    BY <1>2 DEF IsLruEvictable, Evictable
  <2>2. /\ IsMap(room)
        /\ DOMAIN room = DOMAIN es \ {i}
        /\ \A j \in DOMAIN es \ {i} : room[j] = es[j]
    BY <1>2, WithoutMap
  <2>3. QED
    BY <2>1, <2>2
<1>3. QED
  BY <1>1, <1>2 DEF MadeRoom

LEMMA InsertMap ==
    ASSUME NEW es, IsMap(es), NEW i \in Ids, NEW entry \in Entry
    PROVE  /\ IsMap(Insert(es, i, entry))
           /\ DOMAIN Insert(es, i, entry) = DOMAIN es \cup {i}
           /\ \A j \in DOMAIN es \cup {i} :
                  Insert(es, i, entry)[j] = IF j = i THEN entry ELSE es[j]
BY DEF IsMap, Insert, Live

LEMMA LockMap ==
    ASSUME NEW es, IsMap(es), NEW i
    PROVE  /\ IsMap(Acquire(es, i)) /\ IsMap(Release(es, i))
           /\ DOMAIN Acquire(es, i) = DOMAIN es /\ DOMAIN Release(es, i) = DOMAIN es
           /\ \A j \in DOMAIN es :
                  /\ Acquire(es, i)[j].locked <=> (es[j].locked \/ j = i)
                  /\ Release(es, i)[j].locked <=> (es[j].locked /\ j # i)
                  /\ Acquire(es, i)[j].accessSeq = es[j].accessSeq
                  /\ Release(es, i)[j].accessSeq = es[j].accessSeq
BY DEF IsMap, Acquire, Release, Live, Entry

LEMMA NewEntryType ==
    ASSUME NEW m \in Models, NEW snap \in Ids \cup {NoId}, NEW ordinal \in Nat
    PROVE  /\ NewEntry(m, snap, ordinal) \in Entry
           /\ NewEntry(m, snap, ordinal).locked = FALSE
           /\ NewEntry(m, snap, ordinal).accessSeq = ordinal
BY DEF NewEntry, Entry

(***************************************************************************)
(* The inductive invariant.  Ids in use come from the counter, and so do   *)
(* the ids calls in flight hold on to; ordinals come from the other one.   *)
(***************************************************************************)

IdsIssued ==
    /\ Live(entries) \subseteq Handles
    /\ disposed \subseteq Handles
    /\ \A c \in Calls : InFlight(c) => call[c].conv \in Handles

Inv == TypeOK /\ IdsIssued /\ SingleWriter /\ InUseKept /\ RecencyTotal

LEMMA InitInv == Init => Inv
<1> SUFFICES ASSUME Init PROVE Inv
  OBVIOUS
<1>1. DOMAIN entries = {} /\ entries \in [{} -> Entry]
  BY DEF Init
<1>2. \A c \in Calls : ~InFlight(c)
  BY DEF Init, InFlight, Idle
<1>3. TypeOK
  <2>1. call \in [Calls -> [phase: {"idle", "waiting", "running"}, conv: Ids \cup {NoId}]]
    BY Zenon DEF Init, Idle
  <2>2. DOMAIN entries \subseteq Ids /\ entries \in [DOMAIN entries -> Entry]
    BY <1>1
  <2>3. nextId \in 1 .. (MaxId + 1) /\ accessCounter \in Nat /\ disposed \subseteq Ids
    BY DEF Init
  <2>4. modelState \in [Models -> {"loaded", "unloading", "gone"}] /\ closing \in BOOLEAN
    BY DEF Init
  <2>5. QED
    BY <2>1, <2>2, <2>3, <2>4 DEF TypeOK
<1>4. IdsIssued
  BY <1>1, <1>2 DEF Init, IdsIssued, Live
<1>5. SingleWriter /\ InUseKept /\ RecencyTotal
  BY <1>1, <1>2 DEF SingleWriter, InUseKept, RecencyTotal, Live
<1>6. QED
  BY <1>3, <1>4, <1>5 DEF Inv

(***************************************************************************)
(* The three ways in which a step changes the Map while the same calls     *)
(* hold the same conversations: it adds an entry, touches one, or removes  *)
(* what owners own.                                                        *)
(***************************************************************************)

LEMMA AddKeepsInv ==
    ASSUME Inv, NEW touched, IsMap(touched), DOMAIN touched = Live(entries),
           NEW ordinal \in Nat, ordinal > accessCounter,
           NEW room \in MadeRoom(touched), IdLeft,
           NEW m \in Models, NEW snap \in Ids \cup {NoId},
           \A j \in Live(entries) :
               /\ touched[j].locked = entries[j].locked
               /\ touched[j].accessSeq < ordinal,
           \A j, k \in Live(entries) : touched[j].accessSeq = touched[k].accessSeq => j = k,
           entries' = Insert(room, nextId, NewEntry(m, snap, ordinal)),
           nextId' = nextId + 1,
           accessCounter' = ordinal,
           UNCHANGED <<modelState, closing, call, disposed>>
    PROVE  Inv'
<1> DEFINE new == NewEntry(m, snap, ordinal)
<1>1. /\ IsMap(room)
      /\ DOMAIN room \subseteq Live(entries)
      /\ \A j \in Live(entries) \ DOMAIN room : ~touched[j].locked
      /\ \A j \in DOMAIN room : room[j] = touched[j]
  BY MadeRoomMap
<1>2. nextId \in Ids /\ nextId \notin Live(entries) /\ ordinal \in Nat
  BY DEF Inv, TypeOK, IdsIssued, Handles, IdLeft, Ids
<1>3. new \in Entry /\ new.locked = FALSE /\ new.accessSeq = ordinal
  BY <1>2, NewEntryType
<1>0. entries' = Insert(room, nextId, new)
  OBVIOUS
<1> HIDE DEF new
<1>4. /\ IsMap(entries')
      /\ DOMAIN entries' = DOMAIN room \cup {nextId}
      /\ \A j \in DOMAIN entries' : entries'[j] = IF j = nextId THEN new ELSE touched[j]
  <2>1. /\ IsMap(entries')
        /\ DOMAIN entries' = DOMAIN room \cup {nextId}
        /\ \A j \in DOMAIN room \cup {nextId} :
               entries'[j] = IF j = nextId THEN new ELSE room[j]
    <3> DEFINE grown == Insert(room, nextId, new)
    <3>1. /\ IsMap(grown)
          /\ DOMAIN grown = DOMAIN room \cup {nextId}
          /\ \A j \in DOMAIN room \cup {nextId} :
                 grown[j] = IF j = nextId THEN new ELSE room[j]
      BY <1>1, <1>2, <1>3 DEF grown, Insert, IsMap, Live
    <3>2. entries' = grown
      BY <1>0
    <3> HIDE DEF grown
    <3>3. QED
      BY <3>1, <3>2
  <2>2. QED
    BY <1>1, <2>1
<1>5. TypeOK'
  BY <1>4 DEF Inv, TypeOK, IsMap, IdLeft, Ids
<1>6. IdsIssued'
  BY <1>1, <1>2, <1>4 DEF Inv, TypeOK, IdsIssued, Handles, InFlight, Live, Ids
<1>7. SingleWriter'
  <2>1. ASSUME NEW i \in Live(entries)'
        PROVE  entries'[i].locked <=> \E c \in Calls : InFlight(c) /\ call[c].conv = i
    <3>1. CASE i = nextId
      BY <1>3, <1>4, <2>1, <3>1 DEF Inv, TypeOK, IdsIssued, Handles, Live
    <3>2. CASE i # nextId
      <4>1. i \in Live(entries) /\ entries'[i].locked = entries[i].locked
        BY <1>1, <1>4, <2>1, <3>2 DEF Live
      <4>2. QED
        BY <4>1 DEF Inv, SingleWriter
    <3>3. QED
      BY <3>1, <3>2
  <2>2. QED
    BY <2>1 DEF Inv, SingleWriter, InFlight
<1>8. InUseKept'
  <2>1. ASSUME NEW c \in Calls, InFlight(c)
        PROVE  call[c].conv \in DOMAIN entries' \cup disposed
    BY <1>1, <1>4, <2>1 DEF Inv, InUseKept, SingleWriter, Live
  <2>2. QED
    BY <2>1 DEF InUseKept, InFlight, Live
<1>9. RecencyTotal'
  <2>1. \A j \in DOMAIN room : /\ touched[j].accessSeq \in Nat
                               /\ touched[j].accessSeq < ordinal
    BY <1>1 DEF IsMap, Entry, Live
  <2>2. QED
    BY <1>1, <1>3, <1>4, <2>1 DEF Inv, TypeOK, RecencyTotal, Live
<1>10. QED
  BY <1>5, <1>6, <1>7, <1>8, <1>9 DEF Inv

LEMMA TouchKeepsInv ==
    ASSUME Inv, NEW i \in Live(entries), NEW ordinal \in Nat, ordinal > accessCounter,
           entries' = Touch(entries, i, ordinal),
           accessCounter' = ordinal,
           UNCHANGED <<nextId, modelState, closing, disposed>>,
           call' \in [Calls -> [phase: {"idle", "waiting", "running"}, conv: Ids \cup {NoId}]],
           \A c \in Calls : /\ InFlight(c)' <=> InFlight(c)
                            /\ call'[c].conv = call[c].conv
    PROVE  Inv'
<1>1. IsMap(entries)
  BY DEF Inv, TypeOK, IsMap
<1>2. /\ IsMap(entries')
      /\ DOMAIN entries' = DOMAIN entries
      /\ \A j \in DOMAIN entries :
             /\ entries'[j].locked = entries[j].locked
             /\ entries'[j].accessSeq = IF j = i THEN ordinal ELSE entries[j].accessSeq
  BY <1>1, TouchMap
<1>3. TypeOK'
  BY <1>1, <1>2 DEF Inv, TypeOK, IsMap
<1>4. IdsIssued' /\ SingleWriter' /\ InUseKept'
  BY <1>2 DEF Inv, IdsIssued, Handles, SingleWriter, InUseKept, Live
<1>5. RecencyTotal'
  BY <1>2 DEF Inv, TypeOK, IsMap, Entry, RecencyTotal, Live
<1>6. QED
  BY <1>3, <1>4, <1>5 DEF Inv

LEMMA RemoveKeepsInv ==
    ASSUME Inv, NEW gone \in SUBSET Handles,
           entries' = Without(entries, gone),
           disposed' = disposed \cup gone,
           UNCHANGED <<nextId, accessCounter, call>>,
           modelState' \in [Models -> {"loaded", "unloading", "gone"}],
           closing' \in BOOLEAN
    PROVE  Inv'
<1>1. IsMap(entries) /\ gone \subseteq Ids
  BY DEF Inv, TypeOK, IsMap, Handles, Ids
<1>2. /\ IsMap(entries')
      /\ DOMAIN entries' = DOMAIN entries \ gone
      /\ \A j \in DOMAIN entries \ gone : entries'[j] = entries[j]
  BY <1>1, WithoutMap
<1>3. TypeOK'
  BY <1>1, <1>2 DEF Inv, TypeOK, IsMap
<1>4. IdsIssued' /\ SingleWriter' /\ InUseKept' /\ RecencyTotal'
  BY <1>2 DEF Inv, IdsIssued, Handles, SingleWriter, InUseKept, RecencyTotal, InFlight, Live
<1>5. QED
  BY <1>3, <1>4 DEF Inv

(***************************************************************************)
(* The steps of a call.                                                    *)
(***************************************************************************)

LEMMA ChatBeginKeepsInv ==
    ASSUME Inv, NEW c \in Calls, NEW i \in Ids, ChatBegin(c, i)
    PROVE  Inv'
<1> DEFINE touched == Touch(entries, i, accessCounter + 2)
<1>1. IsMap(entries) /\ accessCounter + 2 \in Nat /\ i \in Live(entries)
  BY DEF Inv, TypeOK, IsMap, ChatBegin
<1>2. /\ IsMap(touched)
      /\ DOMAIN touched = DOMAIN entries
      /\ \A j \in DOMAIN entries :
             /\ touched[j].locked = entries[j].locked
             /\ touched[j].accessSeq = IF j = i THEN accessCounter + 2
                                               ELSE entries[j].accessSeq
  BY <1>1, TouchMap
<1>3. entries' = Acquire(touched, i)
  BY DEF ChatBegin
<1> HIDE DEF touched
<1>4. /\ IsMap(entries')
      /\ DOMAIN entries' = DOMAIN entries
      /\ \A j \in DOMAIN entries :
             /\ entries'[j].locked <=> (entries[j].locked \/ j = i)
             /\ entries'[j].accessSeq = IF j = i THEN accessCounter + 2
                                                ELSE entries[j].accessSeq
  BY <1>2, <1>3, LockMap
<1>5. /\ ~InFlight(c) /\ ~entries[i].locked
      /\ call' = [call EXCEPT ![c] = [phase |-> "waiting", conv |-> i]]
      /\ UNCHANGED <<nextId, disposed, modelState, closing>>
      /\ accessCounter' = accessCounter + 2
  BY DEF ChatBegin, InFlight
<1>6. TypeOK'
  BY <1>1, <1>4, <1>5 DEF Inv, TypeOK, IsMap
<1>7. \A d \in Calls : /\ InFlight(d)' <=> (InFlight(d) \/ d = c)
                       /\ call'[d].conv = IF d = c THEN i ELSE call[d].conv
  BY <1>5 DEF Inv, TypeOK, InFlight
<1>8. IdsIssued' /\ SingleWriter' /\ InUseKept'
  <2>1. \A d \in Calls : InFlight(d) => call[d].conv # i
    BY <1>1, <1>5 DEF Inv, SingleWriter
  <2>2. IdsIssued'
    BY <1>1, <1>4, <1>5, <1>7 DEF Inv, IdsIssued, Handles, Live
  <2>3. InUseKept'
    BY <1>1, <1>4, <1>5, <1>7 DEF Inv, InUseKept, Live
  <2>4. \A j \in DOMAIN entries :
            entries'[j].locked <=> \E d \in Calls : InFlight(d)' /\ call'[d].conv = j
    <3> TAKE j \in DOMAIN entries
    <3>1. CASE j = i
      BY <1>4, <1>7, <3>1
    <3>2. CASE j # i
      <4>1. entries'[j].locked <=> entries[j].locked
        BY <1>4, <3>2
      <4>2. entries[j].locked <=> \E d \in Calls : InFlight(d) /\ call[d].conv = j
        BY DEF Inv, SingleWriter, Live
      <4>3. \A d \in Calls : (InFlight(d) /\ call[d].conv = j)
                               <=> (InFlight(d)' /\ call'[d].conv = j)
        BY <1>5, <1>7, <3>2
      <4>4. QED
        BY <4>1, <4>2, <4>3
    <3>3. QED
      BY <3>1, <3>2
  <2>5. \A d, e \in Calls :
            InFlight(d)' /\ InFlight(e)' /\ call'[d].conv = call'[e].conv => d = e
    BY <1>7, <2>1 DEF Inv, SingleWriter
  <2>6. SingleWriter'
    BY <1>4, <2>4, <2>5 DEF SingleWriter, Live
  <2>7. QED
    BY <2>2, <2>3, <2>6
<1>9. RecencyTotal'
  BY <1>1, <1>4, <1>5 DEF Inv, TypeOK, IsMap, Entry, RecencyTotal, Live
<1>10. QED
  BY <1>6, <1>8, <1>9 DEF Inv

\* A call ends: its conversation, if still there, is unlocked, possibly after a
\* last touch, and nobody else holds it.
LEMMA EndKeepsInv ==
    ASSUME Inv, NEW c \in Calls, InFlight(c), NEW before, IsMap(before),
           DOMAIN before = DOMAIN entries,
           \A j \in DOMAIN entries : before[j].locked = entries[j].locked,
           entries' = Release(before, call[c].conv),
           accessCounter' \in Nat,
           \A j \in DOMAIN entries : before[j].accessSeq <= accessCounter',
           \A j, k \in DOMAIN entries : before[j].accessSeq = before[k].accessSeq => j = k,
           call' = [call EXCEPT ![c] = Idle],
           UNCHANGED <<nextId, modelState, closing, disposed>>
    PROVE  Inv'
<1>1. /\ IsMap(entries')
      /\ DOMAIN entries' = DOMAIN entries
      /\ \A j \in DOMAIN entries :
             /\ entries'[j].locked <=> (entries[j].locked /\ j # call[c].conv)
             /\ entries'[j].accessSeq = before[j].accessSeq
  BY LockMap
<1>2. TypeOK'
  BY <1>1 DEF Inv, TypeOK, IsMap, Idle
<1>3. \A d \in Calls : /\ InFlight(d)' <=> (InFlight(d) /\ d # c)
                       /\ d # c => call'[d].conv = call[d].conv
  BY DEF Inv, TypeOK, InFlight, Idle
<1>4. IdsIssued' /\ InUseKept'
  BY <1>1, <1>3 DEF Inv, IdsIssued, Handles, InUseKept, Live
<1>5. SingleWriter'
  <2>1. \A j \in DOMAIN entries :
            entries'[j].locked <=> \E d \in Calls : InFlight(d)' /\ call'[d].conv = j
    <3> TAKE j \in DOMAIN entries
    <3>1. CASE j = call[c].conv
      BY <1>1, <1>3, <3>1 DEF Inv, SingleWriter
    <3>2. CASE j # call[c].conv
      BY <1>1, <1>3, <3>2 DEF Inv, SingleWriter, Live
    <3>3. QED
      BY <3>1, <3>2
  <2>2. \A d, e \in Calls :
            InFlight(d)' /\ InFlight(e)' /\ call'[d].conv = call'[e].conv => d = e
    BY <1>3 DEF Inv, SingleWriter
  <2>3. QED
    BY <1>1, <2>1, <2>2 DEF SingleWriter, Live
<1>6. RecencyTotal'
  BY <1>1 DEF RecencyTotal, Live
<1>7. QED
  BY <1>2, <1>4, <1>5, <1>6 DEF Inv

(***************************************************************************)
(* Every step keeps the invariant.                                         *)
(***************************************************************************)

LEMMA NextInv == Inv /\ [Next]_vars => Inv'
<1> SUFFICES ASSUME Inv, [Next]_vars PROVE Inv'
  OBVIOUS
<1>0. /\ accessCounter \in Nat
      /\ \A j \in Live(entries) : /\ entries[j].accessSeq \in Nat
                                 /\ entries[j].accessSeq <= accessCounter
      /\ \A j, k \in Live(entries) : entries[j].accessSeq = entries[k].accessSeq => j = k
      /\ IsMap(entries)
  BY DEF Inv, TypeOK, RecencyTotal, IsMap, Entry, Live
<1>1. ASSUME NEW m \in Models, CreateConversation(m) PROVE Inv'
  <2>1. PICK room \in MadeRoom(entries) :
            entries' = Insert(room, nextId, NewEntry(m, NoId, accessCounter + 1))
    BY <1>1 DEF CreateConversation
  <2>2. QED
    BY <1>0, <1>1, <2>1, AddKeepsInv DEF CreateConversation, Live
<1>2. ASSUME NEW m \in Models, ImportConversation(m) PROVE Inv'
  <2>1. PICK room \in MadeRoom(entries) :
            entries' = Insert(room, nextId, NewEntry(m, nextId, accessCounter + 2))
    BY <1>2 DEF ImportConversation
  <2>2. nextId \in Ids
    BY <1>2 DEF ImportConversation, IdLeft, Inv, TypeOK, Ids
  <2>3. QED
    BY <1>0, <1>2, <2>1, <2>2, AddKeepsInv DEF ImportConversation, Live
<1>3. ASSUME NEW i \in Ids, ForkConversation(i) PROVE Inv'
  <2> DEFINE touched == Touch(entries, i, accessCounter + 1)
  <2>1. /\ IsMap(touched)
        /\ DOMAIN touched = Live(entries)
        /\ \A j \in Live(entries) :
               /\ touched[j].locked = entries[j].locked
               /\ touched[j].accessSeq =
                      IF j = i THEN accessCounter + 1 ELSE entries[j].accessSeq
    BY <1>0, TouchMap DEF Live
  <2>2. PICK room \in MadeRoom(touched) :
            entries' = Insert(room, nextId,
                           NewEntry(entries[i].model, entries[i].snapshot, accessCounter + 2))
    BY <1>3 DEF ForkConversation
  <2>3. entries[i].model \in Models /\ entries[i].snapshot \in Ids \cup {NoId}
    BY <1>0, <1>3 DEF ForkConversation, IsMap, Entry, Live
  <2> HIDE DEF touched
  <2>4. /\ \A j \in Live(entries) : touched[j].accessSeq < accessCounter + 2
        /\ \A j, k \in Live(entries) : touched[j].accessSeq = touched[k].accessSeq => j = k
    BY <1>0, <2>1
  <2>5. QED
    BY <1>0, <1>3, <2>1, <2>2, <2>3, <2>4, AddKeepsInv DEF ForkConversation
<1>4. ASSUME NEW i \in Ids, ForkRefused(i) PROVE Inv'
  BY <1>0, <1>4, TouchKeepsInv DEF ForkRefused, Inv, TypeOK, InFlight
<1>5. ASSUME NEW i \in Ids, DisposeConversation(i) PROVE Inv'
  <2>1. {i} \in SUBSET Handles
    BY <1>5 DEF DisposeConversation
  <2>2. QED
    BY <1>5, <2>1, RemoveKeepsInv DEF DisposeConversation, Inv, TypeOK
<1>6. ASSUME NEW i \in Ids, ExportConversation(i) PROVE Inv'
  BY <1>0, <1>6, TouchKeepsInv DEF ExportConversation, Inv, TypeOK, InFlight
<1>7. ASSUME NEW i \in Ids, ChatBusy(i) PROVE Inv'
  BY <1>0, <1>7, TouchKeepsInv DEF ChatBusy, Inv, TypeOK, InFlight
<1>8. ASSUME NEW m \in Models, UnloadModel(m) PROVE Inv'
  <2>1. ModelConversations(m) \in SUBSET Handles
    BY DEF ModelConversations, Inv, IdsIssued
  <2>2. modelState' \in [Models -> {"loaded", "unloading", "gone"}]
    BY <1>8 DEF UnloadModel, Inv, TypeOK
  <2>3. QED
    BY <1>8, <2>1, <2>2, RemoveKeepsInv DEF UnloadModel, Inv, TypeOK
<1>9. ASSUME NEW m \in Models, UnloadModelDone(m) PROVE Inv'
  BY <1>9 DEF UnloadModelDone, Inv, TypeOK, IdsIssued, Handles, SingleWriter, InUseKept,
              RecencyTotal, InFlight
<1>10. CASE Shutdown
  <2>1. Live(entries) \in SUBSET Handles
    BY DEF Inv, IdsIssued
  <2>2. QED
    BY <1>10, <2>1, RemoveKeepsInv DEF Shutdown, Inv, TypeOK
<1>11. CASE ShutdownDone
  BY <1>11 DEF ShutdownDone, Inv, TypeOK, IdsIssued, Handles, SingleWriter, InUseKept,
               RecencyTotal, InFlight
<1>12. ASSUME NEW c \in Calls, NEW i \in Ids, ChatBegin(c, i) PROVE Inv'
  BY <1>12, ChatBeginKeepsInv
<1>13. ASSUME NEW c \in Calls, ChatResolve(c) PROVE Inv'
  <2>1. /\ call' \in [Calls -> [phase: {"idle", "waiting", "running"}, conv: Ids \cup {NoId}]]
        /\ \A d \in Calls : /\ InFlight(d)' <=> InFlight(d)
                            /\ call'[d].conv = call[d].conv
    BY <1>13 DEF ChatResolve, Inv, TypeOK, InFlight
  <2>2. QED
    BY <1>0, <1>13, <2>1, TouchKeepsInv DEF ChatResolve
<1>14. ASSUME NEW c \in Calls, ChatSave(c) PROVE Inv'
  <2> DEFINE i == call[c].conv
             touched == Touch(entries, i, accessCounter + 1)
             before == [touched EXCEPT ![i].snapshot = i]
  <2>1. i \in Live(entries) /\ InFlight(c)
    BY <1>14 DEF ChatSave, InFlight
  <2>2. /\ IsMap(touched)
        /\ DOMAIN touched = DOMAIN entries
        /\ \A j \in DOMAIN entries :
               /\ touched[j].locked = entries[j].locked
               /\ touched[j].accessSeq =
                      IF j = i THEN accessCounter + 1 ELSE entries[j].accessSeq
    BY <1>0, TouchMap
  <2> HIDE DEF touched
  <2>3. i \in Ids
    BY <1>0, <2>1 DEF IsMap, Live
  <2> HIDE DEF i
  <2>4. /\ IsMap(before)
        /\ DOMAIN before = DOMAIN entries
        /\ \A j \in DOMAIN entries :
               /\ before[j].locked = entries[j].locked
               /\ before[j].accessSeq =
                      IF j = i THEN accessCounter + 1 ELSE entries[j].accessSeq
    BY <2>2, <2>3 DEF IsMap, Entry
  <2>5. entries' = Release(before, call[c].conv)
    BY <1>14 DEF ChatSave, touched, i
  <2> HIDE DEF before
  <2>6. accessCounter' = accessCounter + 1 /\ accessCounter' \in Nat
    BY <1>0, <1>14 DEF ChatSave
  <2>7. /\ call' = [call EXCEPT ![c] = Idle]
        /\ UNCHANGED <<nextId, modelState, closing, disposed>>
    BY <1>14 DEF ChatSave
  <2>8. /\ \A j \in DOMAIN entries : before[j].accessSeq <= accessCounter'
        /\ \A j, k \in DOMAIN entries : before[j].accessSeq = before[k].accessSeq => j = k
    BY <1>0, <2>4, <2>6 DEF Live
  <2>9. accessCounter' \in Nat
    BY <2>6
  <2>10. QED
    BY <2>1, <2>4, <2>5, <2>7, <2>8, <2>9, EndKeepsInv
<1>15. ASSUME NEW c \in Calls, ChatLeave(c) PROVE Inv'
  <2>1. InFlight(c)
    BY <1>15 DEF ChatLeave, InFlight
  <2>2. QED
    BY <1>0, <1>15, <2>1, EndKeepsInv DEF ChatLeave, Live
<1>16. CASE UNCHANGED vars
  BY <1>16 DEF vars, Inv, TypeOK, IdsIssued, Handles, SingleWriter, InUseKept, RecencyTotal,
               InFlight
<1>17. QED
  BY <1>1, <1>2, <1>3, <1>4, <1>5, <1>6, <1>7, <1>8, <1>9, <1>10, <1>11, <1>12, <1>13,
     <1>14, <1>15, <1>16 DEF Next

(***************************************************************************)
(* The theorems about the Map and its locks.                               *)
(***************************************************************************)

LEMMA InvHolds == Spec => []Inv
BY InitInv, NextInv, PTL DEF Spec

\* The types of the pool's state, for any number of models and calls.
THEOREM TypeCorrect == Spec => []TypeOK
BY InvHolds, PTL DEF Inv

\* A conversation is locked exactly while one call in flight holds it and no two
\* calls in flight share one: the single-writer rule of tryAcquireLock.
THEOREM SingleWriterHolds == Spec => []SingleWriter
BY InvHolds, PTL DEF Inv

\* The LRU eviction of create, fork and import never takes a conversation from
\* under a call in flight.
THEOREM InUseKeptHolds == Spec => []InUseKept
BY InvHolds, PTL DEF Inv

\* Access ordinals stay distinct through every touch, fork and import, so the
\* victim of an eviction is determined.
THEOREM RecencyTotalHolds == Spec => []RecencyTotal
BY InvHolds, PTL DEF Inv

(***************************************************************************)
(* The ids a step adds: at most the next one, and only once there is room. *)
(***************************************************************************)

Grown(ids) == \E kept \in SUBSET Live(entries) :
                  Cardinality(kept) < MaxConversations /\ ids = kept \cup {nextId}

LEMMA IdsFinite ==
    ASSUME NEW ids \in SUBSET Ids
    PROVE  IsFiniteSet(ids)
<1>1. 1 \in Int /\ MaxId \in Int
  OBVIOUS
<1>2. IsFiniteSet(1 .. MaxId)
  BY <1>1, FS_Interval
<1>3. QED
  BY <1>2, FS_Subset DEF Ids

LEMMA RoomSize ==
    ASSUME NEW es, IsMap(es), Cardinality(DOMAIN es) <= MaxConversations,
           NEW room \in MadeRoom(es)
    PROVE  DOMAIN room \subseteq DOMAIN es /\ Cardinality(DOMAIN room) < MaxConversations
<1>1. IsFiniteSet(DOMAIN es)
  BY IdsFinite DEF IsMap
<1>2. Cardinality(DOMAIN es) \in Nat
  BY <1>1, FS_CardinalityType
<1>3. CASE Cardinality(Live(es)) < MaxConversations
  BY <1>3 DEF MadeRoom, Live
<1>4. CASE ~(Cardinality(Live(es)) < MaxConversations)
  <2>1. PICK i \in Live(es) : room = Without(es, {i})
    BY <1>4 DEF MadeRoom
  <2>2. DOMAIN room = DOMAIN es \ {i} /\ i \in DOMAIN es
    BY <2>1, WithoutMap DEF Live
  <2>3. Cardinality(DOMAIN es \ {i}) = Cardinality(DOMAIN es) - 1
    BY <1>1, <2>2, FS_RemoveElement
  <2>4. QED
    BY <1>2, <2>2, <2>3
<1>5. QED
  BY <1>3, <1>4

LEMMA DomainStep ==
    ASSUME Inv, Capacity, Next
    PROVE  Live(entries') \subseteq Live(entries) \/ Grown(Live(entries'))
<1>1. IsMap(entries) /\ accessCounter \in Nat
  BY DEF Inv, TypeOK, IsMap
<1>2. ASSUME NEW touched, DOMAIN touched = DOMAIN entries, IsMap(touched),
             NEW room \in MadeRoom(touched), NEW entry, entries' = Insert(room, nextId, entry)
      PROVE  Grown(Live(entries'))
  <2>1. DOMAIN room \subseteq DOMAIN entries /\ Cardinality(DOMAIN room) < MaxConversations
    BY <1>2, RoomSize DEF Capacity, Live
  <2>2. DOMAIN entries' = DOMAIN room \cup {nextId}
    BY <1>2 DEF Insert, Live
  <2>3. QED
    BY <2>1, <2>2 DEF Grown, Live
<1>3. ASSUME NEW m \in Models, CreateConversation(m) \/ ImportConversation(m)
      PROVE  Grown(Live(entries'))
  <2>1. \E room \in MadeRoom(entries) : \E entry : entries' = Insert(room, nextId, entry)
    BY <1>3 DEF CreateConversation, ImportConversation
  <2>2. QED
    BY <1>1, <1>2, <2>1
<1>4. ASSUME NEW i \in Ids, ForkConversation(i)
      PROVE  Grown(Live(entries'))
  <2> DEFINE touched == Touch(entries, i, accessCounter + 1)
  <2>1. IsMap(touched) /\ DOMAIN touched = DOMAIN entries
    BY <1>1, TouchMap
  <2>2. \E room \in MadeRoom(touched) : \E entry : entries' = Insert(room, nextId, entry)
    BY <1>4 DEF ForkConversation
  <2> HIDE DEF touched
  <2>3. QED
    BY <1>2, <2>1, <2>2
<1>5. ASSUME NEW i \in Ids,
             ForkRefused(i) \/ ExportConversation(i) \/ ChatBusy(i) \/ DisposeConversation(i)
      PROVE  DOMAIN entries' \subseteq DOMAIN entries
  BY <1>5 DEF ForkRefused, ExportConversation, ChatBusy, DisposeConversation, Touch, Without, Live
<1>6. ASSUME NEW m \in Models, UnloadModel(m) \/ UnloadModelDone(m)
      PROVE  DOMAIN entries' \subseteq DOMAIN entries
  BY <1>6 DEF UnloadModel, UnloadModelDone, Without, Live
<1>7. ASSUME Shutdown \/ ShutdownDone
      PROVE  DOMAIN entries' \subseteq DOMAIN entries
  BY <1>7 DEF Shutdown, ShutdownDone, Without, Live
<1>8. ASSUME NEW c \in Calls, NEW i \in Ids, ChatBegin(c, i)
      PROVE  DOMAIN entries' \subseteq DOMAIN entries
  BY <1>8 DEF ChatBegin, Acquire, Touch
<1>9. ASSUME NEW c \in Calls, ChatResolve(c) \/ ChatSave(c) \/ ChatLeave(c)
      PROVE  DOMAIN entries' \subseteq DOMAIN entries
  BY <1>9 DEF ChatResolve, ChatSave, ChatLeave, Touch, Release
<1>10. QED
  BY <1>3, <1>4, <1>5, <1>6, <1>7, <1>8, <1>9 DEF Next, Live

\* The pool never outgrows maxConversations, whichever operation adds to it.
THEOREM CapacityHolds == Spec => []Capacity
<1>1. Init => Capacity
  BY FS_EmptySet DEF Init, Capacity, Live
<1>2. Inv /\ Capacity /\ [Next]_vars => Capacity'
  <2> SUFFICES ASSUME Inv, Capacity, [Next]_vars PROVE Capacity'
    OBVIOUS
  <2>1. IsFiniteSet(Live(entries)) /\ Cardinality(Live(entries)) \in Nat
    <3>1. IsFiniteSet(Live(entries))
      BY IdsFinite DEF Inv, TypeOK, Live
    <3>2. QED
      BY <3>1, FS_CardinalityType
  <2>2. CASE Live(entries') \subseteq Live(entries)
    BY <2>1, <2>2, FS_Subset, FS_CardinalityType DEF Capacity, Live
  <2>3. CASE Grown(Live(entries'))
    <3>1. PICK kept \in SUBSET Live(entries) :
              Cardinality(kept) < MaxConversations /\ Live(entries') = kept \cup {nextId}
      BY <2>3 DEF Grown
    <3>2. IsFiniteSet(kept) /\ Cardinality(kept) \in Nat
      BY <2>1, FS_Subset, FS_CardinalityType
    <3>3. Cardinality(kept \cup {nextId}) <= Cardinality(kept) + 1
      BY <3>2, FS_AddElement
    <3>4. Cardinality(kept \cup {nextId}) \in Nat
      BY <3>2, FS_AddElement, FS_CardinalityType
    <3>5. QED
      BY <3>1, <3>2, <3>3, <3>4 DEF Capacity, Live
  <2>4. CASE UNCHANGED vars
    BY <2>4 DEF vars, Capacity, Live
  <2>5. QED
    BY <2>2, <2>3, <2>4, DomainStep
<1>3. QED
  BY <1>1, <1>2, InvHolds, PTL DEF Spec

\* A handle that lost its entry never gets one again: ids are issued once.
THEOREM NeverRevivedHolds == Spec => NeverRevived
<1>1. ASSUME Inv, Capacity, [Next]_vars
      PROVE  [\A i \in Handles \ Live(entries) : i \notin Live(entries')]_vars
  <2> SUFFICES ASSUME Next, NEW i \in Handles \ Live(entries)
               PROVE  i \notin Live(entries')
    BY <1>1
  <2>1. i # nextId
    BY <1>1 DEF Inv, TypeOK, Handles
  <2>2. QED
    BY <1>1, <2>1, DomainStep DEF Grown
<1>2. QED
  BY <1>1, InvHolds, CapacityHolds, PTL DEF Spec, NeverRevived

(***************************************************************************)
(* The pool implements LruSet.  The order of last use is read off the      *)
(* access ordinals, so that a touch with a new ordinal moves the entry to  *)
(* the end, and the eviction's minimum is the member used longest ago.     *)
(***************************************************************************)

\* In es the entry of i has been touched, with an ordinal above all others.
LEMMA OlderTouched ==
    ASSUME Inv, NEW i \in Live(entries), NEW ordinal \in Nat, ordinal > accessCounter,
           NEW es, DOMAIN es = Live(entries),
           \A j \in Live(entries) :
               es[j].accessSeq = IF j = i THEN ordinal ELSE entries[j].accessSeq
    PROVE  Older(es) = Lru!Moved(Older(entries), i)
<1> DEFINE L == Live(entries)
<1>1. \A j \in L : entries[j].accessSeq \in Nat /\ entries[j].accessSeq < ordinal
  BY DEF Inv, TypeOK, RecencyTotal, Entry, Live
<1>2. Older(es) = {p \in L \X L : es[p[1]].accessSeq < es[p[2]].accessSeq}
  BY DEF Older, Live
<1>3. Older(entries) = {p \in L \X L : entries[p[1]].accessSeq < entries[p[2]].accessSeq}
  BY DEF Older
<1>4. Lru!Moved(Older(entries), i) =
          {p \in Older(entries) : p[1] \in L \ {i} /\ p[2] \in L \ {i}}
              \cup {<<y, i>> : y \in L \ {i}}
  BY DEF Lru!Moved, Lru!Last, Lru!Among, Lru!Present, Snapshots
<1> HIDE DEF L
<1>5. i \in L /\ \A j \in L : es[j].accessSeq = IF j = i THEN ordinal ELSE entries[j].accessSeq
  BY DEF L
<1>6. ASSUME NEW x \in L, NEW y \in L
      PROVE  <<x, y>> \in Older(es) <=> <<x, y>> \in Lru!Moved(Older(entries), i)
  <2>1. CASE y = i
    BY <1>1, <1>2, <1>4, <1>5, <2>1
  <2>2. CASE x = i /\ y # i
    <3>1. <<x, y>> \notin Older(es)
      BY <1>1, <1>2, <1>5, <2>2
    <3>2. <<x, y>> \notin Lru!Moved(Older(entries), i)
      BY <1>4, <2>2
    <3>3. QED
      BY <3>1, <3>2
  <2>3. CASE x # i /\ y # i
    BY <1>2, <1>3, <1>4, <1>5, <2>3
  <2>4. QED
    BY <2>1, <2>2, <2>3
<1>7. Older(es) \subseteq L \X L /\ Lru!Moved(Older(entries), i) \subseteq L \X L
  BY <1>2, <1>3, <1>4, <1>5
<1>8. QED
  BY <1>6, <1>7

\* A step that only touches the entry of i is a use of i.
LEMMA TouchIsUse ==
    ASSUME Inv, NEW i \in Live(entries), NEW ordinal \in Nat, ordinal > accessCounter,
           entries' = Touch(entries, i, ordinal)
    PROVE  Lru!LruNext
<1>1. /\ DOMAIN entries' = Live(entries)
      /\ \A j \in Live(entries) :
             /\ entries'[j].locked = entries[j].locked
             /\ entries'[j].snapshot = entries[j].snapshot
             /\ entries'[j].accessSeq = IF j = i THEN ordinal ELSE entries[j].accessSeq
  BY DEF Inv, TypeOK, Touch, Entry, Live
<1>2. Older(entries') = Lru!Moved(Older(entries), i)
  BY <1>1, OlderTouched
<1>3. Locked(entries') = Locked(entries) /\ Snapshots(entries') = Snapshots(entries)
  BY <1>1 DEF Locked, Snapshots, Live
<1>4. i \in Ids /\ i \in Lru!Present
  BY DEF Inv, TypeOK, Lru!Present, Snapshots, Live
<1>5. Lru!Use(i)
  BY <1>2, <1>3, <1>4 DEF Lru!Use
<1>6. QED
  BY <1>4, <1>5 DEF Lru!LruNext

\* Entries that leave the pool with their owner are members removed.
LEMMA WithoutIsRemove ==
    ASSUME Inv, NEW out, entries' = Without(entries, out)
    PROVE  Lru!LruNext
<1> DEFINE gone == out \cap Live(entries)
<1>1. /\ DOMAIN entries' = Live(entries) \ gone
      /\ \A j \in Live(entries) \ gone : entries'[j] = entries[j]
  BY DEF Without, Live
<1>2. Lru!Present = Live(entries) /\ gone \in SUBSET Live(entries)
  BY DEF Lru!Present, Snapshots
<1> HIDE DEF gone
<1>3. Older(entries') = Lru!Among(Older(entries), Live(entries) \ gone)
  BY <1>1 DEF Older, Live, Lru!Among
<1>4. Locked(entries') = Locked(entries) \ gone
  BY <1>1 DEF Locked, Live
<1>5. Snapshots(entries') = [y \in Live(entries) \ gone |-> Snapshots(entries)[y]]
  BY <1>1 DEF Snapshots, Live
<1>6. Lru!Remove(gone)
  BY <1>2, <1>3, <1>4, <1>5 DEF Lru!Remove
<1>7. QED
  BY <1>2, <1>6 DEF Lru!LruNext

\* Room is made by displacing the member used longest ago of those not in use,
\* and the new entry, with the newest ordinal, comes last.
LEMMA InsertIsJoin ==
    ASSUME Inv, IdLeft, NEW before, IsMap(before), DOMAIN before = Live(entries),
           NEW ordinal \in Nat,
           \A j \in Live(entries) :
               /\ before[j].locked = entries[j].locked
               /\ before[j].snapshot = entries[j].snapshot
               /\ before[j].accessSeq < ordinal,
           \A j, k \in Live(entries) : before[j].accessSeq = before[k].accessSeq => j = k,
           NEW room \in MadeRoom(before), NEW m, NEW snap,
           entries' = Insert(room, nextId, NewEntry(m, snap, ordinal))
    PROVE  Lru!Joins(nextId, Older(before), snap) /\ nextId \in Ids
<1> DEFINE L == Live(entries)
           gone == L \ DOMAIN room
           kept == L \ gone
           new == NewEntry(m, snap, ordinal)
<1>1. nextId \in Ids /\ nextId \notin L /\ Lru!Present = L
  BY DEF Inv, TypeOK, IdsIssued, Handles, IdLeft, Ids, Lru!Present, Snapshots
<1>2. /\ DOMAIN room \subseteq L
      /\ \A j \in gone : ~before[j].locked
      /\ \A j \in DOMAIN room : room[j] = before[j]
  BY MadeRoomMap
<1>3. /\ DOMAIN entries' = kept \cup {nextId}
      /\ entries'[nextId] = new
      /\ \A j \in kept : entries'[j] = before[j]
  BY <1>1, <1>2 DEF Insert, Live
<1>4. new.locked = FALSE /\ new.accessSeq = ordinal /\ new.snapshot = snap
  BY DEF NewEntry
<1>5. gone \in Lru!Displaced(Older(before))
  <2>0. Lru!Cardinality(L) = Cardinality(L)
    BY DEF Lru!Cardinality, Cardinality
  <2>1. CASE Cardinality(L) < MaxConversations
    <3>1. room = before
      BY <2>1 DEF MadeRoom, Live
    <3>2. gone = {}
      BY <3>1
    <3>3. QED
      BY <1>1, <2>0, <2>1, <3>2 DEF Lru!Displaced
  <2>2. CASE ~(Cardinality(L) < MaxConversations)
    <3>1. PICK i \in L : IsLruEvictable(before, i) /\ room = Without(before, {i})
      BY <2>2 DEF MadeRoom, Live
    <3>2. gone = {i}
      BY <3>1 DEF Without, Live
    <3>3. Lru!OldestIdle(Older(before), i)
      <4>1. i \notin Locked(entries)
        BY <3>1 DEF IsLruEvictable, Evictable, Locked
      <4>2. ASSUME NEW y \in L \ (Locked(entries) \cup {i})
            PROVE  <<i, y>> \in Older(before)
        <5>1. ~before[y].locked
          BY <4>2 DEF Locked
        <5>2. before[i].accessSeq <= before[y].accessSeq
          BY <3>1, <5>1 DEF IsLruEvictable, Evictable, Live
        <5>3. before[i].accessSeq # before[y].accessSeq
          BY <3>1
        <5>4. before[i].accessSeq \in Nat /\ before[y].accessSeq \in Nat
          BY <3>1 DEF IsMap, Entry
        <5>5. QED
          BY <5>2, <5>3, <5>4 DEF Older, Live
      <4>3. QED
        BY <1>1, <4>1, <4>2 DEF Lru!OldestIdle
    <3>4. QED
      BY <1>1, <2>0, <2>2, <3>2, <3>3 DEF Lru!Displaced
  <2>3. QED
    BY <2>1, <2>2
<1>6. Older(entries') = Lru!Last(Older(before), L \ gone, nextId)
  <2>1. \A j \in kept : before[j].accessSeq \in Nat /\ before[j].accessSeq < ordinal
    BY DEF IsMap, Entry
  <2>2. Older(entries') = {p \in (kept \cup {nextId}) \X (kept \cup {nextId}) :
                               entries'[p[1]].accessSeq < entries'[p[2]].accessSeq}
    BY <1>3 DEF Older, Live
  <2>3. Older(before) = {p \in L \X L : before[p[1]].accessSeq < before[p[2]].accessSeq}
    BY DEF Older, Live
  <2>4. Lru!Last(Older(before), kept, nextId) =
            {p \in Older(before) : p[1] \in kept /\ p[2] \in kept}
                \cup {<<y, nextId>> : y \in kept}
    BY DEF Lru!Last, Lru!Among
  <2>5. kept \subseteq L /\ nextId \notin kept
    BY <1>1
  <2> HIDE DEF L, gone, kept, new
  <2>6. ASSUME NEW x \in kept \cup {nextId}, NEW y \in kept \cup {nextId}
        PROVE  <<x, y>> \in Older(entries') <=>
                   <<x, y>> \in Lru!Last(Older(before), kept, nextId)
    <3>1. CASE x \in kept /\ y = nextId
      BY <1>3, <1>4, <2>1, <2>2, <2>4, <3>1
    <3>2. CASE x = nextId
      <4>1. <<x, y>> \notin Older(entries')
        BY <1>3, <1>4, <2>1, <2>2, <3>2
      <4>2. <<x, y>> \notin Lru!Last(Older(before), kept, nextId)
        BY <2>4, <2>5, <3>2
      <4>3. QED
        BY <4>1, <4>2
    <3>3. CASE x \in kept /\ y \in kept
      <4>1. <<x, y>> \in Older(entries') <=> before[x].accessSeq < before[y].accessSeq
        BY <1>3, <2>2, <3>3
      <4>2. <<x, y>> \in Older(before) <=> before[x].accessSeq < before[y].accessSeq
        BY <2>3, <2>5, <3>3
      <4>3. y # nextId
        BY <2>5, <3>3
      <4>4. QED
        BY <2>4, <3>3, <4>1, <4>2, <4>3
    <3>4. QED
      BY <3>1, <3>2, <3>3
  <2>7. /\ Older(entries') \subseteq (kept \cup {nextId}) \X (kept \cup {nextId})
        /\ Lru!Last(Older(before), kept, nextId) \subseteq
               (kept \cup {nextId}) \X (kept \cup {nextId})
    BY <2>2, <2>3, <2>4
  <2>8. Older(entries') = Lru!Last(Older(before), kept, nextId)
    <3> DEFINE pairs == (kept \cup {nextId}) \X (kept \cup {nextId})
    <3>1. \A p \in pairs : p \in Older(entries') <=>
                               p \in Lru!Last(Older(before), kept, nextId)
      BY <2>6
    <3>2. /\ Older(entries') \subseteq pairs
          /\ Lru!Last(Older(before), kept, nextId) \subseteq pairs
      BY <2>7
    <3> HIDE DEF pairs
    <3>3. QED
      BY <3>1, <3>2
  <2>9. QED
    BY <2>8 DEF kept
<1>7. Locked(entries') = Locked(entries)
  BY <1>1, <1>2, <1>3, <1>4 DEF Locked, Live
<1>8. Snapshots(entries') = [y \in (L \ gone) \cup {nextId} |->
                                 IF y = nextId THEN snap ELSE Snapshots(entries)[y]]
  BY <1>1, <1>3, <1>4 DEF Snapshots, Live
<1> HIDE DEF gone, kept, new
<1>9. QED
  BY <1>1, <1>5, <1>6, <1>7, <1>8 DEF Lru!Joins

\* A call that ends leaves its member, as it was or with a new snapshot.
LEMMA EndIsLeave ==
    ASSUME Inv, NEW c \in Calls, ChatSave(c) \/ ChatLeave(c)
    PROVE  Lru!LruNext \/ UNCHANGED Lru!lruVars
<1> DEFINE i == call[c].conv
<1>1. InFlight(c)
  BY DEF ChatSave, ChatLeave, InFlight
<1>2. CASE i \notin Live(entries)
  <2>1. entries' = entries
    BY <1>2 DEF ChatSave, ChatLeave, Release
  <2>2. QED
    BY <2>1 DEF Lru!lruVars
<1>3. CASE i \in Live(entries)
  <2>1. i \in Ids /\ i \in Locked(entries)
    BY <1>1, <1>3 DEF Inv, TypeOK, SingleWriter, Locked, Live
  <2>2. ASSUME ChatLeave(c) PROVE Lru!Leave(i)
    <3>1. /\ DOMAIN entries' = Live(entries)
          /\ \A j \in Live(entries) :
                 /\ entries'[j].snapshot = entries[j].snapshot
                 /\ entries'[j].accessSeq = entries[j].accessSeq
                 /\ entries'[j].locked <=> (entries[j].locked /\ j # i)
      BY <1>3, <2>2 DEF ChatLeave, Release, Inv, TypeOK, Entry, Live
    <3>2. Older(entries') = Older(entries) /\ Snapshots(entries') = Snapshots(entries)
      BY <3>1 DEF Older, Snapshots, Live
    <3>3. Locked(entries') = Locked(entries) \ {i}
      BY <3>1 DEF Locked, Live
    <3>4. QED
      BY <2>1, <3>2, <3>3 DEF Lru!Leave
  <2>3. ASSUME ChatSave(c) PROVE Lru!Leave(i)
    <3>1. accessCounter + 1 \in Nat /\ accessCounter + 1 > accessCounter
      BY DEF Inv, TypeOK
    <3>2. /\ DOMAIN entries' = Live(entries)
          /\ \A j \in Live(entries) :
                 /\ entries'[j].snapshot = IF j = i THEN i ELSE entries[j].snapshot
                 /\ entries'[j].accessSeq =
                        IF j = i THEN accessCounter + 1 ELSE entries[j].accessSeq
                 /\ entries'[j].locked <=> (entries[j].locked /\ j # i)
      BY <1>3, <2>3 DEF ChatSave, Release, Touch, Inv, TypeOK, Entry, Live
    <3>3. Older(entries') = Lru!Moved(Older(entries), i)
      BY <1>3, <3>1, <3>2, OlderTouched
    <3>4. Snapshots(entries') = [Snapshots(entries) EXCEPT ![i] = i]
      BY <3>2 DEF Snapshots, Live
    <3>5. Locked(entries') = Locked(entries) \ {i}
      BY <3>2 DEF Locked, Live
    <3>6. QED
      BY <2>1, <3>3, <3>4, <3>5 DEF Lru!Leave
  <2>4. QED
    BY <2>1, <2>2, <2>3 DEF Lru!LruNext
<1>4. QED
  BY <1>2, <1>3

LEMMA BeginIsClaim ==
    ASSUME Inv, NEW c \in Calls, NEW i \in Ids, ChatBegin(c, i)
    PROVE  Lru!LruNext
<1>1. /\ i \in Live(entries) /\ ~entries[i].locked
      /\ accessCounter + 2 \in Nat /\ accessCounter + 2 > accessCounter
  BY DEF ChatBegin, Inv, TypeOK
<1>2. /\ DOMAIN entries' = Live(entries)
      /\ \A j \in Live(entries) :
             /\ entries'[j].snapshot = entries[j].snapshot
             /\ entries'[j].accessSeq = IF j = i THEN accessCounter + 2 ELSE entries[j].accessSeq
             /\ entries'[j].locked <=> (entries[j].locked \/ j = i)
  BY <1>1 DEF ChatBegin, Acquire, Touch, Inv, TypeOK, Entry, Live
<1>3. Older(entries') = Lru!Moved(Older(entries), i)
  BY <1>1, <1>2, OlderTouched
<1>4. Snapshots(entries') = Snapshots(entries) /\ Locked(entries') = Locked(entries) \cup {i}
  BY <1>1, <1>2 DEF Snapshots, Locked, Live
<1>5. i \in Lru!Present \ Locked(entries)
  BY <1>1 DEF Lru!Present, Snapshots, Locked
<1>6. Lru!Claim(i)
  BY <1>3, <1>4, <1>5 DEF Lru!Claim
<1>7. QED
  BY <1>6 DEF Lru!LruNext

LEMMA LruStep == Inv /\ [Next]_vars => [Lru!LruNext]_Lru!lruVars
<1> SUFFICES ASSUME Inv, [Next]_vars PROVE Lru!LruNext \/ UNCHANGED Lru!lruVars
  OBVIOUS
<1>0. /\ accessCounter \in Nat
      /\ \A j \in Live(entries) : /\ entries[j].accessSeq \in Nat
                                 /\ entries[j].accessSeq <= accessCounter
      /\ \A j, k \in Live(entries) : entries[j].accessSeq = entries[k].accessSeq => j = k
      /\ IsMap(entries)
  BY DEF Inv, TypeOK, RecencyTotal, IsMap, Entry, Live
<1>1. ASSUME NEW m \in Models, CreateConversation(m) PROVE Lru!LruNext
  <2>1. PICK room \in MadeRoom(entries) :
            entries' = Insert(room, nextId, NewEntry(m, NoId, accessCounter + 1))
    BY <1>1 DEF CreateConversation
  <2>2. accessCounter + 1 \in Nat /\ \A j \in Live(entries) : entries[j].accessSeq < accessCounter + 1
    BY <1>0
  <2>3. Lru!Joins(nextId, Older(entries), NoId) /\ nextId \in Ids
    BY <1>0, <1>1, <2>1, <2>2, InsertIsJoin DEF CreateConversation, Live
  <2>4. QED
    BY <2>3 DEF Lru!Admit, Lru!LruNext
<1>2. ASSUME NEW m \in Models, ImportConversation(m) PROVE Lru!LruNext
  <2>1. PICK room \in MadeRoom(entries) :
            entries' = Insert(room, nextId, NewEntry(m, nextId, accessCounter + 2))
    BY <1>2 DEF ImportConversation
  <2>2. accessCounter + 2 \in Nat /\ \A j \in Live(entries) : entries[j].accessSeq < accessCounter + 2
    BY <1>0
  <2>3. Lru!Joins(nextId, Older(entries), nextId) /\ nextId \in Ids
    BY <1>0, <1>2, <2>1, <2>2, InsertIsJoin DEF ImportConversation, Live
  <2>4. QED
    BY <2>3 DEF Lru!Admit, Lru!LruNext
<1>3. ASSUME NEW src \in Ids, ForkConversation(src) PROVE Lru!LruNext
  <2> DEFINE touched == Touch(entries, src, accessCounter + 1)
  <2>1. /\ src \in Live(entries) /\ entries[src].snapshot # NoId
        /\ accessCounter + 1 \in Nat /\ accessCounter + 2 \in Nat
    BY <1>0, <1>3 DEF ForkConversation, Populated
  <2>2. /\ IsMap(touched)
        /\ DOMAIN touched = Live(entries)
        /\ \A j \in Live(entries) :
               /\ touched[j].locked = entries[j].locked
               /\ touched[j].snapshot = entries[j].snapshot
               /\ touched[j].accessSeq =
                      IF j = src THEN accessCounter + 1 ELSE entries[j].accessSeq
    BY <1>0, <2>1 DEF Touch, IsMap, Entry, Live
  <2>3. PICK room \in MadeRoom(touched) :
            entries' = Insert(room, nextId,
                           NewEntry(entries[src].model, entries[src].snapshot, accessCounter + 2))
    BY <1>3 DEF ForkConversation
  <2> HIDE DEF touched
  <2>4. /\ \A j \in Live(entries) : touched[j].accessSeq < accessCounter + 2
        /\ \A j, k \in Live(entries) : touched[j].accessSeq = touched[k].accessSeq => j = k
    BY <1>0, <2>2
  <2>5. Lru!Joins(nextId, Older(touched), entries[src].snapshot) /\ nextId \in Ids
    BY <1>3, <2>1, <2>2, <2>3, <2>4, InsertIsJoin DEF ForkConversation
  <2>6. Older(touched) = Lru!Moved(Older(entries), src)
    BY <1>0, <2>1, <2>2, OlderTouched
  <2>7. src \in Lru!Present /\ Snapshots(entries)[src] = entries[src].snapshot
    BY <2>1 DEF Lru!Present, Snapshots
  <2>8. Lru!AdmitCopy(src, nextId)
    BY <2>1, <2>5, <2>6, <2>7 DEF Lru!AdmitCopy
  <2>9. QED
    BY <2>5, <2>8 DEF Lru!LruNext
<1>4. ASSUME NEW i \in Ids, ForkRefused(i) \/ ExportConversation(i) \/ ChatBusy(i)
      PROVE  Lru!LruNext
  <2>1. PICK ordinal \in Nat : /\ i \in Live(entries) /\ ordinal > accessCounter
                               /\ entries' = Touch(entries, i, ordinal)
    BY <1>0, <1>4 DEF ForkRefused, ExportConversation, ChatBusy
  <2>2. QED
    BY <2>1, TouchIsUse
<1>5. ASSUME NEW c \in Calls, ChatResolve(c) PROVE Lru!LruNext
  BY <1>0, <1>5, TouchIsUse DEF ChatResolve
<1>6. ASSUME NEW i \in Ids, DisposeConversation(i) PROVE Lru!LruNext
  BY <1>6, WithoutIsRemove DEF DisposeConversation
<1>7. ASSUME NEW m \in Models, UnloadModel(m) PROVE Lru!LruNext
  BY <1>7, WithoutIsRemove DEF UnloadModel
<1>8. CASE Shutdown
  BY <1>8, WithoutIsRemove DEF Shutdown
<1>9. ASSUME UNCHANGED entries PROVE UNCHANGED Lru!lruVars
  BY <1>9 DEF Lru!lruVars
<1>10. ASSUME NEW m \in Models, UnloadModelDone(m) PROVE UNCHANGED Lru!lruVars
  BY <1>9, <1>10 DEF UnloadModelDone
<1>11. CASE ShutdownDone \/ UNCHANGED vars
  BY <1>9, <1>11 DEF ShutdownDone, vars
<1>12. ASSUME NEW c \in Calls, NEW i \in Ids, ChatBegin(c, i) PROVE Lru!LruNext
  BY <1>12, BeginIsClaim
<1>13. ASSUME NEW c \in Calls, ChatSave(c) \/ ChatLeave(c)
       PROVE  Lru!LruNext \/ UNCHANGED Lru!lruVars
  BY <1>13, EndIsLeave
<1>14. QED
  BY <1>1, <1>2, <1>3, <1>4, <1>5, <1>6, <1>7, <1>8, <1>10, <1>11, <1>12, <1>13 DEF Next

\* The pool is the bounded set it promises to be: it evicts the idle
\* conversation used longest ago, keeps one in use, and no operation changes
\* the order, the locks or the snapshots in any other way.
THEOREM ImplementsLruHolds == Spec => ImplementsLru
<1>1. Init => Lru!LruInit
  BY DEF Init, Lru!LruInit, Older, Locked, Snapshots, Live
<1>2. QED
  BY <1>1, LruStep, InvHolds, PTL DEF Spec, ImplementsLru, Lru!Spec
=============================================================================
