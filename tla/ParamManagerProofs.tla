------------------------- MODULE ParamManagerProofs -------------------------
(***************************************************************************)
(* ParamManager for any parameters, values and threads: what a successful  *)
(* set stored is kept, and a restart changes nothing that was saved.       *)
(*                                                                         *)
(* Both follow from SetsInOrder: while a thread is inside set, the cache   *)
(* holds its value or that of a set that began later, and after its save   *)
(* so does flash.                                                          *)
(***************************************************************************)
EXTENDS ParamManager, TLAPS

\* What the sets under way have made of cache and flash.
SetsInOrder ==
    \A t \in Threads : pc[t] # "idle" =>
        /\ cache[call[t].id] \in newer[t]
        /\ pc[t] = "saved" => flash[call[t].id] \in newer[t]

\* The inductive invariant.
ParamInv == TypeOK /\ SetsInOrder /\ RestartChangesNothing /\ SuccessIsKept

(***************************************************************************)
(* What the settings subsystem finds under a subtree.                      *)
(***************************************************************************)

\* Everything is under the root.
LEMMA UnderRoot ==
    ASSUME NEW id \in IDs
    PROVE  IsPrefix(<< >>, Key(id))
<1>1. Len(<< >>) = 0 /\ SubSeq(<< >>, 1, 0) = << >>
  OBVIOUS
<1>2. Key(id) \in Seq({"params", id}) /\ Len(Key(id)) = 2
  BY DEF Key
<1>3. SubSeq(Key(id), 1, 0) = << >>
  BY <1>2
<1>4. QED
  BY <1>1, <1>2, <1>3 DEF IsPrefix

\* What a restart makes of each kind of record, now and after a step.
LEMMA RestoredValue ==
    ASSUME TypeOK, NEW id \in IDs
    PROVE  /\ Restored[id] \in Data \cup {Torn}
           /\ flash[id] \in Data => Restored[id] = flash[id]
           /\ flash'[id] \in Data => Restored'[id] = flash'[id]
           /\ flash' = flash => Restored' = Restored
           /\ flash'[id] = flash[id] => Restored'[id] = Restored[id]
<1>1. Restored[id] = IF flash[id] = NoRecord THEN Default[id]
                     ELSE IF flash[id] = ShortRecord THEN Torn ELSE flash[id]
  BY UnderRoot DEF Restored, AfterLoad
<1>2. Restored'[id] = IF flash'[id] = NoRecord THEN Default[id]
                      ELSE IF flash'[id] = ShortRecord THEN Torn ELSE flash'[id]
  BY UnderRoot DEF Restored, AfterLoad
<1>3. flash[id] \in Data \cup {NoRecord, ShortRecord}
  BY DEF TypeOK
<1>4. flash' = flash => Restored' = Restored
  BY DEF Restored, AfterLoad
<1>5. QED
  BY <1>1, <1>2, <1>3, <1>4, DefaultAssumption, RecordAssumption

\* Nothing is under the bare name of a parameter: load changes no cache.
LEMMA LoadNothing ==
    ASSUME NEW id \in IDs, NEW c, c = [i \in IDs |-> c[i]]
    PROVE  AfterLoad(c, <<id>>) = c
<1>1. ASSUME NEW i \in IDs PROVE ~IsPrefix(<<id>>, Key(i))
  <2>1. Key(i)[1] = "params" /\ id # "params"
    BY NameAssumption DEF Key
  <2>2. Len(<<id>>) = 1 /\ SubSeq(<<id>>, 1, 1)[1] = id
    OBVIOUS
  <2>3. Key(i) \in Seq({"params", i}) /\ Len(Key(i)) = 2
    BY DEF Key
  <2>4. SubSeq(Key(i), 1, 1)[1] = Key(i)[1]
    BY <2>3
  <2>5. QED
    BY <2>1, <2>2, <2>4 DEF IsPrefix
<1>2. QED
  BY <1>1 DEF AfterLoad

(***************************************************************************)
(* The invariant.                                                          *)
(***************************************************************************)

\* At the first start nothing has been set.
LEMMA InitInv == Init => ParamInv
<1>1. SUFFICES ASSUME Init PROVE ParamInv
  OBVIOUS
<1>2. \A id \in IDs : Restored[id] \in Data \cup {Torn}
  <2>1. TAKE id \in IDs
  <2>2. Restored[id] = IF flash[id] = NoRecord THEN Default[id]
                       ELSE IF flash[id] = ShortRecord THEN Torn ELSE flash[id]
    BY UnderRoot DEF Restored, AfterLoad
  <2>3. flash[id] \in Data \cup {NoRecord, ShortRecord}
    BY <1>1 DEF Init
  <2>4. QED
    BY <2>2, <2>3, DefaultAssumption
<1>3. TypeOK
  BY <1>1, <1>2 DEF Init, TypeOK
<1>4. QED
  BY <1>1, <1>3 DEF Init, ParamInv, SetsInOrder, RestartChangesNothing, SuccessIsKept

\* Defaults and then the records give what flash says.
LEMMA BootInv == ParamInv /\ Boot => ParamInv'
<1>1. SUFFICES ASSUME ParamInv, Boot PROVE ParamInv'
  OBVIOUS
<1>2. /\ TypeOK
      /\ Restored' = Restored
      /\ \A id \in IDs : Restored[id] \in Data \cup {Torn}
  BY <1>1, RestoredValue DEF ParamInv, Boot, Restored, AfterLoad
<1>3. \A t \in Threads : pc'[t] = "idle"
  BY <1>1, <1>2 DEF Boot, TypeOK
<1>4. cache' \in [IDs -> Data \cup {Torn}]
  BY <1>1, <1>2 DEF Boot, Restored, AfterLoad
<1>5. TypeOK'
  BY <1>1, <1>2, <1>3, <1>4 DEF Boot, TypeOK
<1>6. SetsInOrder'
  BY <1>3 DEF SetsInOrder
<1>7. RestartChangesNothing'
  BY <1>1, <1>2 DEF Boot, RestartChangesNothing
<1>8. SuccessIsKept'
  BY <1>1, <1>2 DEF Boot, SuccessIsKept
<1>9. QED
  BY <1>5, <1>6, <1>7, <1>8 DEF ParamInv

\* A loss of power forgets the cache and the calls under way, not the records.
LEMMA CrashInv == ParamInv /\ Crash => ParamInv'
<1>1. SUFFICES ASSUME ParamInv, Crash PROVE ParamInv'
  OBVIOUS
<1>2. TypeOK /\ Restored' = Restored
  BY <1>1 DEF ParamInv, Crash, Restored, AfterLoad
<1>3. \A t \in Threads : pc'[t] = "idle"
  BY <1>1 DEF Crash
<1>4. TypeOK'
  BY <1>1, <1>2, <1>3 DEF Crash, TypeOK
<1>5. QED
  BY <1>1, <1>2, <1>3, <1>4
  DEF Crash, ParamInv, SetsInOrder, RestartChangesNothing, SuccessIsKept

\* A set that begins is the newest of its parameter.
LEMMA SetWritesInv ==
    ASSUME ParamInv, NEW t \in Threads, NEW id \in IDs, NEW value \in Data,
           SetWrites(t, id, value)
    PROVE  ParamInv'
<1>1. TypeOK /\ Restored' = Restored /\ running /\ pc[t] = "idle"
  BY DEF ParamInv, SetWrites, Restored, AfterLoad
<1>2. /\ cache' = [cache EXCEPT ![id] = value]
      /\ pc' = [pc EXCEPT ![t] = "save"]
      /\ call' = [call EXCEPT ![t] = [id |-> id, value |-> value]]
      /\ newer' = [u \in Threads |->
                      IF u = t THEN {value}
                      ELSE IF u \in Setting(id) THEN newer[u] \cup {value} ELSE newer[u]]
      /\ allowed' = [allowed EXCEPT ![id] = @ \cup {value}]
      /\ UNCHANGED <<running, flash, unsaved>> /\ loaded' = NoId
  BY DEF SetWrites
<1>3. TypeOK'
  <2>1. cache' \in [IDs -> Data \cup {Torn}] /\ pc' \in [Threads -> {"idle", "save", "saved"}]
    BY <1>1, <1>2 DEF TypeOK
  <2>2. newer' \in [Threads -> SUBSET Data] /\ allowed' \in [IDs -> SUBSET (Data \cup {Torn})]
    BY <1>1, <1>2 DEF TypeOK
  <2>3. ASSUME NEW u \in Threads, pc'[u] # "idle"
        PROVE  running' /\ call'[u].id \in IDs
    BY <1>1, <1>2, <2>3 DEF TypeOK
  <2>4. QED
    BY <1>1, <1>2, <2>1, <2>2, <2>3 DEF TypeOK
<1>4. SetsInOrder'
  <2>1. SUFFICES ASSUME NEW u \in Threads, pc'[u] # "idle"
                 PROVE  /\ cache'[call'[u].id] \in newer'[u]
                        /\ pc'[u] = "saved" => flash'[call'[u].id] \in newer'[u]
    BY DEF SetsInOrder
  <2>2. CASE u = t
    BY <1>1, <1>2, <2>2 DEF TypeOK
  <2>3. CASE u # t
    <3>1. pc'[u] = pc[u] /\ call'[u] = call[u] /\ call[u].id \in IDs
      BY <1>1, <1>2, <2>1, <2>3 DEF TypeOK
    <3>2. cache[call[u].id] \in newer[u] /\ (pc[u] = "saved" => flash[call[u].id] \in newer[u])
      BY <2>1, <3>1 DEF ParamInv, SetsInOrder
    <3>3. newer[u] \subseteq newer'[u]
      BY <1>2, <2>3
    <3>4. call[u].id = id => value \in newer'[u]
      BY <1>2, <2>1, <2>3, <3>1 DEF Setting
    <3>5. cache'[call[u].id] = IF call[u].id = id THEN value ELSE cache[call[u].id]
      BY <1>1, <1>2, <3>1 DEF TypeOK
    <3>6. QED
      BY <1>2, <3>1, <3>2, <3>3, <3>4, <3>5
  <2>4. QED
    BY <2>2, <2>3
<1>5. RestartChangesNothing'
  <2>1. SUFFICES ASSUME NEW i \in IDs
                 PROVE  \/ \E u \in Setting(i)' : pc'[u] = "save"
                        \/ i \in unsaved'
                        \/ cache'[i] = Restored'[i]
    BY DEF RestartChangesNothing
  <2>2. CASE i = id
    <3>1. pc'[t] = "save" /\ call'[t].id = id
      BY <1>1, <1>2, <1>3 DEF TypeOK, SetWrites
    <3>2. QED
      BY <2>2, <3>1 DEF Setting
  <2>3. CASE i # id
    <3>1. cache'[i] = cache[i]
      BY <1>1, <1>2, <2>3 DEF TypeOK
    <3>2. \A u \in Setting(i) : u \in Setting(i)' /\ pc'[u] = pc[u]
      BY <1>1, <1>2 DEF Setting
    <3>3. QED
      BY <1>1, <1>2, <3>1, <3>2 DEF ParamInv, RestartChangesNothing
  <2>4. QED
    BY <2>2, <2>3
<1>6. SuccessIsKept'
  BY <1>1, <1>2 DEF ParamInv, SuccessIsKept, TypeOK
<1>7. QED
  BY <1>3, <1>4, <1>5, <1>6 DEF ParamInv

\* A save stores what the cache holds, which is the newest set's value.
LEMMA SavesInv ==
    ASSUME ParamInv, NEW t \in Threads, Saves(t)
    PROVE  ParamInv'
<1>. DEFINE id == call[t].id
<1>1. TypeOK /\ running /\ id \in IDs
  BY DEF ParamInv, TypeOK, Saves
<1>2. /\ pc[t] = "save" /\ pc' = [pc EXCEPT ![t] = "saved"]
      /\ flash' = [flash EXCEPT ![id] = cache[id]]
      /\ loaded' = NoId /\ unsaved' = unsaved \ {id}
      /\ UNCHANGED <<running, cache, call, newer, allowed>>
  BY DEF Saves
<1>3. cache[id] \in newer[t] /\ cache[id] \in Data
  BY <1>1, <1>2 DEF ParamInv, SetsInOrder, TypeOK
<1>4. flash'[id] = cache[id] /\ Restored'[id] = cache[id]
  BY <1>1, <1>2, <1>3, RestoredValue DEF TypeOK
<1>5. ASSUME NEW i \in IDs, i # id
      PROVE  flash'[i] = flash[i] /\ Restored'[i] = Restored[i]
  <2>1. flash'[i] = flash[i]
    BY <1>1, <1>2, <1>5 DEF TypeOK
  <2>2. QED
    BY <1>1, <2>1, RestoredValue
<1>6. TypeOK'
  BY <1>1, <1>2, <1>3 DEF TypeOK
<1>7. SetsInOrder'
  <2>1. SUFFICES ASSUME NEW u \in Threads, pc'[u] # "idle"
                 PROVE  /\ cache[call[u].id] \in newer[u]
                        /\ pc'[u] = "saved" => flash'[call[u].id] \in newer[u]
    BY <1>2 DEF SetsInOrder
  <2>2. pc[u] # "idle" /\ (u # t => pc'[u] = pc[u]) /\ call[u].id \in IDs
    BY <1>1, <1>2, <2>1 DEF TypeOK
  <2>3. cache[call[u].id] \in newer[u] /\ (pc[u] = "saved" => flash[call[u].id] \in newer[u])
    BY <2>2 DEF ParamInv, SetsInOrder
  <2>4. QED
    BY <1>4, <1>5, <2>2, <2>3
<1>8. RestartChangesNothing'
  <2>1. SUFFICES ASSUME NEW i \in IDs, i # id
                 PROVE  \/ \E u \in Setting(i)' : pc'[u] = "save"
                        \/ i \in unsaved'
                        \/ cache'[i] = Restored'[i]
    BY <1>2, <1>4 DEF RestartChangesNothing
  <2>2. \A u \in Setting(i) : u \in Setting(i)' /\ pc'[u] = pc[u]
    BY <1>1, <1>2, <2>1 DEF Setting, TypeOK
  <2>3. QED
    BY <1>1, <1>2, <1>5, <2>1, <2>2 DEF ParamInv, RestartChangesNothing
<1>9. SuccessIsKept'
  <2>1. SUFFICES ASSUME NEW i \in IDs
                 PROVE  Restored'[i] \in allowed[i] /\ cache[i] \in allowed[i]
    BY <1>2 DEF SuccessIsKept
  <2>2. Restored[i] \in allowed[i] /\ cache[i] \in allowed[i]
    BY <1>1 DEF ParamInv, SuccessIsKept
  <2>3. QED
    BY <1>4, <1>5, <2>2
<1>10. QED
  BY <1>6, <1>7, <1>8, <1>9 DEF ParamInv

\* A failing save leaves flash as it was.
LEMMA SaveFailsInv ==
    ASSUME ParamInv, NEW t \in Threads, SaveFails(t)
    PROVE  ParamInv'
<1>. DEFINE id == call[t].id
<1>1. TypeOK /\ running /\ id \in IDs /\ Restored' = Restored
  BY DEF ParamInv, TypeOK, SaveFails, Restored, AfterLoad
<1>2. /\ pc' = [pc EXCEPT ![t] = "idle"]
      /\ loaded' = NoId /\ unsaved' = unsaved \cup {id}
      /\ UNCHANGED <<running, cache, flash, call, newer, allowed>>
  BY DEF SaveFails
<1>3. \A u \in Threads : pc'[u] # "idle" => pc'[u] = pc[u]
  BY <1>1, <1>2 DEF TypeOK
<1>4. TypeOK'
  BY <1>1, <1>2, <1>3 DEF TypeOK
<1>5. SetsInOrder'
  BY <1>2, <1>3 DEF ParamInv, SetsInOrder
<1>6. RestartChangesNothing'
  <2>1. SUFFICES ASSUME NEW i \in IDs, i # id
                 PROVE  \/ \E u \in Setting(i)' : pc'[u] = "save"
                        \/ i \in unsaved'
                        \/ cache'[i] = Restored'[i]
    BY <1>2 DEF RestartChangesNothing
  <2>2. \A u \in Setting(i) : u \in Setting(i)' /\ pc'[u] = pc[u]
    BY <1>1, <1>2, <2>1 DEF Setting, TypeOK
  <2>3. QED
    BY <1>1, <1>2, <2>2 DEF ParamInv, RestartChangesNothing
<1>7. SuccessIsKept'
  BY <1>1, <1>2 DEF ParamInv, SuccessIsKept
<1>8. QED
  BY <1>4, <1>5, <1>6, <1>7 DEF ParamInv

\* A set that returns 0 left its value, or a newer one, in flash.
LEMMA SetReturnsInv ==
    ASSUME ParamInv, NEW t \in Threads, SetReturns(t)
    PROVE  ParamInv'
<1>. DEFINE id == call[t].id
<1>1. TypeOK /\ running /\ id \in IDs /\ Restored' = Restored
  BY DEF ParamInv, TypeOK, SetReturns, Restored, AfterLoad
<1>2. /\ pc[t] = "saved" /\ pc' = [pc EXCEPT ![t] = "idle"]
      /\ loaded' = NoId /\ allowed' = [allowed EXCEPT ![id] = newer[t]]
      /\ UNCHANGED <<running, cache, flash, call, newer, unsaved>>
  BY DEF SetReturns
<1>3. \A u \in Threads : pc'[u] # "idle" => pc'[u] = pc[u]
  BY <1>1, <1>2 DEF TypeOK
<1>4. cache[id] \in newer[t] /\ flash[id] \in newer[t] /\ newer[t] \subseteq Data
  BY <1>1, <1>2 DEF ParamInv, SetsInOrder, TypeOK
<1>5. Restored[id] = flash[id]
  BY <1>1, <1>4, RestoredValue
<1>6. TypeOK'
  BY <1>1, <1>2, <1>3, <1>4 DEF TypeOK
<1>7. SetsInOrder'
  BY <1>2, <1>3 DEF ParamInv, SetsInOrder
<1>8. RestartChangesNothing'
  <2>1. \A i \in IDs : \A u \in Setting(i) : pc[u] = "save" => u \in Setting(i)' /\ pc'[u] = pc[u]
    BY <1>1, <1>2 DEF Setting, TypeOK
  <2>2. QED
    BY <1>1, <1>2, <2>1 DEF ParamInv, RestartChangesNothing
<1>9. SuccessIsKept'
  <2>1. \A i \in IDs : allowed'[i] = IF i = id THEN newer[t] ELSE allowed[i]
    BY <1>1, <1>2 DEF TypeOK
  <2>2. QED
    BY <1>1, <1>2, <1>4, <1>5, <2>1 DEF ParamInv, SuccessIsKept
<1>10. QED
  BY <1>6, <1>7, <1>8, <1>9 DEF ParamInv

\* load finds no record, and so changes nothing.
LEMMA LoadInv ==
    ASSUME ParamInv, NEW id \in IDs, Load(id)
    PROVE  ParamInv'
<1>1. TypeOK /\ running /\ Restored' = Restored
  BY DEF ParamInv, Load, Restored, AfterLoad
<1>2. cache' = cache
  <2>1. cache = [i \in IDs |-> cache[i]]
    BY <1>1 DEF TypeOK
  <2>2. QED
    BY <2>1, LoadNothing DEF Load
<1>3. TypeOK'
  BY <1>1, <1>2 DEF Load, history, TypeOK
<1>4. Setting(id)' = Setting(id) /\ \A i \in IDs : Setting(i)' = Setting(i)
  BY DEF Load, Setting
<1>5. QED
  BY <1>1, <1>2, <1>3, <1>4
  DEF Load, history, ParamInv, SetsInOrder, RestartChangesNothing, SuccessIsKept

\* A step of others changes nothing either.
LEMMA StutterInv == ParamInv /\ UNCHANGED vars => ParamInv'
BY DEF ParamInv, vars, history, TypeOK, SetsInOrder, RestartChangesNothing, SuccessIsKept,
       Setting, Restored, AfterLoad

\* All the steps together.
LEMMA NextInv == ParamInv /\ [Next]_vars => ParamInv'
<1>1. SUFFICES ASSUME ParamInv, [Next]_vars PROVE ParamInv'
  OBVIOUS
<1>2. CASE Boot
  BY <1>1, <1>2, BootInv
<1>3. CASE Crash
  BY <1>1, <1>3, CrashInv
<1>4. CASE \E t \in Threads, id \in IDs, value \in Data : SetWrites(t, id, value)
  BY <1>1, <1>4, SetWritesInv
<1>5. CASE \E t \in Threads : Saves(t) \/ SaveFails(t) \/ SetReturns(t)
  BY <1>1, <1>5, SavesInv, SaveFailsInv, SetReturnsInv
<1>6. CASE \E id \in IDs : Load(id)
  BY <1>1, <1>6, LoadInv
<1>7. CASE UNCHANGED vars
  BY <1>1, <1>7, StutterInv
<1>8. QED
  BY <1>1, <1>2, <1>3, <1>4, <1>5, <1>6, <1>7 DEF Next

\* The invariant that the theorems below are read off.
LEMMA AlwaysInv == Spec => []ParamInv
BY InitInv, NextInv, PTL DEF Spec

(***************************************************************************)
(* The theorems.                                                           *)
(***************************************************************************)

\* The parameters and the threads that set them stay type correct, through
\* every loss of power.
THEOREM ParamTypeCorrect == Spec => []TypeOK
<1>1. ParamInv => TypeOK
  BY DEF ParamInv
<1>2. QED
  BY <1>1, AlwaysInv, PTL

\* Cache and flash are never left apart by threads that set one parameter at
\* the same time (param_manager.hpp, set): a restart changes nothing unless a
\* save is outstanding or failed.
THEOREM CacheAndFlashAgree == Spec => []RestartChangesNothing
<1>1. ParamInv => RestartChangesNothing
  BY DEF ParamInv
<1>2. QED
  BY <1>1, AlwaysInv, PTL

\* A set that returned 0 is undone only by sets that began after it.
THEOREM SetIsDurable == Spec => []SuccessIsKept
<1>1. ParamInv => SuccessIsKept
  BY DEF ParamInv
<1>2. QED
  BY <1>1, AlwaysInv, PTL
=============================================================================
