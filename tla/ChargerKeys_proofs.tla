------------------------- MODULE ChargerKeys_proofs -------------------------
(***************************************************************************)
(* A charger's keys outlive its crashes, and a good answer in time is      *)
(* accepted: for any number of keys, requests, challenges, kills and       *)
(* failed saves, with any nonce cap and lifetime.                          *)
(***************************************************************************)
EXTENDS ChargerKeys, FiniteSetTheorems, TLAPS

-----------------------------------------------------------------------------
(* The inductive invariant.                                                *)

\* The keys that were saved, the n-th newest first; none is key 0.
Saved == {saves[i] : i \in DOMAIN saves}
Newest(n) == IF Len(saves) > n THEN saves[Len(saves) - n] ELSE NoKey

KeyTypeOK ==
  /\ made \in Nat
  /\ saves \in Seq(Nat \ {NoKey})
  /\ up \in BOOLEAN
  /\ enrolling \in {"no", "made", "temp", "replaced"}
  /\ pair \in [current : Nat, previous : Nat]
  /\ file \in [current : Nat, previous : Nat]

\* Keys are saved in the order in which they are made, each at most once.
SavedInOrder ==
  /\ \A i, j \in 1..Len(saves) : i < j => saves[i] < saves[j]
  /\ \A i \in 1..Len(saves) : saves[i] <= made
  /\ enrolling \in {"made", "temp"} => \A i \in 1..Len(saves) : saves[i] < made
  /\ enrolling # "no" => up /\ made > 0

\* The file has the two newest of them; the process has the same, but for the
\* moment between a save and its use.
FileHasNewest ==
  /\ file.current = Newest(0) /\ file.previous = Newest(1)
  /\ up /\ enrolling # "replaced" => pair = file
  /\ enrolling = "replaced" => file = NewPair

\* The server learns of a key only when it is saved.
ServerHasSaved == {enrolled, staged, reply, replaced} \ {NoKey} \subseteq Saved

KeysInv == KeyDir => KeyTypeOK /\ SavedInOrder /\ FileHasNewest /\ ServerHasSaved

-----------------------------------------------------------------------------
(* The steps.                                                              *)

LEMMA KeysInit == Init => KeysInv
<1> SUFFICES ASSUME Init PROVE KeyTypeOK /\ SavedInOrder /\ FileHasNewest /\ ServerHasSaved
  BY DEF KeysInv
<1>1. saves = <<>> /\ Len(saves) = 0 BY DEF Init
<1>2. KeyTypeOK BY DEF Init, KeyTypeOK, NoPair, NoKey
<1>3. SavedInOrder BY <1>1 DEF Init, SavedInOrder
<1>4. FileHasNewest BY <1>1 DEF Init, FileHasNewest, Newest, NoPair
<1>5. ServerHasSaved BY DEF Init, RegisterInit, ServerHasSaved
<1> QED BY <1>2, <1>3, <1>4, <1>5

\* The register takes the key in the answer, the staged one or the one that was
\* replaced, or lets go of what it has.
LEMMA ServerSteps ==
  ASSUME AskForKey \/ ChallengeKey \/ GiveUp \/ BootCheck \/ PutBack \/ Time
         \/ \E n \in Checks : EndCheck(n)
  PROVE  /\ {enrolled', staged', reply', replaced'} \subseteq
              {enrolled, staged, reply, replaced, NoKey}
         /\ UNCHANGED chargerVars
<1>1. CASE AskForKey BY <1>1 DEF AskForKey, registerVars
<1>2. CASE ChallengeKey BY <1>2 DEF ChallengeKey, StageKey
<1>3. CASE GiveUp BY <1>3 DEF GiveUp, Undone, Unenrol, DiscardStaged
<1>4. CASE BootCheck BY <1>4 DEF BootCheck
<1>5. CASE PutBack BY <1>5 DEF PutBack, Enrol
<1>6. CASE Time BY <1>6 DEF Time, Tick, exchangeVars
<1>7. CASE \E n \in Checks : EndCheck(n)
  <2>1. PICK n \in Checks : EndCheck(n) BY <1>7
  <2>2. UNCHANGED chargerVars /\ reply' = reply /\ replaced' \in {replaced, enrolled}
    BY <2>1 DEF EndCheck
  <2>3. enrolled' \in {enrolled, staged, NoKey} /\ staged' \in {staged, NoKey}
    BY <2>1 DEF EndCheck, Unenrol, CommitStaged, DiscardStaged
  <2> QED BY <2>2, <2>3
<1> QED BY <1>1, <1>2, <1>3, <1>4, <1>5, <1>6, <1>7

\* What the charger does with its keys beside replacing the file keeps them.
LEMMA SameFile ==
  ASSUME KeyTypeOK, SavedInOrder, FileHasNewest, ServerHasSaved, KeyDir,
         MakeKey \/ WriteTemp \/ SaveFails \/ Install \/ Crash \/ Restart
         \/ \E n \in Checks : Sign(n)
  PROVE  (KeyTypeOK /\ SavedInOrder /\ FileHasNewest)' 
<1> USE DEF KeyTypeOK, SavedInOrder, FileHasNewest, Newest
<1>1. CASE MakeKey
  <2>1. \A i \in 1..Len(saves) : saves[i] \in Nat OBVIOUS
  <2>2. /\ enrolling = "no" /\ enrolling' = "made" /\ up /\ made' = made + 1 /\ made \in Nat
        /\ UNCHANGED <<up, pair, file, saves>>
    BY <1>1 DEF MakeKey
  <2>3. KeyTypeOK' BY <2>2
  <2>4. SavedInOrder'
    <3>1. \A i, j \in 1..Len(saves) : i < j => saves[i] < saves[j] OBVIOUS
    <3>2. \A i \in 1..Len(saves) : saves[i] <= made OBVIOUS
    <3>3. ASSUME NEW i \in 1..Len(saves) PROVE saves[i] <= made' /\ saves[i] < made'
      <4>1. PICK k \in Nat : k = saves[i] /\ k <= made BY <2>1, <3>2, Zenon
      <4>2. k <= made + 1 /\ k < made + 1 BY <2>2, <4>1
      <4> QED BY <2>2, <4>1, <4>2, Zenon
    <3>4. up' /\ made' > 0 BY <2>2
    <3> QED BY <2>2, <3>1, <3>3, <3>4
  <2>5. FileHasNewest' BY <2>2
  <2> QED BY <2>3, <2>4, <2>5
<1>2. CASE WriteTemp BY <1>2 DEF WriteTemp
<1>3. CASE SaveFails BY <1>3 DEF SaveFails
<1>4. CASE Install BY <1>4 DEF Install, NewPair
<1>5. CASE Crash BY <1>5 DEF Crash, NoPair, NoKey
<1>6. CASE Restart BY <1>6 DEF Restart
<1>7. CASE \E n \in Checks : Sign(n) BY <1>7 DEF Sign, chargerVars
<1> QED BY <1>1, <1>2, <1>3, <1>4, <1>5, <1>6, <1>7

\* ... and tells the server of no key but the newest one in the file.
LEMMA AnswerIsSaved ==
  ASSUME KeyTypeOK, SavedInOrder, FileHasNewest, ServerHasSaved, KeyDir,
         MakeKey \/ WriteTemp \/ SaveFails \/ Install \/ Crash \/ Restart
         \/ \E n \in Checks : Sign(n)
  PROVE  ServerHasSaved'
<1>1. UNCHANGED saves
  BY DEF MakeKey, WriteTemp, SaveFails, Install, Crash, Restart, Sign, chargerVars
<1>2. UNCHANGED <<enrolled, staged, replaced>>
  BY DEF MakeKey, WriteTemp, SaveFails, Install, Crash, Restart, Sign, Elsewhere, registerVars
<1>3. Saved' = Saved BY <1>1 DEF Saved
<1>4. CASE Install
  <2>1. enrolling = "replaced" /\ reply' \in {reply, made} BY <1>4 DEF Install
  <2>2. made = Newest(0) /\ made # NoKey
    BY <2>1 DEF FileHasNewest, NewPair, SavedInOrder, KeyTypeOK, NoKey
  <2>3. Len(saves) \in DOMAIN saves /\ saves[Len(saves)] = made
    BY <2>2 DEF Newest, KeyTypeOK
  <2> QED BY <1>2, <1>3, <2>1, <2>3 DEF ServerHasSaved, Saved
<1>5. CASE ~Install
  <2>1. UNCHANGED reply
    BY <1>5 DEF MakeKey, WriteTemp, SaveFails, Crash, Restart, Sign
  <2> QED BY <1>2, <1>3, <2>1 DEF ServerHasSaved
<1> QED BY <1>4, <1>5

\* The rename: the new key becomes the newest, the one before it the second.
LEMMA ReplaceKeeps ==
  ASSUME KeyTypeOK, SavedInOrder, FileHasNewest, ServerHasSaved, KeyDir, Replace
  PROVE  (KeyTypeOK /\ SavedInOrder /\ FileHasNewest /\ ServerHasSaved)'
<1>1. /\ enrolling = "temp" /\ up /\ made > 0 /\ made \in Nat /\ pair = file
      /\ saves \in Seq(Nat \ {NoKey}) /\ saves' = Append(saves, made)
      /\ UNCHANGED <<up, made, pair>> /\ enrolling' = "replaced" /\ file' = NewPair
  BY DEF Replace, KeyTypeOK, SavedInOrder, FileHasNewest
<1>2. /\ Len(saves') = Len(saves) + 1 /\ saves'[Len(saves) + 1] = made
      /\ \A i \in 1..Len(saves) : saves'[i] = saves[i]
      /\ saves' \in Seq(Nat \ {NoKey}) /\ Len(saves) \in Nat
  BY <1>1 DEF NoKey
<1>3. KeyTypeOK' BY <1>1, <1>2 DEF KeyTypeOK, NewPair
<1>4. SavedInOrder' BY <1>1, <1>2 DEF SavedInOrder, KeyTypeOK
<1>5. FileHasNewest'
  BY <1>1, <1>2 DEF FileHasNewest, NewPair, Newest
<1>6. Saved \subseteq Saved'
  <2>1. DOMAIN saves = 1..Len(saves) /\ DOMAIN saves' = 1..Len(saves') BY <1>1, <1>2
  <2> QED BY <1>2, <2>1 DEF Saved
<1>7. UNCHANGED <<enrolled, staged, reply, replaced>> BY DEF Replace, Elsewhere, registerVars
<1> QED BY <1>3, <1>4, <1>5, <1>6, <1>7 DEF ServerHasSaved

LEMMA KeysNext == ASSUME KeysInv, [Next]_keysVars PROVE KeysInv'
<1> USE DEF KeysInv
<1> SUFFICES ASSUME KeyDir, KeyTypeOK, SavedInOrder, FileHasNewest, ServerHasSaved
             PROVE  (KeyTypeOK /\ SavedInOrder /\ FileHasNewest /\ ServerHasSaved)'
  OBVIOUS
<1>1. CASE Charger
  <2>1. CASE Replace BY <2>1, ReplaceKeeps
  <2>2. CASE ~Replace
    <3>1. MakeKey \/ WriteTemp \/ SaveFails \/ Install \/ Crash \/ Restart
          \/ \E n \in Checks : Sign(n)
      BY <1>1, <2>2 DEF Charger
    <3> QED BY <3>1, SameFile, AnswerIsSaved
  <2> QED BY <2>1, <2>2
<1>2. CASE AskForKey \/ ChallengeKey \/ GiveUp \/ BootCheck \/ PutBack \/ Time
           \/ \E n \in Checks : EndCheck(n)
  <2>1. /\ {enrolled', staged', reply', replaced'} \subseteq
             {enrolled, staged, reply, replaced, NoKey}
        /\ UNCHANGED chargerVars
    BY <1>2, ServerSteps
  <2>2. Saved' = Saved BY <2>1 DEF chargerVars, Saved
  <2>3. (KeyTypeOK /\ SavedInOrder /\ FileHasNewest)'
    BY <2>1 DEF chargerVars, KeyTypeOK, SavedInOrder, FileHasNewest, Newest, NewPair
  <2> QED BY <2>1, <2>2, <2>3 DEF ServerHasSaved
<1>3. CASE UNCHANGED keysVars
  <2>1. UNCHANGED chargerVars /\ UNCHANGED <<enrolled, staged, reply, replaced>>
    BY <1>3 DEF keysVars, exchangeVars, registerVars
  <2>2. Saved' = Saved BY <2>1 DEF chargerVars, Saved
  <2>3. (KeyTypeOK /\ SavedInOrder /\ FileHasNewest)'
    BY <2>1 DEF chargerVars, KeyTypeOK, SavedInOrder, FileHasNewest, Newest, NewPair
  <2> QED BY <2>1, <2>2, <2>3 DEF ServerHasSaved
<1> QED BY <1>1, <1>2, <1>3 DEF Next

-----------------------------------------------------------------------------
(* What the invariant says of a key the server has.                        *)

LEMMA TwoNewer ==
  ASSUME KeyTypeOK, SavedInOrder, NEW i \in 1..(Len(saves) - 2)
  PROVE  SavedAfter(saves[i]) >= 2
<1> DEFINE later == {j \in DOMAIN saves : saves[j] > saves[i]}
           last  == {Len(saves) - 1, Len(saves)}
<1>1. Len(saves) \in Nat /\ DOMAIN saves = 1..Len(saves) /\ Len(saves) > 2
  BY DEF KeyTypeOK
<1>2. last \subseteq later
  <2>1. \A j \in 1..Len(saves) : i < j => saves[i] < saves[j] BY <1>1 DEF SavedInOrder
  <2>2. \A j \in 1..Len(saves) : saves[j] \in Int BY DEF KeyTypeOK
  <2>3. \A j \in 1..Len(saves) : i < j => saves[j] > saves[i] BY <2>1, <2>2
  <2>4. PICK n \in Nat : n = Len(saves) /\ i \in 1..(n - 2) BY <1>1
  <2>5. n - 1 \in 1..n /\ n \in 1..n /\ i < n - 1 /\ i < n BY <2>4
  <2>6. saves[n - 1] > saves[i] /\ saves[n] > saves[i] BY <2>3, <2>4, <2>5, Zenon
  <2>7. last = {n - 1, n} BY <2>4
  <2> QED BY <1>1, <2>4, <2>5, <2>6, <2>7
<1>3. IsFiniteSet(later)
  <2>1. IsFiniteSet(1..Len(saves)) BY <1>1, FS_Interval
  <2> QED BY <1>1, <2>1, FS_Subset
<1>4. Cardinality(last) = 2
  <2>1. IsFiniteSet({Len(saves)}) /\ Cardinality({Len(saves)}) = 1 BY FS_Singleton
  <2>2. \A m \in Nat : m - 1 # m OBVIOUS
  <2>3. Len(saves) - 1 \notin {Len(saves)} BY <1>1, <2>2
  <2>4. last = {Len(saves)} \cup {Len(saves) - 1} OBVIOUS
  <2>5. Cardinality(last) = Cardinality({Len(saves)}) + 1 BY <2>1, <2>3, <2>4, FS_AddElement
  <2> QED BY <2>1, <2>5
<1>5. Cardinality(last) <= Cardinality(later) BY <1>2, <1>3, FS_Subset
<1>6. Cardinality(later) \in Nat BY <1>3, FS_CardinalityType
<1> QED BY <1>4, <1>5, <1>6 DEF SavedAfter

LEMMA KeysImplied == KeysInv => KeysOutliveCrash
<1> SUFFICES ASSUME KeyTypeOK, SavedInOrder, FileHasNewest, ServerHasSaved,
                    NEW k \in {enrolled, staged, reply, replaced} \ {NoKey}
             PROVE  k \in {file.current, file.previous} \/ SavedAfter(k) >= 2
  BY DEF KeysInv, KeysOutliveCrash, FileHasNewest
<1>1. PICK i \in DOMAIN saves : saves[i] = k BY DEF ServerHasSaved, Saved
<1>2. Len(saves) \in Nat /\ i \in 1..Len(saves) BY <1>1 DEF KeyTypeOK
<1>3. CASE i = Len(saves) BY <1>1, <1>2, <1>3 DEF FileHasNewest, Newest
<1>4. CASE i = Len(saves) - 1 BY <1>1, <1>2, <1>4 DEF FileHasNewest, Newest
<1>5. CASE i < Len(saves) - 1
  <2>1. i \in 1..(Len(saves) - 2) BY <1>2, <1>5
  <2> QED BY <1>1, <2>1, TwoNewer
<1> QED BY <1>2, <1>3, <1>4, <1>5

\* Whatever is killed, lost or given up on, in any order: a key the server has is
\* in the charger's file or two newer ones were saved since, and a charger signs
\* with what it would sign with after a kill (agent/pq_identity.py enrol,
\* agent/pq_keystore.py save).
THEOREM CrashKeepsKeys == Spec => []KeysOutliveCrash
<1>1. Spec => []KeysInv
  BY KeysInit, KeysNext, PTL DEF Spec
<1> QED BY <1>1, KeysImplied, PTL

-----------------------------------------------------------------------------
(* Answers: the inductive invariant.                                       *)

\* The keys a challenge may still have to be verified against.
Present == {enrolled, staged, replaced} \cup (IF run.step = "asking" THEN {reply} ELSE {})

OpenStates == {"sent", "answered", "lost"}

ServerTypeOK ==
  /\ {enrolled, staged, reply, replaced} \subseteq Nat /\ made \in Nat
  /\ now \in Nat /\ issued \in 0..MaxChecks /\ pending \subseteq 1..issued
  /\ issuedAt \in [Checks -> Nat]
  /\ check \in [Checks -> [state : {"none", "over"} \cup OpenStates, key : Nat, signed : Nat]]

\* A key still being made is newer than any the server has seen.
SeenBefore(k) == k <= made /\ (enrolling # "no" => k < made)

KeysSeen ==
  /\ \A k \in {enrolled, staged, reply, replaced} : SeenBefore(k)
  /\ \A n \in Checks : SeenBefore(check[n].key)
  /\ enrolling # "no" => made > 0

\* A run has no wave to put back, and a rotation has a key to begin with.
RunInv ==
  /\ run.step \in {"none", "asking", "checking"}
  /\ run.kind = "none" => run.step = "none"
  /\ run.kind # "none" => replaced = NoKey
  /\ run.kind = "rotation" => enrolled # NoKey

ChecksInv ==
  \A n \in Checks :
    /\ n > issued => check[n].state = "none"
    /\ check[n].state # "none" => check[n].key # NoKey
    /\ check[n].signed \in {NoKey, check[n].key}

\* The nonce of an open check is outstanding, or too old, or pushed out by Cap
\* younger ones, or was issued for a key the server has let go of for good.
NoncesInv ==
  \A n \in Checks :
    check[n].state \in OpenStates =>
      n \in pending \/ Expired(n) \/ issued - n >= Cap \/ check[n].key \notin Present

AnswersInv == ServerTypeOK /\ KeysSeen /\ RunInv /\ ChecksInv /\ NoncesInv /\ AnswersCount

LEMMA AnswersInit == Init => AnswersInv
<1> SUFFICES ASSUME Init PROVE AnswersInv OBVIOUS
<1> USE RegisterAssumption DEF RegisterAssumption, Init, RegisterInit, NoKey, NoRun, NoCheck, Checks
<1>1. ServerTypeOK BY DEF ServerTypeOK, OpenStates
<1>2. KeysSeen BY DEF KeysSeen, SeenBefore
<1>3. RunInv BY DEF RunInv
<1>4. ChecksInv BY DEF ChecksInv
<1>5. NoncesInv /\ AnswersCount BY DEF NoncesInv, OpenStates, AnswersCount
<1> QED BY <1>1, <1>2, <1>3, <1>4, <1>5 DEF AnswersInv

-----------------------------------------------------------------------------
(* The steps of the charger.                                               *)

\* It makes one key at a time and answers with that one.
LEMMA ChargerSees ==
  ASSUME AnswersInv, Charger
  PROVE  (ServerTypeOK /\ KeysSeen /\ RunInv /\ AnswersCount)'
<1> USE DEF AnswersInv, ServerTypeOK, KeysSeen, SeenBefore, RunInv, AnswersCount
<1>1. CASE MakeKey BY <1>1 DEF MakeKey, Elsewhere, registerVars
<1>2. CASE WriteTemp BY <1>2 DEF WriteTemp, Elsewhere, registerVars
<1>3. CASE SaveFails BY <1>3 DEF SaveFails, Elsewhere, registerVars
<1>4. CASE Replace BY <1>4 DEF Replace, Elsewhere, registerVars
<1>5. CASE Install BY <1>5 DEF Install, Elsewhere, registerVars
<1>6. CASE Restart BY <1>6 DEF Restart, Elsewhere, registerVars
<1>7. CASE Crash BY <1>7 DEF Crash, registerVars, OpenStates, Checks
<1>8. CASE \E n \in Checks : Sign(n)
  <2>1. PICK n \in Checks : Sign(n) BY <1>8
  <2>2. /\ UNCHANGED <<enrolled, staged, pending, issuedAt, now, issued>>
        /\ UNCHANGED <<run, reply, replaced, made, enrolling, honoured, verified>>
    BY <2>1 DEF Sign, registerVars, chargerVars
  <2>3. PICK k \in Nat :
          check' = [check EXCEPT ![n].state = "answered", ![n].signed = k]
    <3>1. check[n].key \in Nat /\ NoKey \in Nat BY DEF NoKey
    <3> QED BY <2>1, <3>1 DEF Sign
  <2>4. /\ check' \in [Checks -> [state : {"none", "over"} \cup OpenStates, key : Nat, signed : Nat]]
        /\ \A m \in Checks : check'[m].key = check[m].key
    BY <2>3 DEF OpenStates
  <2>5. ServerTypeOK' BY <2>2, <2>4
  <2>6. KeysSeen' BY <2>2, <2>4
  <2>7. RunInv' /\ AnswersCount' BY <2>2
  <2> QED BY <2>5, <2>6, <2>7
<1> QED BY <1>1, <1>2, <1>3, <1>4, <1>5, <1>6, <1>7, <1>8 DEF Charger

\* It closes no check and opens none, and its new key is none of theirs.
LEMMA ChargerAnswers ==
  ASSUME AnswersInv, Charger
  PROVE  (ChecksInv /\ NoncesInv)'
<1> USE DEF AnswersInv
<1>1. UNCHANGED <<registerVars, run, replaced>>
  BY DEF Charger, MakeKey, WriteTemp, SaveFails, Replace, Install, Restart, Crash, Sign, Elsewhere
<1>2. reply' = reply \/ \A n \in Checks : check[n].key # reply'
  <2>1. CASE reply' = reply BY <2>1
  <2>2. CASE enrolling # "no" /\ reply' = made
    BY <2>2 DEF KeysSeen, SeenBefore, ServerTypeOK
  <2>3. reply' = reply \/ Install
    BY DEF Charger, MakeKey, WriteTemp, SaveFails, Replace, Restart, Crash, Sign
  <2>4. Install => enrolling # "no" /\ reply' \in {reply, made} BY DEF Install
  <2> QED BY <2>1, <2>2, <2>3, <2>4
<1>3. \A n \in Checks :
        /\ check'[n].key = check[n].key
        /\ check'[n].signed \in {NoKey, check[n].signed, check[n].key}
        /\ \/ check'[n].state = check[n].state
           \/ {check[n].state, check'[n].state} \subseteq OpenStates
  <2>1. CASE Crash BY <2>1 DEF Crash, ServerTypeOK, OpenStates
  <2>2. CASE \E n \in Checks : Sign(n)
    BY <2>2 DEF Sign, ServerTypeOK, OpenStates
  <2>3. CASE check' = check BY <2>3
  <2> QED
    BY <2>1, <2>2, <2>3 DEF Charger, MakeKey, WriteTemp, SaveFails, Replace, Install, Restart, Elsewhere
<1>4. ChecksInv' BY <1>1, <1>3 DEF ChecksInv, registerVars, OpenStates
<1>5. NoncesInv'
  <2> SUFFICES ASSUME NEW n \in Checks, check'[n].state \in OpenStates,
                      n \notin pending', ~Expired(n)', ~(issued' - n >= Cap)
               PROVE  check'[n].key \notin Present'
    BY DEF NoncesInv
  <2>1. check[n].state \in OpenStates BY <1>3 DEF OpenStates
  <2>2. check[n].key \notin Present BY <1>1, <2>1 DEF NoncesInv, registerVars, Expired
  <2> QED BY <1>1, <1>2, <1>3, <2>2 DEF Present, registerVars
<1> QED BY <1>4, <1>5

-----------------------------------------------------------------------------
(* The steps of the server.                                                *)

\* A nonce that makes room for a new one is too old or was pushed out.
LEMMA PushedOut ==
  ASSUME ServerTypeOK, NEW n \in pending, n \notin Kept, ~Expired(n)
  PROVE  issued - n >= Cap - 1
<1> DEFINE fresh == {m \in pending : ~Expired(m)}
           younger == {m \in fresh : m > n}
<1>1. issued \in Int /\ n \in Int /\ pending \subseteq 1..issued BY DEF ServerTypeOK
<1>2. ~(Cardinality(younger) < Cap - 1) BY DEF Kept
<1>3. younger \subseteq (n + 1)..issued
  <2>1. SUFFICES ASSUME NEW m \in younger PROVE m \in (n + 1)..issued OBVIOUS
  <2>2. m \in 1..issued /\ m > n BY <1>1
  <2> QED BY <1>1, <2>2
<1>4. /\ IsFiniteSet((n + 1)..issued)
      /\ Cardinality((n + 1)..issued) = IF n + 1 > issued THEN 0 ELSE issued - (n + 1) + 1
  <2>1. n + 1 \in Int BY <1>1
  <2> QED BY <1>1, <2>1, FS_Interval
<1>5. Cardinality(younger) <= Cardinality((n + 1)..issued) /\ IsFiniteSet(younger)
  BY <1>3, <1>4, FS_Subset
<1>6. Cardinality(younger) \in Nat BY <1>5, FS_CardinalityType
<1>7. n <= issued BY <1>1
<1> QED BY RegisterAssumption, <1>1, <1>2, <1>4, <1>5, <1>6, <1>7 DEF RegisterAssumption

\* A new challenge leaves the others as they were, but for those it pushes out.
LEMMA ChallengeKeeps ==
  ASSUME AnswersInv, NEW key \in Present, key # NoKey, SendChallenge(key),
         now' = now, Present' \subseteq Present \cup {NoKey}
  PROVE  /\ (ChecksInv /\ NoncesInv)'
         /\ issued' \in 0..MaxChecks /\ pending' \subseteq 1..issued'
         /\ issuedAt' \in [Checks -> Nat]
         /\ check' \in [Checks -> [state : {"none", "over"} \cup OpenStates, key : Nat, signed : Nat]]
         /\ \A n \in Checks : check'[n].key \in {check[n].key, key}
<1> USE DEF AnswersInv
<1>1. key \in Nat /\ issued \in 0..MaxChecks /\ issued < MaxChecks /\ MaxChecks \in Nat
  BY RegisterAssumption
  DEF RegisterAssumption, Present, ServerTypeOK, SendChallenge, IssueChallenge
<1>2. issued + 1 \in Checks /\ issued' = issued + 1 /\ issued' \in 0..MaxChecks
  BY <1>1 DEF SendChallenge, IssueChallenge, Checks
<1>3. PICK state \in {"sent", "lost"} :
        check' = [check EXCEPT ![issued + 1] = [state |-> state, key |-> key, signed |-> NoKey]]
  BY DEF SendChallenge
<1>4. /\ check' \in [Checks -> [state : {"none", "over"} \cup OpenStates, key : Nat, signed : Nat]]
      /\ check'[issued + 1] = [state |-> state, key |-> key, signed |-> NoKey]
      /\ \A n \in Checks \ {issued + 1} : check'[n] = check[n]
  BY <1>1, <1>2, <1>3 DEF ServerTypeOK, OpenStates, NoKey
<1>5. /\ issuedAt' \in [Checks -> Nat]
      /\ \A n \in Checks \ {issued + 1} : issuedAt'[n] = issuedAt[n]
  BY <1>2 DEF SendChallenge, IssueChallenge, ServerTypeOK
<1>6. pending' = Kept \cup {issued + 1} BY DEF SendChallenge, IssueChallenge
<1>7. pending' \subseteq 1..issued'
  <2>1. SUFFICES ASSUME NEW n \in pending' PROVE n \in 1..(issued + 1) BY <1>2
  <2>2. n \in 1..issued \/ n = issued + 1 BY <1>6 DEF Kept, ServerTypeOK
  <2> QED BY <1>1, <2>2
<1>8. ChecksInv'
  <2>1. SUFFICES ASSUME NEW n \in Checks
                 PROVE  /\ n > issued + 1 => check'[n].state = "none"
                        /\ check'[n].state # "none" => check'[n].key # NoKey
                        /\ check'[n].signed \in {NoKey, check'[n].key}
    BY <1>2 DEF ChecksInv
  <2>2. CASE n = issued + 1 BY <1>1, <1>4, <2>2
  <2>3. CASE n # issued + 1 
    <3>1. n \in Int /\ issued \in Int BY <1>1 DEF Checks
    <3>2. n > issued + 1 => n > issued BY <3>1
    <3> QED BY <1>4, <2>3, <3>2 DEF ChecksInv
  <2> QED BY <2>2, <2>3
<1>9. NoncesInv'
  <2> SUFFICES ASSUME NEW n \in Checks, check'[n].state \in OpenStates,
                      n \notin pending', ~Expired(n)', ~(issued' - n >= Cap)
               PROVE  check'[n].key \notin Present'
    BY DEF NoncesInv
  <2>1. n # issued + 1 BY <1>6
  <2>2. check'[n] = check[n] /\ ~Expired(n) BY <1>4, <1>5, <2>1 DEF Expired
  <2>3. n \in Int /\ Cap \in Int BY RegisterAssumption DEF RegisterAssumption, Checks
  <2>4. n \notin pending
    <3>1. SUFFICES ASSUME n \in pending PROVE FALSE OBVIOUS
    <3>2. issued - n >= Cap - 1 BY <1>6, <2>2, <3>1, PushedOut
    <3> QED BY <1>1, <1>2, <2>3, <3>2
  <2>5. ~(issued - n >= Cap) BY <1>1, <1>2, <2>3
  <2>6. check[n].key \notin Present BY <2>2, <2>4, <2>5 DEF NoncesInv
  <2>7. check[n].key # NoKey BY <2>2 DEF ChecksInv, OpenStates
  <2> QED BY <2>2, <2>6, <2>7
<1> QED BY <1>2, <1>4, <1>5, <1>7, <1>8, <1>9

\* A run asks, challenges, gives up or is rolled back; a boot check starts; time passes.
LEMMA RunSteps ==
  ASSUME AnswersInv, AskForKey \/ ChallengeKey \/ GiveUp \/ BootCheck \/ PutBack \/ Time
  PROVE  AnswersInv'
<1> USE DEF AnswersInv
<1>1. CASE AskForKey
  <2>1. /\ UNCHANGED <<registerVars, made, enrolling, check, honoured, verified>>
        /\ run = NoRun /\ replaced' = NoKey /\ reply' = NoKey
        /\ run' = [kind |-> IF enrolled = NoKey THEN "migration" ELSE "rotation",
                   step |-> "asking", check |-> 0]
    BY <1>1 DEF AskForKey, chargerVars
  <2>2. (ServerTypeOK /\ RunInv /\ AnswersCount)'
    BY <2>1 DEF registerVars, ServerTypeOK, RunInv, AnswersCount, NoKey
  <2>3. KeysSeen' BY <2>1 DEF registerVars, KeysSeen, SeenBefore, ServerTypeOK, NoKey
  <2>4. ChecksInv' BY <2>1 DEF registerVars, ChecksInv
  <2>5. Present' \subseteq Present \cup {NoKey} BY <2>1 DEF registerVars, Present
  <2>6. NoncesInv'
    BY <2>1, <2>5 DEF registerVars, NoncesInv, ChecksInv, Expired, OpenStates
  <2> QED BY <2>2, <2>3, <2>4, <2>6
<1>2. CASE ChallengeKey
  <2>1. /\ UNCHANGED <<made, enrolling, now, replaced, reply, honoured, verified>>
        /\ run.step = "asking" /\ reply # NoKey /\ SendChallenge(reply)
        /\ run' = [run EXCEPT !.step = "checking", !.check = issued + 1]
        /\ enrolled' \in {enrolled, reply} /\ staged' \in {staged, reply}
        /\ run.kind = "rotation" => enrolled' = enrolled
    BY <1>2 DEF ChallengeKey, StageKey, chargerVars
  <2>2. reply \in Present /\ Present' \subseteq Present BY <2>1 DEF Present
  <2>3. /\ (ChecksInv /\ NoncesInv)'
        /\ issued' \in 0..MaxChecks /\ pending' \subseteq 1..issued'
        /\ issuedAt' \in [Checks -> Nat]
        /\ check' \in [Checks -> [state : {"none", "over"} \cup OpenStates, key : Nat, signed : Nat]]
        /\ \A n \in Checks : check'[n].key \in {check[n].key, reply}
    BY <2>1, <2>2, ChallengeKeeps
  <2>4. (ServerTypeOK /\ AnswersCount)' BY <2>1, <2>3 DEF ServerTypeOK, AnswersCount
  <2>5. RunInv' BY <2>1 DEF RunInv
  <2>6. KeysSeen' BY <2>1, <2>3 DEF KeysSeen, SeenBefore
  <2> QED BY <2>3, <2>4, <2>5, <2>6
<1>3. CASE GiveUp
  <2>1. /\ UNCHANGED <<made, enrolling, issuedAt, now, issued, replaced, reply, check, honoured,
                       verified>>
        /\ run.step = "asking" /\ reply = NoKey /\ run' = NoRun /\ Undone
    BY <1>3 DEF GiveUp, chargerVars
  <2>2. /\ enrolled' \in {enrolled, NoKey} /\ staged' = NoKey /\ pending' \in {pending, {}}
        /\ pending' # pending => enrolled' = NoKey /\ run.kind = "migration"
    BY <2>1 DEF Undone, Unenrol, DiscardStaged
  <2>3. (ServerTypeOK /\ RunInv /\ AnswersCount)'
    BY <2>1, <2>2 DEF ServerTypeOK, RunInv, AnswersCount, NoKey, NoRun
  <2>4. KeysSeen' BY <2>1, <2>2 DEF KeysSeen, SeenBefore, ServerTypeOK, NoKey
  <2>5. ChecksInv' BY <2>1 DEF ChecksInv
  <2>6. Present' \subseteq Present \cup {NoKey} BY <2>1, <2>2 DEF Present, NoRun
  <2>7. pending' # pending => Present' \subseteq {NoKey}
    BY <2>1, <2>2 DEF RunInv, Present, NoRun
  <2>8. NoncesInv'
    BY <2>1, <2>6, <2>7 DEF NoncesInv, ChecksInv, Expired, OpenStates
  <2> QED BY <2>3, <2>4, <2>5, <2>8
<1>4. CASE BootCheck
  <2>1. /\ UNCHANGED <<made, enrolling, enrolled, staged, now, run, replaced, reply, honoured,
                       verified>>
        /\ enrolled # NoKey /\ SendChallenge(enrolled)
    BY <1>4 DEF BootCheck, chargerVars
  <2>2. enrolled \in Present /\ Present' = Present BY <2>1 DEF Present
  <2>3. /\ (ChecksInv /\ NoncesInv)'
        /\ issued' \in 0..MaxChecks /\ pending' \subseteq 1..issued'
        /\ issuedAt' \in [Checks -> Nat]
        /\ check' \in [Checks -> [state : {"none", "over"} \cup OpenStates, key : Nat, signed : Nat]]
        /\ \A n \in Checks : check'[n].key \in {check[n].key, enrolled}
    BY <2>1, <2>2, ChallengeKeeps
  <2>4. (ServerTypeOK /\ RunInv /\ AnswersCount)'
    BY <2>1, <2>3 DEF ServerTypeOK, RunInv, AnswersCount
  <2>5. KeysSeen' BY <2>1, <2>3 DEF KeysSeen, SeenBefore
  <2> QED BY <2>3, <2>4, <2>5
<1>5. CASE PutBack
  <2>1. /\ UNCHANGED <<made, enrolling, staged, pending, issuedAt, now, issued, run, reply, check,
                       honoured, verified>>
        /\ replaced # NoKey /\ enrolled' = replaced /\ replaced' = NoKey
    BY <1>5 DEF PutBack, Enrol, chargerVars
  <2>2. (ServerTypeOK /\ RunInv /\ AnswersCount)'
    BY <2>1 DEF ServerTypeOK, RunInv, AnswersCount, NoKey
  <2>3. KeysSeen' BY <2>1 DEF KeysSeen, SeenBefore, ServerTypeOK, NoKey
  <2>4. ChecksInv' BY <2>1 DEF ChecksInv
  <2>5. Present' \subseteq Present \cup {NoKey} BY <2>1 DEF Present
  <2>6. NoncesInv' BY <2>1, <2>5 DEF NoncesInv, ChecksInv, Expired, OpenStates
  <2> QED BY <2>2, <2>3, <2>4, <2>6
<1>6. CASE Time
  <2>1. /\ UNCHANGED <<made, enrolling, enrolled, staged, pending, issuedAt, issued, run, replaced,
                       reply, check, honoured, verified>>
        /\ now' = now + 1
    BY <1>6 DEF Time, Tick, chargerVars, exchangeVars
  <2>2. (ServerTypeOK /\ RunInv /\ AnswersCount /\ KeysSeen /\ ChecksInv)'
    BY <2>1 DEF ServerTypeOK, RunInv, AnswersCount, KeysSeen, SeenBefore, ChecksInv
  <2>3. \A n \in Checks : Expired(n) => Expired(n)'
    BY <2>1, RegisterAssumption DEF Expired, ServerTypeOK, RegisterAssumption
  <2>4. NoncesInv' BY <2>1, <2>3 DEF NoncesInv, Present
  <2> QED BY <2>2, <2>4
<1> QED BY <1>1, <1>2, <1>3, <1>4, <1>5, <1>6

\* A due answer finds its nonce.
LEMMA DueVerifies ==
  ASSUME AnswersInv, NEW n \in Checks, check[n].state \in OpenStates, Due(n)
  PROVE  Verifies(n, check[n].signed, KeyFor(n))
<1> USE DEF AnswersInv
<1>1. /\ check[n].signed # NoKey /\ check[n].signed = KeyFor(n)
      /\ now - issuedAt[n] <= Ttl /\ issued - n < Cap
  BY DEF Due, Signed
<1>2. check[n].key = KeyFor(n) BY <1>1 DEF ChecksInv
<1>3. KeyFor(n) \in Present /\ enrolled # NoKey
  BY <1>1 DEF KeyFor, Present, RunInv
<1>4. now - issuedAt[n] \in Int /\ Ttl \in Int /\ issued - n \in Int /\ Cap \in Int
  BY RegisterAssumption DEF RegisterAssumption, ServerTypeOK, Checks
<1>5. ~Expired(n) /\ ~(issued - n >= Cap) BY <1>1, <1>4 DEF Expired
<1>6. n \in pending BY <1>2, <1>3, <1>5 DEF NoncesInv
<1> QED BY <1>1, <1>3, <1>5, <1>6 DEF Verifies

\* The end of a check: its own nonce is gone, or the key of a failed migration
\* with all nonces.
LEMMA EndSteps ==
  ASSUME AnswersInv, NEW n \in Checks, EndCheck(n)
  PROVE  AnswersInv'
<1> USE DEF AnswersInv
<1> DEFINE good == Signed(n) /\ Verifies(n, check[n].signed, KeyFor(n))
<1>1. /\ UNCHANGED <<made, enrolling, issuedAt, now, issued, reply>>
      /\ check[n].state \in {"answered", "lost"}
      /\ check' = [check EXCEPT ![n].state = "over"]
      /\ verified' = IF good THEN verified \cup {n} ELSE verified
      /\ honoured' = IF Due(n) THEN honoured \cup {n} ELSE honoured
      /\ run' = IF Mine(n) THEN NoRun ELSE run
      /\ replaced' = IF Mine(n) /\ run.kind = "rotation" /\ good THEN enrolled ELSE replaced
  BY DEF EndCheck, chargerVars
<1>2. /\ enrolled' \in {enrolled, staged, NoKey} /\ staged' \in {staged, NoKey}
      /\ enrolled' # enrolled => Mine(n)
      /\ pending' \subseteq pending
      /\ \/ pending \ {n} \subseteq pending'
         \/ Mine(n) /\ run.kind = "migration" /\ enrolled' = NoKey /\ staged' = NoKey
  BY DEF EndCheck, Unenrol, Consumed, CommitStaged, DiscardStaged
<1>3. /\ \A m \in Checks : check'[m].key = check[m].key /\ check'[m].signed = check[m].signed
      /\ \A m \in Checks : m # n => check'[m] = check[m]
      /\ check'[n].state = "over" /\ check[n].state \in OpenStates
  BY <1>1 DEF ServerTypeOK, OpenStates
<1>4. ServerTypeOK'
  <2>1. check' \in [Checks -> [state : {"none", "over"} \cup OpenStates, key : Nat, signed : Nat]]
    BY <1>1 DEF ServerTypeOK, OpenStates
  <2> QED BY <1>1, <1>2, <2>1 DEF ServerTypeOK, NoKey
<1>5. KeysSeen' BY <1>1, <1>2, <1>3 DEF KeysSeen, SeenBefore, ServerTypeOK, NoKey
<1>6. RunInv'
  BY <1>1, <1>2 DEF RunInv, NoRun, Mine
<1>7. ChecksInv' BY <1>1, <1>3 DEF ChecksInv, OpenStates
<1>8. Present' \subseteq Present \cup {NoKey}
  BY <1>1, <1>2 DEF Present, NoRun, Mine
<1>9. NoncesInv'
  <2> SUFFICES ASSUME NEW m \in Checks, check'[m].state \in OpenStates
               PROVE  (m \in pending \/ Expired(m) \/ issued - m >= Cap \/ check[m].key \notin Present)'
    BY DEF NoncesInv
  <2>1. m # n /\ check'[m] = check[m] BY <1>3 DEF OpenStates
  <2>2. check[m].key # NoKey BY <2>1 DEF ChecksInv, OpenStates
  <2>3. CASE pending \ {n} \subseteq pending'
    <3>1. m \in pending \/ Expired(m) \/ issued - m >= Cap \/ check[m].key \notin Present
      BY <2>1 DEF NoncesInv
    <3> QED BY <1>1, <1>8, <2>1, <2>2, <2>3, <3>1 DEF Expired
  <2>4. CASE Mine(n) /\ run.kind = "migration" /\ enrolled' = NoKey /\ staged' = NoKey
    <3>1. Present' \subseteq {NoKey} BY <1>1, <2>4 DEF Present, RunInv, NoRun
    <3> QED BY <2>1, <2>2, <3>1
  <2> QED BY <1>2, <2>3, <2>4
<1>10. AnswersCount'
  <2>1. Due(n) => good BY <1>3, DueVerifies DEF Due
  <2> QED BY <1>1, <2>1 DEF AnswersCount
<1> QED BY <1>4, <1>5, <1>6, <1>7, <1>9, <1>10

LEMMA AnswersNext == ASSUME AnswersInv, [Next]_keysVars PROVE AnswersInv'
<1>1. CASE Charger BY <1>1, ChargerSees, ChargerAnswers DEF AnswersInv
<1>2. CASE AskForKey \/ ChallengeKey \/ GiveUp \/ BootCheck \/ PutBack \/ Time BY <1>2, RunSteps
<1>3. CASE \E n \in Checks : EndCheck(n) BY <1>3, EndSteps
<1>4. CASE UNCHANGED keysVars
  BY <1>4 DEF keysVars, registerVars, chargerVars, exchangeVars, AnswersInv, ServerTypeOK, KeysSeen,
     SeenBefore, RunInv, ChecksInv, NoncesInv, AnswersCount, Present, Expired
<1> QED BY <1>1, <1>2, <1>3, <1>4 DEF Next

\* Overlapping checks, rollbacks, lost answers and kills take no due answer its
\* nonce: it is accepted (crypto/pq_auth.py issue_challenge, verify_response).
THEOREM DueAnswersAccepted == Spec => []AnswersCount
<1>1. AnswersInv => AnswersCount BY DEF AnswersInv
<1> QED BY <1>1, AnswersInit, AnswersNext, PTL DEF Spec
=============================================================================
