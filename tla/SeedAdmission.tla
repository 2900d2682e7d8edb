--------------------------- MODULE SeedAdmission ---------------------------
(***************************************************************************)
(* The seeds of a run: the leader's draw loop in RequestMpcStep.InitStep   *)
(* (storeman/storemanmpc/step/mpc_reqmpc_step.go) and the follower's       *)
(* admission loop in ackGPKMpc (storeman/storemanmpc/mpc_create_gpk.go;    *)
(* acknowledgeCreateLockAccountMpc has the same loop, then needs the      *)
(* account type among the preset values).  The follower may                *)
(* receive the list a conforming leader drew, or any list another peer     *)
(* put in a request message: the admission check exists for the latter.   *)
(***************************************************************************)
EXTENDS Integers, FiniteSets, Functions

CONSTANTS
    NP,             \* number of peers in the run
    IntnSample,     \* results of rand.Intn(0x0FFFFFE) the model draws
    WireValues      \* seeds a request message from another peer may carry

ASSUME /\ NP \in Nat \ {0}
       /\ IntnSample \subseteq 0 .. 16777213
       /\ WireValues \subseteq Nat

MaxSeedCheck == 16777215    \* 0xffffff: item.Seed > 0xffffff is refused
SeedRange    == 1 .. 16777214   \* [1, 0xFFFFFE], spec 4.3
Unset        == -1
Peers        == 1 .. NP

VARIABLES
    draw,       \* (*req.peers)[i].Seed as the leader's loop writes it
    di,         \* the leader loop's index i
    findMap,    \* the leader loop's findMap (seeds already taken)
    list,       \* the peer list the follower received
    source,     \* "none" before it arrived, "leader" if it is the list
                \* the conforming leader drew, "other" otherwise
    ai,         \* the follower loop's position in the list
    found,      \* the follower loop's findMap
    verdict,    \* "pending", "admitted", "outRange", "duplicate" or "quit"
    req         \* the entry point the request reached and its preset values

vars == <<draw, di, findMap, list, source, ai, found, verdict, req>>

\* The abstract assignment this loop implements.
Drawn == IF di > NP THEN draw ELSE [i \in Peers |-> Unset]
Abstract == INSTANCE SeedAssignment WITH SeedValues <- SeedRange, seeds <- Drawn

(* The preset values a request carries (MpcValue: Key, Value, ByteValue; *)
(* value and bytes say whether Value and ByteValue are non-nil), and the  *)
(* entry point the request reaches: ackGPKMpc or                           *)
(* acknowledgeCreateLockAccountMpc.                                        *)
Keys        == {"MpcStmAccType", "MpcGrpId"}
MpcValue    == [key : Keys, value : BOOLEAN, bytes : BOOLEAN]
Presets     == {<< >>} \cup [1 .. 1 -> MpcValue] \cup [1 .. 2 -> MpcValue]
Entries     == {"gpk", "lockAccount"}
NoRequest   == [entry |-> "none", preset |-> << >>]

\* BaseMpcResult.InitializeValue then SetByteValue: the keys that end up
\* in byteResult.  An entry whose Value is non-nil goes to Result only.
ByteKeys(preset) ==
    {preset[i].key : i \in {j \in DOMAIN preset : ~preset[j].value /\ preset[j].bytes}}

\* BaseMpcResult.GetByteValue succeeds (otherwise it returns ErrQuit).
GetByteValueOK(preset, k) == k \in ByteKeys(preset)

\* The context builder after the admission loop: genCreateGPKMpc cannot
\* fail; generateCreateLockAccountMpc returns GetByteValue's error when
\* MpcStmAccType is missing.
ContextCreated(r) ==
    \/ r.entry = "gpk"
    \/ r.entry = "lockAccount" /\ GetByteValueOK(r.preset, "MpcStmAccType")

Init ==
    /\ draw = [i \in Peers |-> Unset]
    /\ di = 1
    /\ findMap = {}
    /\ list = [i \in Peers |-> Unset]
    /\ source = "none"
    /\ ai = 1
    /\ found = {}
    /\ verdict = "pending"
    /\ req = NoRequest

\* Mutant of SeedOf: the +1 offset is missing.
SeedOfNoOffset(x) == x

\* rand.Intn(0x0FFFFFE) + 1.
SeedOf(x) == x + 1

\* Mutant of DrawSeed: a colliding seed is kept.
DrawSeedNoRetry ==
    /\ di <= NP
    /\ \E x \in IntnSample :
          /\ draw' = [draw EXCEPT ![di] = SeedOf(x)]
          /\ findMap' = findMap \cup {SeedOf(x)}
          /\ di' = di + 1
    /\ UNCHANGED <<list, source, ai, found, verdict, req>>

\* One iteration of the inner for-loop: the drawn seed is written into the
\* peer list; if it is already taken the loop continues with the same peer.
DrawSeed ==
    /\ di <= NP
    /\ \E x \in IntnSample :
          /\ draw' = [draw EXCEPT ![di] = SeedOf(x)]
          /\ IF SeedOf(x) \in findMap
                THEN UNCHANGED <<findMap, di>>
                ELSE /\ findMap' = findMap \cup {SeedOf(x)}
                     /\ di' = di + 1
    /\ UNCHANGED <<list, source, ai, found, verdict, req>>

\* The follower receives the request of the conforming leader ...
\* RequestMpcStep draws the list only for MpcGPKLeader, so a drawn list
\* always comes with the gpk entry (the lock-account leader sends no list).
ReceiveDrawn ==
    /\ di > NP /\ source = "none"
    /\ list' = draw
    /\ source' = "leader"
    /\ \E p \in Presets : req' = [entry |-> "gpk", preset |-> p]
    /\ UNCHANGED <<draw, di, findMap, ai, found, verdict>>

\* ... or a request whose peer list another peer composed.
ReceiveOther ==
    /\ source = "none"
    /\ \E l \in [Peers -> WireValues] : list' = l
    /\ source' = "other"
    /\ req' \in [entry : Entries, preset : Presets]
    /\ UNCHANGED <<draw, di, findMap, ai, found, verdict>>

\* Mutant of OutOfRange: the bound is off by one.
OutOfRangeOffByOne(s) == s >= 16777214

\* if item.Seed > 0xffffff
OutOfRange(s) == s > MaxSeedCheck

\* Mutant of AdmitItem: the seed is not recorded in findMap.
AdmitItemNoInsert ==
    /\ source /= "none" /\ verdict = "pending" /\ ai <= NP
    /\ LET s == list[ai] IN
       \/ OutOfRange(s) /\ verdict' = "outRange" /\ UNCHANGED <<ai, found>>
       \/ ~OutOfRange(s) /\ s \in found
          /\ verdict' = "duplicate" /\ UNCHANGED <<ai, found>>
       \/ ~OutOfRange(s) /\ s \notin found
          /\ ai' = ai + 1
          /\ UNCHANGED <<verdict, found>>
    /\ UNCHANGED <<draw, di, findMap, list, source, req>>

\* One iteration of ackGPKMpc's for-loop over the peer list.
AdmitItem ==
    /\ source /= "none" /\ verdict = "pending" /\ ai <= NP
    /\ LET s == list[ai] IN
       \/ OutOfRange(s) /\ verdict' = "outRange" /\ UNCHANGED <<ai, found>>
       \/ ~OutOfRange(s) /\ s \in found
          /\ verdict' = "duplicate" /\ UNCHANGED <<ai, found>>
       \/ ~OutOfRange(s) /\ s \notin found
          /\ found' = found \cup {s}
          /\ ai' = ai + 1
          /\ UNCHANGED verdict
    /\ UNCHANGED <<draw, di, findMap, list, source, req>>

\* The loop ran through: the result store is initialised from the preset
\* values and the context built, or the builder returns ErrQuit.
AdmitDone ==
    /\ source /= "none" /\ verdict = "pending" /\ ai > NP
    /\ verdict' = IF ContextCreated(req) THEN "admitted" ELSE "quit"
    /\ UNCHANGED <<draw, di, findMap, list, source, ai, found, req>>

Next == DrawSeed \/ ReceiveDrawn \/ ReceiveOther \/ AdmitItem \/ AdmitDone

Spec == Init /\ [][Next]_vars

-----------------------------------------------------------------------------
(* Properties                                                              *)

TypeOK ==
    /\ DOMAIN draw = Peers /\ \A i \in Peers : draw[i] = Unset \/ draw[i] \in SeedRange
    /\ di \in 1 .. NP + 1
    /\ list \in [Peers -> Nat \cup {Unset}]
    /\ source \in {"none", "leader", "other"}
    /\ \A s \in findMap : s \in SeedRange
    /\ ai \in 1 .. NP + 1
    /\ verdict \in {"pending", "admitted", "outRange", "duplicate", "quit"}
    /\ req \in {NoRequest} \cup [entry : Entries, preset : Presets]

\* The leader's draw loop implements the abstract assignment: once it ends,
\* every peer holds a distinct seed in [1, 0xFFFFFE], published at once.
DrawRefinesAssignment == Abstract!Spec

\* A peer list the conforming leader drew is never refused by a follower:
\* the follower's range check admits everything the leader's draw yields.
ConformingListAdmitted ==
    source = "leader" /\ verdict /= "pending" => verdict = "admitted"

\* A follower never admits a run in which two peers share a seed.
AdmittedSeedsDistinct ==
    verdict = "admitted" => IsInjective(list)

\* A follower admits a run only if every seed lies in [1, 0xFFFFFE], the
\* range spec 4.3 and the Glossary give a seed (non-zero: evaluating a
\* share polynomial at 0 yields its secret).
AdmittedSeedsInRange ==
    verdict = "admitted" => \A i \in Peers : list[i] \in SeedRange

=============================================================================
