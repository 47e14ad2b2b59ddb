------------------------------ MODULE Retrainer ------------------------------
(***************************************************************************)
(* FeatureStore of app/ai/feature_store.py, which keeps a list of rows per *)
(* client in Redis, and OnlineRetrainer of app/ai/online_trainer.py, the   *)
(* background task that reads the lists and retrains the isolation forest  *)
(* of app/ai/anomaly_detector.py.                                          *)
(*                                                                         *)
(* A row is stored by three commands, LPUSH, LTRIM and EXPIRE; a cycle     *)
(* reads one list at a time.  The names under which rows are stored are    *)
(* client ids, those the retrainer knows are addresses.                    *)
(***************************************************************************)
EXTENDS Integers, SequencesExt

CONSTANTS
  Names,        \* client ids and addresses
  RowsKept,     \* feature_store_window_size: 200
  MinClients,   \* 5
  MaxClients,   \* 200
  ReadLimit,    \* 20
  MinRows       \* 50

VARIABLES
  rows,      \* the rows in each list
  mortal,    \* the lists that have a TTL
  untrimmed, \* history: pushes to each list since its last LTRIM
  unexpired, \* history: EXPIREs of each list on their way or lost
  known,     \* _known_clients
  trainer,   \* the cycle: its await, clients left to read, rows read
  trained,   \* history: the last cycle that ended retrained the model
  file       \* the model file

storeVars == <<rows, mortal, untrimmed, unexpired>>
trainerVars == <<known, trainer, trained, file>>

RetrainerTypeOK ==
  /\ rows \in [Names -> Nat] /\ untrimmed \in [Names -> Nat] /\ unexpired \in [Names -> Nat]
  /\ mortal \subseteq {n \in Names : rows[n] > 0}
  /\ known \subseteq Names
  /\ trainer \in [at : {"sleep", "read", "ended", "down"}, todo : SUBSET known, got : Nat]
  /\ trained \in BOOLEAN
  /\ file \in {"none", "whole", "torn"}

Sleep == [at |-> "sleep", todo |-> {}, got |-> 0]
Down == [Sleep EXCEPT !.at = "down"]

RetrainerInit ==
  /\ rows = [n \in Names |-> 0] /\ mortal = {}
  /\ untrimmed = [n \in Names |-> 0] /\ unexpired = [n \in Names |-> 0]
  /\ known = {} /\ trainer = Down /\ trained = FALSE /\ file = "none"

(***************************************************************************)
(* append: LPUSH, which keeps a TTL; LTRIM to RowsKept; EXPIRE.            *)
(***************************************************************************)
PushRow(n) ==
  /\ rows' = [rows EXCEPT ![n] = @ + 1]
  /\ untrimmed' = [untrimmed EXCEPT ![n] = @ + 1]
  /\ unexpired' = [unexpired EXCEPT ![n] = @ + 1]
  /\ UNCHANGED mortal

TrimRows(n) ==
  /\ rows' = [rows EXCEPT ![n] = Min({@, RowsKept})]
  /\ untrimmed' = [untrimmed EXCEPT ![n] = 0]
  /\ UNCHANGED <<mortal, unexpired>>

ExpireNewRows(n) ==
  /\ mortal' = IF rows[n] = 1 THEN mortal \cup {n} ELSE mortal
  /\ unexpired' = [unexpired EXCEPT ![n] = 0]
  /\ UNCHANGED <<rows, untrimmed>>

ExpireRows(n) ==
  /\ mortal' = IF rows[n] > 0 THEN mortal \cup {n} ELSE mortal
  /\ unexpired' = [unexpired EXCEPT ![n] = 0]
  /\ UNCHANGED <<rows, untrimmed>>

(***************************************************************************)
(* A day without an append: the list is deleted.                           *)
(***************************************************************************)
RowsExpire(n) ==
  /\ n \in mortal
  /\ rows' = [rows EXCEPT ![n] = 0]
  /\ mortal' = mortal \ {n}
  /\ UNCHANGED <<untrimmed, unexpired>>

TrackClient(n) == known' = known \cup {n} /\ UNCHANGED <<trainer, trained, file>>

(***************************************************************************)
(* The end of a cycle without and with a new model.                        *)
(***************************************************************************)
Skip == trainer' = Sleep /\ trained' = FALSE /\ UNCHANGED <<known, file>>

Fit == trainer' = Sleep /\ trained' = TRUE /\ file' = "whole" /\ UNCHANGED known

(***************************************************************************)
(* _retrain_cycle after the sleep: any MaxClients of the known clients.    *)
(***************************************************************************)
BeginCycle ==
  /\ trainer.at = "sleep"
  /\ IF Cardinality(known) < MinClients
     THEN Skip
     ELSE /\ \E some \in kSubset(Min({MaxClients, Cardinality(known)}), known) :
               trainer' = [at |-> "read", todo |-> some, got |-> 0]
          /\ UNCHANGED <<known, trained, file>>

(***************************************************************************)
(* get_feature_matrix: the LRANGE of one list.                             *)
(***************************************************************************)
RowsRead(n) == Min({ReadLimit, rows[n]})

(***************************************************************************)
(* The LRANGE of the next client, and after the last one the decision.     *)
(***************************************************************************)
TooFewOrJustEnough(got) == got <= MinRows

TooFew(got) == got < MinRows

ReadRows ==
  /\ trainer.at = "read"
  /\ \E n \in trainer.todo :
       LET got == trainer.got + RowsRead(n)
           todo == trainer.todo \ {n}
       IN  IF todo # {}
           THEN /\ trainer' = [at |-> "read", todo |-> todo, got |-> got]
                /\ UNCHANGED <<known, trained, file>>
           ELSE IF TooFew(got) THEN Skip ELSE Fit

(***************************************************************************)
(* joblib.dump, in the step after the last read, rewrites the file in      *)
(* place: cut short by an error or by the end of the process, it leaves a  *)
(* part of a model.                                                        *)
(***************************************************************************)
Dumping ==
  /\ trainer.at = "read"
  /\ \E n \in trainer.todo :
       trainer.todo = {n} /\ ~TooFew(trainer.got + RowsRead(n))

FileAfterFailure == IF Dumping THEN {file, "torn"} ELSE {file}

(***************************************************************************)
(* An LRANGE or the dump raises: nothing catches it, the task is over.     *)
(***************************************************************************)
EndTrainer ==
  /\ trainer.at = "read"
  /\ trainer' = [Sleep EXCEPT !.at = "ended"]
  /\ file' \in FileAfterFailure
  /\ UNCHANGED <<known, trained>>

(***************************************************************************)
(* The process ends; it starts again if the detector can load the file, or *)
(* finds none and writes a baseline.                                       *)
(***************************************************************************)
StopTrainer ==
  /\ trainer' = Down /\ known' = {} /\ trained' = FALSE
  /\ file' \in FileAfterFailure

StartTrainer ==
  /\ trainer.at = "down" /\ file # "torn"
  /\ trainer' = Sleep /\ file' = "whole"
  /\ UNCHANGED <<known, trained>>
-----------------------------------------------------------------------------
(***************************************************************************)
(* The lists stay small and mortal (feature_store.py:28-30): a list is     *)
(* longer than RowsKept only by pushes not trimmed yet, and lives without  *)
(* a TTL only while an EXPIRE is on its way or was lost.                   *)
(***************************************************************************)
RowsAreKeptShort ==
  \A n \in Names :
    /\ rows[n] <= RowsKept + untrimmed[n]
    /\ rows[n] > 0 /\ n \notin mortal => unexpired[n] > 0

(***************************************************************************)
(* The rows a cycle would read: those under the names it knows.            *)
(***************************************************************************)
Readable == MapThenSumSet(LAMBDA n : RowsRead(n), known)

EnoughToLearn ==
  /\ Cardinality(known) \in MinClients .. MaxClients
  /\ Readable >= MinRows

(***************************************************************************)
(* While enough rows are stored under the addresses the retrainer knows,   *)
(* its cycles retrain the model, unless a failed read ended the task       *)
(* (online_trainer.py:21-48).                                              *)
(***************************************************************************)
ModelIsRetrained == []<>(~EnoughToLearn \/ trained \/ trainer.at = "ended")
=============================================================================
