----------------------------- MODULE StoreProofs -----------------------------
(***************************************************************************)
(* Theorems about FingerprintStore, for every set of groups and prints.    *)
(***************************************************************************)
EXTENDS FingerprintStore, TLAPS

(* Without a group TrustZone holds nothing, and a temporary file is noted   *)
(* by a thread that is about to rename it; an empty database is on its way. *)
ThreadsOK ==
  /\ db_path = None => tz = {}
  /\ \A t \in Threads : temp_path[t] # None => at[t] = "rename"
  /\ creating => at["binder"] \in {"store", "rename", "reload"}
  /\ at["binder"] = "reload" => creating

Unmixed == "mixed" \notin mishaps

(* The group changes while the worker is idle, so a thread renames into the *)
(* directory it has stored in.                                              *)
OneGroup == Unmixed =>
  /\ at["binder"] = "load" \/ creating => at["worker"] = "idle"
  /\ \A t \in Threads : at[t] = "rename" => temp_path[t] = db_path

OwnedBy(d, g) == d \notin {None, Torn} => \A p \in d : owner[p] = g

PrintsOwned == Unmixed =>
  /\ at["binder"] # "load" => \A p \in tz : owner[p] = db_path
  /\ \A g \in Groups : OwnedBy(file[g], g) /\ OwnedBy(tmp[g], g)

Pending  == \E t \in Threads : at[t] \in {"store", "forget"}
Renaming == \E t \in Threads : at[t] = "rename"

(* Unless a thread will store anew, what TrustZone holds is in the temporary*)
(* file that is renamed next, or else in the database.                      *)
SaveUnderWay ==
  Unmixed /\ ~unsaved /\ at["binder"] # "load" /\ db_path # None /\ ~Pending =>
    IF Renaming /\ tmp[db_path] # None THEN tmp[db_path] = tz ELSE file[db_path] = tz

(* A temporary file may stay cut short, but none that is about to be renamed.*)
WholeFiles == "stores" \notin mishaps =>
  /\ \A g \in Groups : file[g] # Torn
  /\ \A t \in Threads : at[t] = "rename" => tmp[temp_path[t]] # Torn

(* An id that is not that of the prints is about to be reset, and the one   *)
(* TrustZone has given is that of the prints.                               *)
IdFollows == mishaps \cap OfTheId = {} =>
  /\ \/ auth_id = None \/ auth_id = tz \/ at["worker"] = "forget"
     \/ at["binder"] \in {"forget", "forgetOnly"}
  /\ at["binder"] = "cache" => answer = tz

(* The inductive invariant.                                                 *)
StoreInv == /\ StoreTypeOK /\ ThreadsOK /\ OneGroup /\ PrintsOwned
            /\ SaveUnderWay /\ WholeFiles /\ IdFollows
---------------------------------------------------------------------------
(* Forgetting the id leaves the history of everything else alone.           *)
LEMMA ResetKeeps ==
  ASSUME Reset
  PROVE  /\ auth_id' = None /\ mishaps' \subseteq mishaps
         /\ "mixed" \in mishaps' <=> "mixed" \in mishaps
         /\ "stores" \in mishaps' <=> "stores" \in mishaps
         /\ at["binder"] = "cache" => mishaps' = mishaps
BY DEF Reset, OfTheId

(* Every step keeps the types.                                              *)
LEMMA Types ==
  ASSUME StoreTypeOK, ThreadsOK, [StoreNext]_storeVars
  PROVE  StoreTypeOK'
<1> USE NoneAssumption, TornAssumption
      DEF StoreTypeOK, ThreadsOK, Threads, Databases, Files, Mishaps
<1>1. ASSUME NEW t \in Threads, Store(t) PROVE StoreTypeOK'
  <2>1. db_path \in Groups /\ at[t] = "store" /\ Other(t) \in Threads
    BY <1>1 DEF Store, Other
  <2>2. mishaps' \subseteq Mishaps
    BY <1>1 DEF Store
  <2>3. CASE /\ tmp' = [tmp EXCEPT ![db_path] = tz]
             /\ temp_path' = [temp_path EXCEPT ![t] = db_path]
             /\ Goto(t, "rename")
    BY <1>1, <2>1, <2>2, <2>3 DEF Store, Goto
  <2>4. CASE /\ UNCHANGED tmp \/ tmp' = [tmp EXCEPT ![db_path] = Torn]
             /\ Goto(t, AfterStore(t)) /\ unsaved' = TRUE
             /\ UNCHANGED temp_path
    <3>1. AfterStore(t) \in {"reload", "idle"}
      BY DEF AfterStore
    <3>2. QED
      BY <1>1, <2>1, <2>2, <2>4, <3>1 DEF Store, Goto
  <2>5. QED
    BY <1>1, <2>3, <2>4 DEF Store, MayTear
<1>2. ASSUME NEW t \in Threads, Rename(t) PROVE StoreTypeOK'
  BY <1>2 DEF Rename, Goto, AfterStore, Other
<1>3. ASSUME NEW g \in Groups, SetActiveGroup(g) PROVE StoreTypeOK'
  BY <1>3 DEF SetActiveGroup, Goto, Busy
<1>4. CASE Load
  <2>1. db_path \in Groups /\ at["binder"] = "load" /\ file[db_path] \in Files
    BY <1>4 DEF Load
  <2>2. mishaps' \subseteq Mishaps
    BY <1>4 DEF Load, Holds, LoadFails
  <2>3. CASE file[db_path] = None /\ Holds({}) /\ Goto("binder", "store") /\ creating' = TRUE
    BY <1>4, <2>1, <2>2, <2>3 DEF Load, Holds, Goto
  <2>4. CASE /\ file[db_path] \notin {None, Torn} /\ Holds(file[db_path])
             /\ Goto("binder", "idle") /\ UNCHANGED creating
    BY <1>4, <2>1, <2>2, <2>4 DEF Load, Holds, Goto
  <2>5. CASE LoadFails /\ UNCHANGED creating
    BY <1>4, <2>1, <2>2, <2>5 DEF Load, LoadFails, Goto
  <2>6. QED
    BY <1>4, <2>3, <2>4, <2>5 DEF Load
<1>5. CASE Reload
  BY <1>5 DEF Reload, Goto, Holds, LoadFails
<1>6. CASE Forget
  <2>1. Reset
    BY <1>6 DEF Forget
  <2>2. QED
    BY <1>6, <2>1, ResetKeeps DEF Forget, Goto
<1>7. CASE AskId
  BY <1>7 DEF AskId, Goto
<1>8. CASE CacheId
  BY <1>8 DEF CacheId, Goto
<1>9. ASSUME NEW p \in Prints, remove(p) PROVE StoreTypeOK'
  BY <1>9 DEF remove, Goto
<1>10. ASSUME NEW p \in Prints, EnrollEnd(p) PROVE StoreTypeOK'
  BY <1>10 DEF EnrollEnd, Goto
<1>11. CASE StartOperation
  BY <1>11 DEF StartOperation, Goto
<1>12. CASE ForgetId
  <2>1. Reset
    BY <1>12 DEF ForgetId
  <2>2. QED
    BY <1>12, <2>1, ResetKeeps DEF ForgetId, Goto
<1>13. CASE OperationEnds
  BY <1>13 DEF OperationEnds, Goto
<1>14. CASE Crash
  <2>1. /\ mishaps' \subseteq mishaps
        /\ "mixed" \in mishaps' <=> "mixed" \in mishaps
        /\ "stores" \in mishaps' <=> "stores" \in mishaps
    BY <1>14 DEF Crash, OfTheId
  <2>2. tmp' \in [Groups -> Files]
    BY <1>14 DEF Crash, MayTear
  <2>3. QED
    BY <1>14, <2>1, <2>2 DEF Crash
<1>15. CASE UNCHANGED storeVars
  BY <1>15 DEF storeVars, threadVars
<1>16. QED
  BY <1>1, <1>2, <1>3, <1>4, <1>5, <1>6, <1>7, <1>8, <1>9, <1>10, <1>11, <1>12, <1>13,
     <1>14, <1>15 DEF StoreNext

(* Every step keeps what a thread's place says of its temporary file.       *)
LEMMA ThreadsKept ==
  ASSUME StoreTypeOK, ThreadsOK, [StoreNext]_storeVars
  PROVE  ThreadsOK'
<1> USE NoneAssumption, TornAssumption
      DEF ThreadsOK, StoreTypeOK, Threads, Databases, Files
<1>1. ASSUME NEW t \in Threads, Store(t) PROVE ThreadsOK'
  BY <1>1 DEF Store, MayTear, Goto, AfterStore, Other
<1>2. ASSUME NEW t \in Threads, Rename(t) PROVE ThreadsOK'
  BY <1>2 DEF Rename, Goto, AfterStore, Other
<1>3. ASSUME NEW g \in Groups, SetActiveGroup(g) PROVE ThreadsOK'
  BY <1>3 DEF SetActiveGroup, Goto, Busy
<1>4. CASE Load
  BY <1>4 DEF Load, Goto, Holds, LoadFails
<1>5. CASE Reload
  BY <1>5 DEF Reload, Goto, Holds, LoadFails
<1>6. CASE Forget
  <2>1. Reset
    BY <1>6 DEF Forget
  <2>2. QED
    BY <1>6, <2>1, ResetKeeps DEF Forget, Goto
<1>7. CASE AskId
  BY <1>7 DEF AskId, Goto
<1>8. CASE CacheId
  BY <1>8 DEF CacheId, Goto
<1>9. ASSUME NEW p \in Prints, remove(p) PROVE ThreadsOK'
  BY <1>9 DEF remove, Goto
<1>10. ASSUME NEW p \in Prints, EnrollEnd(p) PROVE ThreadsOK'
  BY <1>10 DEF EnrollEnd, Goto
<1>11. CASE StartOperation
  BY <1>11 DEF StartOperation, Goto
<1>12. CASE ForgetId
  <2>1. Reset
    BY <1>12 DEF ForgetId
  <2>2. QED
    BY <1>12, <2>1, ResetKeeps DEF ForgetId, Goto
<1>13. CASE OperationEnds
  BY <1>13 DEF OperationEnds, Goto
<1>14. CASE Crash
  <2>1. /\ mishaps' \subseteq mishaps
        /\ "mixed" \in mishaps' <=> "mixed" \in mishaps
        /\ "stores" \in mishaps' <=> "stores" \in mishaps
    BY <1>14 DEF Crash, OfTheId
  <2>2. QED
    BY <1>14, <2>1 DEF Crash, MayTear
<1>15. CASE UNCHANGED storeVars
  BY <1>15 DEF storeVars, threadVars
<1>16. QED
  BY <1>1, <1>2, <1>3, <1>4, <1>5, <1>6, <1>7, <1>8, <1>9, <1>10, <1>11, <1>12, <1>13,
     <1>14, <1>15 DEF StoreNext

(* No step but one that is noted as "mixed" changes the group under a thread.*)
LEMMA GroupKept ==
  ASSUME StoreTypeOK, ThreadsOK, OneGroup, [StoreNext]_storeVars
  PROVE  OneGroup'
<1> USE NoneAssumption, TornAssumption
      DEF OneGroup, Unmixed, ThreadsOK, StoreTypeOK, Threads, Databases, Files
<1>1. ASSUME NEW t \in Threads, Store(t) PROVE OneGroup'
  BY <1>1 DEF Store, MayTear, Goto, AfterStore, Other
<1>2. ASSUME NEW t \in Threads, Rename(t) PROVE OneGroup'
  BY <1>2 DEF Rename, Goto, AfterStore, Other
<1>3. ASSUME NEW g \in Groups, SetActiveGroup(g) PROVE OneGroup'
  BY <1>3 DEF SetActiveGroup, Goto, Busy
<1>4. CASE Load
  BY <1>4 DEF Load, Goto, Holds, LoadFails
<1>5. CASE Reload
  BY <1>5 DEF Reload, Goto, Holds, LoadFails
<1>6. CASE Forget
  <2>1. Reset
    BY <1>6 DEF Forget
  <2>2. QED
    BY <1>6, <2>1, ResetKeeps DEF Forget, Goto
<1>7. CASE AskId
  BY <1>7 DEF AskId, Goto
<1>8. CASE CacheId
  BY <1>8 DEF CacheId, Goto
<1>9. ASSUME NEW p \in Prints, remove(p) PROVE OneGroup'
  BY <1>9 DEF remove, Goto
<1>10. ASSUME NEW p \in Prints, EnrollEnd(p) PROVE OneGroup'
  BY <1>10 DEF EnrollEnd, Goto
<1>11. CASE StartOperation
  BY <1>11 DEF StartOperation, Goto
<1>12. CASE ForgetId
  <2>1. Reset
    BY <1>12 DEF ForgetId
  <2>2. QED
    BY <1>12, <2>1, ResetKeeps DEF ForgetId, Goto
<1>13. CASE OperationEnds
  BY <1>13 DEF OperationEnds, Goto
<1>14. CASE Crash
  <2>1. /\ mishaps' \subseteq mishaps
        /\ "mixed" \in mishaps' <=> "mixed" \in mishaps
        /\ "stores" \in mishaps' <=> "stores" \in mishaps
    BY <1>14 DEF Crash, OfTheId
  <2>2. QED
    BY <1>14, <2>1 DEF Crash, MayTear
<1>15. CASE UNCHANGED storeVars
  BY <1>15 DEF storeVars, threadVars
<1>16. QED
  BY <1>1, <1>2, <1>3, <1>4, <1>5, <1>6, <1>7, <1>8, <1>9, <1>10, <1>11, <1>12, <1>13,
     <1>14, <1>15 DEF StoreNext

(* No step puts a print where it is not its owner's.                        *)
LEMMA OwnersKept ==
  ASSUME StoreTypeOK, ThreadsOK, OneGroup, PrintsOwned, [StoreNext]_storeVars
  PROVE  PrintsOwned'
<1> USE NoneAssumption, TornAssumption
      DEF PrintsOwned, OwnedBy, OneGroup, Unmixed, ThreadsOK, StoreTypeOK, Threads,
          Databases, Files
<1>1. ASSUME NEW t \in Threads, Store(t) PROVE PrintsOwned'
  BY <1>1 DEF Store, MayTear, Goto, AfterStore, Other
<1>2. ASSUME NEW t \in Threads, Rename(t) PROVE PrintsOwned'
  BY <1>2 DEF Rename, Goto, AfterStore, Other
<1>3. ASSUME NEW g \in Groups, SetActiveGroup(g) PROVE PrintsOwned'
  BY <1>3 DEF SetActiveGroup, Goto, Busy
<1>4. CASE Load
  BY <1>4 DEF Load, Goto, Holds, LoadFails
<1>5. CASE Reload
  BY <1>5 DEF Reload, Goto, Holds, LoadFails
<1>6. CASE Forget
  <2>1. Reset
    BY <1>6 DEF Forget
  <2>2. QED
    BY <1>6, <2>1, ResetKeeps DEF Forget, Goto
<1>7. CASE AskId
  BY <1>7 DEF AskId, Goto
<1>8. CASE CacheId
  BY <1>8 DEF CacheId, Goto
<1>9. ASSUME NEW p \in Prints, remove(p) PROVE PrintsOwned'
  BY <1>9 DEF remove, Goto
<1>10. ASSUME NEW p \in Prints, EnrollEnd(p) PROVE PrintsOwned'
  BY <1>10 DEF EnrollEnd, Goto
<1>11. CASE StartOperation
  BY <1>11 DEF StartOperation, Goto
<1>12. CASE ForgetId
  <2>1. Reset
    BY <1>12 DEF ForgetId
  <2>2. QED
    BY <1>12, <2>1, ResetKeeps DEF ForgetId, Goto
<1>13. CASE OperationEnds
  BY <1>13 DEF OperationEnds, Goto
<1>14. CASE Crash
  <2>1. /\ mishaps' \subseteq mishaps
        /\ "mixed" \in mishaps' <=> "mixed" \in mishaps
        /\ "stores" \in mishaps' <=> "stores" \in mishaps
    BY <1>14 DEF Crash, OfTheId
  <2>2. QED
    BY <1>14, <2>1 DEF Crash, MayTear
<1>15. CASE UNCHANGED storeVars
  BY <1>15 DEF storeVars, threadVars
<1>16. QED
  BY <1>1, <1>2, <1>3, <1>4, <1>5, <1>6, <1>7, <1>8, <1>9, <1>10, <1>11, <1>12, <1>13,
     <1>14, <1>15 DEF StoreNext

(* Every step that changes what TrustZone holds leaves a store pending.     *)
LEMMA SavesKept ==
  ASSUME StoreTypeOK, ThreadsOK, OneGroup, SaveUnderWay, [StoreNext]_storeVars
  PROVE  SaveUnderWay'
<1> USE NoneAssumption, TornAssumption
      DEF SaveUnderWay, Pending, Renaming, OneGroup, Unmixed, ThreadsOK,
          StoreTypeOK, Threads, Databases, Files
<1>1. ASSUME NEW t \in Threads, Store(t) PROVE SaveUnderWay'
  BY <1>1 DEF Store, MayTear, Goto, AfterStore, Other
<1>2. ASSUME NEW t \in Threads, Rename(t) PROVE SaveUnderWay'
  BY <1>2 DEF Rename, Goto, AfterStore, Other
<1>3. ASSUME NEW g \in Groups, SetActiveGroup(g) PROVE SaveUnderWay'
  BY <1>3 DEF SetActiveGroup, Goto, Busy
<1>4. CASE Load
  BY <1>4 DEF Load, Goto, Holds, LoadFails
<1>5. CASE Reload
  BY <1>5 DEF Reload, Goto, Holds, LoadFails
<1>6. CASE Forget
  <2>1. Reset
    BY <1>6 DEF Forget
  <2>2. QED
    BY <1>6, <2>1, ResetKeeps DEF Forget, Goto
<1>7. CASE AskId
  BY <1>7 DEF AskId, Goto
<1>8. CASE CacheId
  BY <1>8 DEF CacheId, Goto
<1>9. ASSUME NEW p \in Prints, remove(p) PROVE SaveUnderWay'
  BY <1>9 DEF remove, Goto
<1>10. ASSUME NEW p \in Prints, EnrollEnd(p) PROVE SaveUnderWay'
  BY <1>10 DEF EnrollEnd, Goto
<1>11. CASE StartOperation
  BY <1>11 DEF StartOperation, Goto
<1>12. CASE ForgetId
  <2>1. Reset
    BY <1>12 DEF ForgetId
  <2>2. QED
    BY <1>12, <2>1, ResetKeeps DEF ForgetId, Goto
<1>13. CASE OperationEnds
  BY <1>13 DEF OperationEnds, Goto
<1>14. CASE Crash
  <2>1. /\ mishaps' \subseteq mishaps
        /\ "mixed" \in mishaps' <=> "mixed" \in mishaps
        /\ "stores" \in mishaps' <=> "stores" \in mishaps
    BY <1>14 DEF Crash, OfTheId
  <2>2. QED
    BY <1>14, <2>1 DEF Crash, MayTear
<1>15. CASE UNCHANGED storeVars
  BY <1>15 DEF storeVars, threadVars
<1>16. QED
  BY <1>1, <1>2, <1>3, <1>4, <1>5, <1>6, <1>7, <1>8, <1>9, <1>10, <1>11, <1>12, <1>13,
     <1>14, <1>15 DEF StoreNext

(* A thread that renames has stored, and only the other can spoil its file. *)
LEMMA FilesKept ==
  ASSUME StoreTypeOK, ThreadsOK, WholeFiles, [StoreNext]_storeVars
  PROVE  WholeFiles'
<1> USE NoneAssumption, TornAssumption
      DEF WholeFiles, ThreadsOK, StoreTypeOK, Threads, Databases, Files
<1>1. ASSUME NEW t \in Threads, Store(t) PROVE WholeFiles'
  BY <1>1 DEF Store, MayTear, Goto, AfterStore, Other
<1>2. ASSUME NEW t \in Threads, Rename(t) PROVE WholeFiles'
  BY <1>2 DEF Rename, Goto, AfterStore, Other
<1>3. ASSUME NEW g \in Groups, SetActiveGroup(g) PROVE WholeFiles'
  BY <1>3 DEF SetActiveGroup, Goto, Busy
<1>4. CASE Load
  BY <1>4 DEF Load, Goto, Holds, LoadFails
<1>5. CASE Reload
  BY <1>5 DEF Reload, Goto, Holds, LoadFails
<1>6. CASE Forget
  <2>1. Reset
    BY <1>6 DEF Forget
  <2>2. QED
    BY <1>6, <2>1, ResetKeeps DEF Forget, Goto
<1>7. CASE AskId
  BY <1>7 DEF AskId, Goto
<1>8. CASE CacheId
  BY <1>8 DEF CacheId, Goto
<1>9. ASSUME NEW p \in Prints, remove(p) PROVE WholeFiles'
  BY <1>9 DEF remove, Goto
<1>10. ASSUME NEW p \in Prints, EnrollEnd(p) PROVE WholeFiles'
  BY <1>10 DEF EnrollEnd, Goto
<1>11. CASE StartOperation
  BY <1>11 DEF StartOperation, Goto
<1>12. CASE ForgetId
  <2>1. Reset
    BY <1>12 DEF ForgetId
  <2>2. QED
    BY <1>12, <2>1, ResetKeeps DEF ForgetId, Goto
<1>13. CASE OperationEnds
  BY <1>13 DEF OperationEnds, Goto
<1>14. CASE Crash
  <2>1. /\ mishaps' \subseteq mishaps
        /\ "mixed" \in mishaps' <=> "mixed" \in mishaps
        /\ "stores" \in mishaps' <=> "stores" \in mishaps
    BY <1>14 DEF Crash, OfTheId
  <2>2. QED
    BY <1>14, <2>1 DEF Crash, MayTear
<1>15. CASE UNCHANGED storeVars
  BY <1>15 DEF storeVars, threadVars
<1>16. QED
  BY <1>1, <1>2, <1>3, <1>4, <1>5, <1>6, <1>7, <1>8, <1>9, <1>10, <1>11, <1>12, <1>13,
     <1>14, <1>15 DEF StoreNext

(* Every step that changes the prints leaves a reset of the id pending.     *)
LEMMA IdKept ==
  ASSUME StoreTypeOK, ThreadsOK, IdFollows, [StoreNext]_storeVars
  PROVE  IdFollows'
<1> USE NoneAssumption, TornAssumption
      DEF IdFollows, OfTheId, ThreadsOK, StoreTypeOK, Threads, Databases, Files
<1>1. ASSUME NEW t \in Threads, Store(t) PROVE IdFollows'
  BY <1>1 DEF Store, MayTear, Goto, AfterStore, Other
<1>2. ASSUME NEW t \in Threads, Rename(t) PROVE IdFollows'
  BY <1>2 DEF Rename, Goto, AfterStore, Other
<1>3. ASSUME NEW g \in Groups, SetActiveGroup(g) PROVE IdFollows'
  BY <1>3 DEF SetActiveGroup, Goto, Busy
<1>4. CASE Load
  BY <1>4 DEF Load, Goto, Holds, LoadFails
<1>5. CASE Reload
  BY <1>5 DEF Reload, Goto, Holds, LoadFails
<1>6. CASE Forget
  <2>1. Reset
    BY <1>6 DEF Forget
  <2>2. QED
    BY <1>6, <2>1, ResetKeeps DEF Forget, Goto
<1>7. CASE AskId
  BY <1>7 DEF AskId, Goto
<1>8. CASE CacheId
  BY <1>8 DEF CacheId, Goto
<1>9. ASSUME NEW p \in Prints, remove(p) PROVE IdFollows'
  BY <1>9 DEF remove, Goto
<1>10. ASSUME NEW p \in Prints, EnrollEnd(p) PROVE IdFollows'
  BY <1>10 DEF EnrollEnd, Goto
<1>11. CASE StartOperation
  BY <1>11 DEF StartOperation, Goto
<1>12. CASE ForgetId
  <2>1. Reset
    BY <1>12 DEF ForgetId
  <2>2. QED
    BY <1>12, <2>1, ResetKeeps DEF ForgetId, Goto
<1>13. CASE OperationEnds
  BY <1>13 DEF OperationEnds, Goto
<1>14. CASE Crash
  <2>1. /\ mishaps' \subseteq mishaps
        /\ "mixed" \in mishaps' <=> "mixed" \in mishaps
        /\ "stores" \in mishaps' <=> "stores" \in mishaps
    BY <1>14 DEF Crash, OfTheId
  <2>2. QED
    BY <1>14, <2>1 DEF Crash, MayTear
<1>15. CASE UNCHANGED storeVars
  BY <1>15 DEF storeVars, threadVars
<1>16. QED
  BY <1>1, <1>2, <1>3, <1>4, <1>5, <1>6, <1>7, <1>8, <1>9, <1>10, <1>11, <1>12, <1>13,
     <1>14, <1>15 DEF StoreNext
---------------------------------------------------------------------------
LEMMA StoreInitially == StoreInit => StoreInv
BY NoneAssumption, TornAssumption DEF StoreInit, StoreInv, StoreTypeOK, ThreadsOK, OneGroup,
  PrintsOwned, OwnedBy, SaveUnderWay, Pending, Renaming, WholeFiles, IdFollows, Unmixed,
  Threads, Databases, Files, Mishaps

LEMMA StoreStep == StoreInv /\ [StoreNext]_storeVars => StoreInv'
BY Types, ThreadsKept, GroupKept, OwnersKept, SavesKept, FilesKept, IdKept DEF StoreInv

(* Files, threads, the path and the cached id agree at every step.          *)
THEOREM StoreInvariance == StoreSpec => []StoreInv
BY StoreInitially, StoreStep, PTL DEF StoreSpec

(* Whatever a thread is about to do, it has the path it needs.              *)
THEOREM StoreTypeCorrect == StoreSpec => []StoreTypeOK
<1>1. StoreInv => StoreTypeOK
  BY DEF StoreInv
<1>2. QED
  BY <1>1, StoreInvariance, PTL

(* No user's prints get into another's database while every database could  *)
(* be loaded and the worker had no operation when the group changed.        *)
THEOREM PrintsKeepTheirOwner == StoreSpec => []OwnPrints
<1>1. StoreInv => OwnPrints
  BY DEF StoreInv, OwnPrints, PrintsOwned, OwnedBy, Unmixed
<1>2. QED
  BY <1>1, StoreInvariance, PTL

(* When both threads are done the database holds what TrustZone holds.      *)
THEOREM PrintsAreSaved == StoreSpec => []Saved
<1>1. StoreInv => Saved
  BY DEF StoreInv, Saved, SaveUnderWay, Pending, Renaming, Unmixed, Threads
<1>2. QED
  BY <1>1, StoreInvariance, PTL

(* One thread storing at a time never leaves a torn database.               *)
THEOREM DatabaseIsWhole == StoreSpec => []NeverTorn
<1>1. StoreInv => NeverTorn
  BY DEF StoreInv, NeverTorn, WholeFiles
<1>2. QED
  BY <1>1, StoreInvariance, PTL

(* A cached authenticator id is that of the prints TrustZone holds.         *)
THEOREM IdIsFresh == StoreSpec => []AuthIdFresh
<1>1. StoreInv => AuthIdFresh
  BY DEF StoreInv, AuthIdFresh, IdFollows, Threads
<1>2. QED
  BY <1>1, StoreInvariance, PTL
=============================================================================
