-------------------------- MODULE PolicyStoreProofs --------------------------
(***************************************************************************)
(* Proofs about PolicyStore, for any repositories, any owners and any      *)
(* number of tools.                                                        *)
(***************************************************************************)
EXTENDS PolicyStore, TLAPS

(* Entries stand on their own.                                             *)
Independent == "alias" \notin Faults

(* A temporary file that is written is the draft, and the draft is valid.  *)
TempsWhole == \A t \in Tool : stage[t] = "written" => temp[t] = draft[t]
DraftsValid == \A t \in Tool : Writing(t) => Valid(draft[t])

IInv ==
  /\ TypeOK /\ TempsWhole
  /\ Independent => Valid(file) /\ DraftsValid

(* Without overlap one tool is between its read and its rename, and the    *)
(* file is still the document that it read.                                *)
OneWriter == \A t, u \in Tool : Writing(t) /\ Writing(u) => t = u

DraftsCurrent ==
  \A t \in Tool : Writing(t) =>
    /\ draft[t] = Edited(command[t], file)
    /\ Accepts(command[t], file)
    /\ command[t] \in PolicyCommand \cup Selection

Alone == IInv /\ OneWriter /\ DraftsCurrent

-----------------------------------------------------------------------------
(* Documents. *)

(* An edited document is one.                                              *)
LEMMA EditedIsDocument ==
  ASSUME NEW c \in Command, NEW d \in Document
  PROVE  Edited(c, d) \in Document
<1> SUFFICES ASSUME NEW r \in Repository
             PROVE  Edited(c, d)[r] \in Policy \cup Shared \cup {None}
  BY DEF Document, Edited
<1>1. d[r] \in Policy \cup Shared \cup {None} /\ c.policy \in Policy
  BY DEF Document, Command
<1> QED BY <1>1 DEF Edited, Kept, Policy

(* The dialogue need not validate: a list selected from repositories of    *)
(* one owner, edited from a valid one, is valid (setup.go, replaceAllowlist). *)
LEMMA SelectionValid ==
  ASSUME Independent, NEW c \in Selection, NEW d \in Document, Valid(d)
  PROVE  Valid(Edited(c, d))
<1>1. c.action = "replace" /\ c.repositories # {} /\ OneOwner(c.repositories)
      /\ c.repositories \subseteq Repository
  BY DEF Selection, Command
<1>2. \A r \in Repository :
        Edited(c, d)[r] = IF r \in c.repositories THEN Kept(d, r) ELSE None
  BY <1>1 DEF Edited
<1>3. \A r \in Repository : Kept(d, r) # None /\ Kept(d, r) # "open"
  BY DEF Kept, Valid, None
<1>4. Listed(Edited(c, d)) = c.repositories
  BY <1>1, <1>2, <1>3 DEF Listed
<1>5. \A r \in Repository : Edited(c, d)[r] # "open"
  BY <1>2, <1>3 DEF None
<1>6. Edited(c, d) \in Document
  BY EditedIsDocument DEF Selection
<1>7. Decodes(Edited(c, d))
  BY <1>6 DEF Decodes, Document, Shared, Policy, None, Independent
<1> QED BY <1>1, <1>4, <1>5, <1>7 DEF Valid

(* What a command promises of an accepted list is what its edit does.      *)
LEMMA EditFulfills ==
  ASSUME NEW c \in PolicyCommand \cup Selection, NEW d \in Document,
         Accepts(c, d)
  PROVE  Fulfilled(c, d, Edited(c, d))
<1> DEFINE e == Edited(c, d)
<1>1. c.action \in {"add", "reconcile", "remove", "replace"}
      /\ c.repositories \subseteq Repository /\ c.policy \in Policy
  BY DEF PolicyCommand, Selection, Command
<1>2. CASE c.action = "replace"
  <2>1. \A r \in Repository :
          e[r] = IF r \in c.repositories THEN Kept(d, r) ELSE None
    BY <1>2 DEF Edited
  <2>2. \A r \in Repository : Kept(d, r) # None
    BY DEF Kept, None
  <2>3. Listed(e) = c.repositories
    BY <1>1, <2>1, <2>2 DEF Listed
  <2>4. \A r \in c.repositories \cap Listed(d) : e[r] = d[r]
    BY <1>1, <2>1 DEF Listed, Kept
  <2> QED BY <1>2, <2>3, <2>4 DEF Fulfilled
<1>3. CASE c.action # "replace"
  <2>1. \A r \in Repository \ c.repositories : e[r] = d[r]
    BY <1>3 DEF Edited
  <2>2. c.action = "add" => c.repositories \cap Listed(d) = {}
    BY DEF Accepts
  <2>3. c.action = "remove" => c.repositories \cap Listed(e) = {}
    BY <1>1 DEF Edited, Listed
  <2>4. c.action # "remove" => \A r \in c.repositories : e[r] = c.policy
    BY <1>1, <1>3 DEF Edited
  <2> QED BY <1>3, <2>1, <2>2, <2>3, <2>4 DEF Fulfilled
<1> QED BY <1>2, <1>3

-----------------------------------------------------------------------------
(* The file. *)

LEMMA InitIInv == Init => IInv
<1> SUFFICES ASSUME Init PROVE IInv
  OBVIOUS
<1>1. NoCommand \in Command /\ NoFile \in Document
  BY DEF NoCommand, Command, Policy, NoFile, Document
<1>2. file \in Document /\ Valid(file)
  BY DEF Init
<1>3. \A t \in Tool : stage[t] = "idle"
  BY DEF Init
<1>4. TypeOK
  BY <1>1, <1>2 DEF Init, TypeOK
<1> QED BY <1>2, <1>3, <1>4 DEF IInv, TempsWhole, DraftsValid, Writing

(* An accepted command becomes a valid draft, the file is left alone.      *)
LEMMA EditIInv ==
  ASSUME IInv, NEW t \in Tool, NEW c \in Command,
         Independent => Valid(Edited(c, file)), Edit(t, c, file)
  PROVE  IInv'
<1>1. Edited(c, file) \in Document
  BY EditedIsDocument DEF IInv, TypeOK
<1>2. TypeOK'
  BY <1>1 DEF IInv, TypeOK, Edit
<1>3. draft'[t] = Edited(c, file) /\ stage'[t] = "edited" /\ file' = file
  BY DEF IInv, TypeOK, Edit
<1>4. \A u \in Tool \ {t} :
        stage'[u] = stage[u] /\ draft'[u] = draft[u] /\ temp'[u] = temp[u]
  BY DEF IInv, TypeOK, Edit
<1>5. TempsWhole'
  BY <1>3, <1>4 DEF IInv, TempsWhole
<1>6. ASSUME Independent PROVE Valid(file') /\ \A u \in Tool : Writing(u)' => Valid(draft'[u])
  BY <1>3, <1>4, <1>6 DEF IInv, DraftsValid, Writing
<1> QED BY <1>2, <1>5, <1>6 DEF IInv, DraftsValid, Valid, Decodes, Listed

(* A tool that is done leaves what the others have.                        *)
LEMMA DoneIInv ==
  ASSUME IInv, NEW t \in Tool, Done(t), file' \in Document,
         Independent => Valid(file')
  PROVE  IInv'
<1>1. NoCommand \in Command /\ NoFile \in Document
  BY DEF NoCommand, Command, Policy, NoFile, Document
<1>2. TypeOK'
  BY <1>1 DEF IInv, TypeOK, Done
<1>3. stage'[t] = "idle"
  BY DEF IInv, TypeOK, Done
<1>4. \A u \in Tool \ {t} :
        stage'[u] = stage[u] /\ draft'[u] = draft[u] /\ temp'[u] = temp[u]
  BY DEF IInv, TypeOK, Done
<1>5. TempsWhole'
  BY <1>3, <1>4 DEF IInv, TempsWhole
<1>6. ASSUME Independent PROVE \A u \in Tool : Writing(u)' => Valid(draft'[u])
  BY <1>3, <1>4, <1>6 DEF IInv, DraftsValid, Writing
<1> QED BY <1>2, <1>5, <1>6 DEF IInv, DraftsValid, Valid, Decodes, Listed

(* The other steps leave the file and the drafts alone.                    *)
LEMMA StageIInv ==
  ASSUME IInv, NEW t \in Tool,
         StartSetup(t) \/ CreateTemp(t) \/ WriteTemp(t)
  PROVE  IInv'
<1>1. file' = file /\ draft' = draft
  BY DEF StartSetup, CreateTemp, WriteTemp
<1>2. TypeOK'
  <2>1. CASE StartSetup(t)
    BY <2>1 DEF IInv, TypeOK, StartSetup
  <2>2. CASE CreateTemp(t)
    BY <2>2 DEF IInv, TypeOK, CreateTemp
  <2>3. CASE WriteTemp(t)
    BY <2>3 DEF IInv, TypeOK, WriteTemp
  <2> QED BY <2>1, <2>2, <2>3
<1>3. \A u \in Tool : Writing(u)' => Writing(u)
  BY DEF IInv, TypeOK, StartSetup, CreateTemp, WriteTemp, Writing
<1>4. TempsWhole'
  <2> SUFFICES ASSUME NEW u \in Tool, stage'[u] = "written"
               PROVE  temp'[u] = draft'[u]
    BY DEF TempsWhole
  <2>1. CASE u = t
    BY <2>1 DEF IInv, TypeOK, StartSetup, CreateTemp, WriteTemp
  <2>2. CASE u # t
    BY <2>2 DEF IInv, TypeOK, TempsWhole, StartSetup, CreateTemp, WriteTemp
  <2> QED BY <2>1, <2>2
<1>5. ASSUME Independent PROVE Valid(file') /\ \A u \in Tool : Writing(u)' => Valid(draft'[u])
  BY <1>1, <1>3, <1>5 DEF IInv, DraftsValid
<1> QED BY <1>2, <1>4, <1>5 DEF IInv, DraftsValid, Valid, Decodes, Listed

LEMMA StepIInv ==
  ASSUME IInv, [Next]_vars
  PROVE  IInv'
<1>1. CASE UNCHANGED vars
  BY <1>1 DEF vars, IInv, TypeOK, TempsWhole, DraftsValid, Writing, Valid, Decodes, Listed
<1>2. ASSUME NEW t \in Tool, MutatePolicy(t) PROVE IInv'
  BY <1>2, EditIInv DEF MutatePolicy, PolicyCommand
<1>3. ASSUME NEW t \in Tool, ReplaceAllowlist(t) PROVE IInv'
  <2>1. PICK c \in Selection : Edit(t, c, file)
    BY <1>3 DEF ReplaceAllowlist
  <2>2. c \in Command /\ (Independent => Valid(Edited(c, file)))
    BY SelectionValid DEF Selection, IInv, TypeOK
  <2> QED BY <2>1, <2>2, EditIInv
<1>4. ASSUME NEW t \in Tool, StartSetup(t) \/ CreateTemp(t) \/ WriteTemp(t)
      PROVE  IInv'
  BY <1>4, StageIInv
<1>5. ASSUME NEW t \in Tool, EndSetup(t) \/ WriteFails(t) \/ Crash(t)
      PROVE  IInv'
  <2>1. Done(t) /\ file' = file
    BY <1>5 DEF EndSetup, WriteFails, Crash
  <2> QED BY <2>1, DoneIInv DEF IInv, TypeOK
<1>6. ASSUME NEW t \in Tool, Rename(t) PROVE IInv'
  <2>1. Done(t) /\ file' = draft[t] /\ (Independent => Valid(draft[t]))
    BY <1>6 DEF Rename, IInv, TempsWhole, DraftsValid, Writing
  <2>2. draft[t] \in Document
    BY DEF IInv, TypeOK
  <2> QED BY <2>1, <2>2, DoneIInv
<1> QED BY <1>1, <1>2, <1>3, <1>4, <1>5, <1>6 DEF Next

(* Every tool holds what its stage calls for (internal/setup).             *)
THEOREM IInvariance == Spec => []IInv
BY InitIInv, StepIInv, PTL DEF Spec

THEOREM TypeCorrect == Spec => []TypeOK
<1>1. IInv => TypeOK
  BY DEF IInv
<1> QED BY <1>1, IInvariance, PTL

(* As long as entries do not share anchors, whatever step fails, whoever   *)
(* dies and however the tools overlap, the path holds one whole and valid  *)
(* configuration (setup.go:228-292).                                       *)
THEOREM FileAlwaysValid ==
  ASSUME Independent PROVE Spec => []FileValid
<1>1. IInv => FileValid
  BY DEF IInv, TypeOK, FileValid
<1> QED BY <1>1, IInvariance, PTL

-----------------------------------------------------------------------------
(* Tools that do not overlap. *)

LEMMA InitAlone == Init => Alone
<1> SUFFICES ASSUME Init PROVE Alone
  OBVIOUS
<1>1. \A t \in Tool : ~Writing(t)
  BY DEF Init, Writing
<1> QED BY <1>1, InitIInv DEF Alone, OneWriter, DraftsCurrent

(* The tool that edits is the only one that writes.                        *)
LEMMA EditAlone ==
  ASSUME Alone, IInv', NEW t \in Tool, \A u \in Tool : ~Writing(u),
         NEW c \in PolicyCommand \cup Selection, Accepts(c, file),
         Edit(t, c, file)
  PROVE  Alone'
<1>1. \A u \in Tool : Writing(u)' => u = t
  <2> SUFFICES ASSUME NEW u \in Tool, u # t PROVE ~Writing(u)'
    OBVIOUS
  <2>1. stage'[u] = stage[u]
    BY DEF Edit, Alone, IInv, TypeOK
  <2> QED BY <2>1 DEF Writing
<1>2. /\ draft'[t] = Edited(c, file) /\ command'[t] = c /\ file' = file
  BY DEF Edit, Alone, IInv, TypeOK
<1>3. Edited(c, file)' = Edited(c, file) /\ (Accepts(c, file) <=> Accepts(c, file)')
  BY <1>2 DEF Edited, Kept, Accepts, Listed
<1>4. DraftsCurrent'
  <2> SUFFICES ASSUME NEW u \in Tool, Writing(u)'
               PROVE  /\ draft'[u] = Edited(command'[u], file')
                      /\ Accepts(command'[u], file')
                      /\ command'[u] \in PolicyCommand \cup Selection
    BY DEF DraftsCurrent
  <2> QED BY <1>1, <1>2
<1> QED BY <1>1, <1>4 DEF Alone, OneWriter

(* A step that lets nobody begin to write and leaves the file and the      *)
(* drafts of those who go on keeps them alone.                             *)
LEMMA KeptAlone ==
  ASSUME Alone, IInv',
         \A u \in Tool : Writing(u)' =>
           /\ Writing(u) /\ file' = file
           /\ draft'[u] = draft[u] /\ command'[u] = command[u]
  PROVE  Alone'
<1>1. OneWriter'
  BY DEF Alone, OneWriter
<1>2. DraftsCurrent'
  BY DEF Alone, DraftsCurrent
<1> QED BY <1>1, <1>2 DEF Alone

(* After the rename of the only writer nobody writes.                      *)
LEMMA DoneAlone ==
  ASSUME Alone, IInv', NEW t \in Tool, Done(t), Writing(t) \/ file' = file
  PROVE  Alone'
<1> SUFFICES ASSUME NEW u \in Tool, Writing(u)'
             PROVE  /\ Writing(u) /\ file' = file
                    /\ draft'[u] = draft[u] /\ command'[u] = command[u]
  BY KeptAlone
<1>1. u # t
  BY DEF Done, Writing, Alone, IInv, TypeOK
<1>2. /\ stage'[u] = stage[u] /\ draft'[u] = draft[u]
      /\ command'[u] = command[u]
  BY <1>1 DEF Done, Alone, IInv, TypeOK
<1>3. Writing(u)
  BY <1>2 DEF Writing
<1>4. ~Writing(t)
  BY <1>1, <1>3 DEF Alone, OneWriter
<1> QED BY <1>2, <1>3, <1>4

LEMMA StepAlone ==
  ASSUME "overlap" \notin Faults, Alone, [Next]_vars
  PROVE  Alone'
<1>1. IInv'
  BY StepIInv DEF Alone
<1>2. CASE UNCHANGED vars
  BY <1>1, <1>2, KeptAlone DEF vars, Writing
<1>3. ASSUME NEW t \in Tool, MutatePolicy(t) PROVE Alone'
  BY <1>1, <1>3, EditAlone DEF MutatePolicy, MayRead
<1>4. ASSUME NEW t \in Tool, ReplaceAllowlist(t) PROVE Alone'
  <2>1. PICK c \in Selection : Edit(t, c, file)
    BY <1>4 DEF ReplaceAllowlist
  <2>2. Accepts(c, file)
    BY DEF Selection, Accepts
  <2> QED BY <1>1, <1>4, <2>1, <2>2, EditAlone DEF ReplaceAllowlist, MayRead
<1>5. ASSUME NEW t \in Tool, StartSetup(t) \/ CreateTemp(t) \/ WriteTemp(t)
      PROVE  Alone'
  <2>1. file' = file /\ draft' = draft /\ command' = command
    BY <1>5 DEF StartSetup, CreateTemp, WriteTemp
  <2>2. \A u \in Tool : Writing(u)' => Writing(u)
    BY <1>5 DEF Alone, IInv, TypeOK, StartSetup, CreateTemp, WriteTemp, Writing
  <2> QED BY <1>1, <2>1, <2>2, KeptAlone
<1>6. ASSUME NEW t \in Tool, EndSetup(t) \/ WriteFails(t) \/ Crash(t)
      PROVE  Alone'
  BY <1>1, <1>6, DoneAlone DEF EndSetup, WriteFails, Crash
<1>7. ASSUME NEW t \in Tool, Rename(t) PROVE Alone'
  BY <1>1, <1>7, DoneAlone DEF Rename, Writing
<1> QED BY <1>2, <1>3, <1>4, <1>5, <1>6, <1>7 DEF Next

(* As long as the tools do not overlap, the list changes only by a whole   *)
(* command applied to it as it is (policy.go:27-75, setup.go:98-145).      *)
THEOREM CommandsApplied ==
  ASSUME "overlap" \notin Faults PROVE Spec => AppliedAtomically
<1>1. ASSUME Alone, [Next]_vars
      PROVE  [file' # file =>
                \E t \in Tool : Writing(t) /\ Fulfilled(command[t], file, file')]_vars
  <2> SUFFICES ASSUME Next, file' # file
               PROVE  \E t \in Tool : Writing(t) /\ Fulfilled(command[t], file, file')
    BY <1>1
  <2>1. PICK t \in Tool : Rename(t)
    BY DEF Next, MutatePolicy, StartSetup, EndSetup, ReplaceAllowlist, Edit,
           CreateTemp, WriteTemp, WriteFails, Crash
  <2>2. Writing(t) /\ file' = draft[t]
    BY <1>1, <2>1 DEF Rename, Writing, Alone, IInv, TempsWhole
  <2>3. /\ file' = Edited(command[t], file) /\ Accepts(command[t], file)
        /\ command[t] \in PolicyCommand \cup Selection
    BY <1>1, <2>2 DEF Alone, DraftsCurrent
  <2>4. file \in Document
    BY <1>1 DEF Alone, IInv, TypeOK
  <2>5. Fulfilled(command[t], file, file')
    BY <2>3, <2>4, EditFulfills
  <2> QED BY <2>2, <2>5
<1> QED BY <1>1, InitAlone, StepAlone, PTL DEF Spec, AppliedAtomically

=============================================================================
