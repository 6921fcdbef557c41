---------------------------- MODULE PolicyStore ----------------------------
(***************************************************************************)
(* The allowlist of the configuration file and the tools that rewrite it:  *)
(* MutatePolicy adds, reconciles or removes one repository                 *)
(* (internal/setup/policy.go), the setup dialogue replaces the whole list  *)
(* (internal/setup/setup.go).  Both read the file, edit the YAML tree and  *)
(* rename a complete temporary file over it; nothing locks the file.       *)
(*                                                                         *)
(* The rest of the configuration travels through the tree unchanged and is *)
(* left out.  Names are compared without case, so a repository stands for  *)
(* all its spellings.  An entry is carried over as a piece of the YAML     *)
(* tree and stands on its own, unless it shares an anchor with another;    *)
(* the order of the entries is left out.                                   *)
(***************************************************************************)
EXTENDS FiniteSets

CONSTANTS
  Repository,
  Owner,   \* Owner[r] is the owner of repository r
  Tool,    \* the processes an operator may start
  Faults   \* "write", "crash", "overlap", "alias": see the actions

ASSUME StoreAssumption ==
  /\ DOMAIN Owner = Repository
  /\ Faults \subseteq {"write", "crash", "overlap", "alias"}

\* An entry: without workflows, with valid ones, public with valid ones, and
\* public without any, which validation refuses.
Policy == {"plain", "trusted", "public", "open"}
None == "none"

\* In a file where an operator made entries share a YAML node: one that holds
\* the anchor, and one with an alias for it.
Shared == IF "alias" \in Faults THEN {"anchor", "alias"} ELSE {}
Document == [Repository -> Policy \cup Shared \cup {None}]

\* The empty list, which is never valid, stands for the absence of a document.
NoFile == [r \in Repository |-> None]

\* A temporary file that is not completely written.
Torn == [r \in Repository |-> "torn"]

Listed(d) == {r \in Repository : d[r] # None}

OneOwner(repositories) == \A r, s \in repositories : Owner[r] = Owner[s]

\* An alias without its anchor is no YAML.
Decodes(d) ==
  (\E r \in Repository : d[r] = "alias") => \E r \in Repository : d[r] = "anchor"

\* config.Parse of the repositories.
Valid(d) ==
  /\ Decodes(d)
  /\ Listed(d) # {}
  /\ OneOwner(Listed(d))
  /\ \A r \in Repository : d[r] # "open"

\* A policy action names one repository, the dialogue the selected ones.
Command ==
  [action : {"add", "reconcile", "remove", "replace"},
   repositories : SUBSET Repository,
   policy : Policy]

PolicyCommand ==
  {c \in Command : /\ c.action # "replace"
                   /\ \E r \in Repository : c.repositories = {r}
                   /\ c.action = "remove" => c.policy = "plain"}

\* parseSelection and commonOwner on what discoverRepositories found.
Selection ==
  {c \in Command : /\ c.action = "replace" /\ c.policy = "plain"
                   /\ c.repositories # {} /\ OneOwner(c.repositories)}

Accepts(c, d) ==
  /\ c.action = "add" => c.repositories \cap Listed(d) = {}
  /\ c.action = "remove" => c.repositories \subseteq Listed(d)

\* A repository selected again keeps its entry, a new one gets a plain entry.
Kept(d, r) == IF d[r] = None THEN "plain" ELSE d[r]

Edited(c, d) ==
  [r \in Repository |->
     IF r \in c.repositories
     THEN CASE c.action = "remove" -> None
            [] c.action = "replace" -> Kept(d, r)
            [] OTHER -> c.policy
     ELSE IF c.action = "replace" THEN None ELSE d[r]]

VARIABLES
  file,     \* what the configuration path holds
  stage,    \* how far each tool is
  command,  \* what it was asked to do
  seen,     \* the document it read last
  draft,    \* the edited tree
  temp      \* its temporary file

vars == <<file, stage, command, seen, draft, temp>>

NoCommand == [action |-> "replace", repositories |-> {}, policy |-> "plain"]
Writing(t) == stage[t] \in {"edited", "created", "written"}

TypeOK ==
  /\ file \in Document
  /\ stage \in [Tool -> {"idle", "dialogue", "edited", "created", "written"}]
  /\ command \in [Tool -> Command]
  /\ seen \in [Tool -> Document]
  /\ draft \in [Tool -> Document]
  /\ temp \in [Tool -> Document \cup {Torn}]

Init ==
  /\ file \in {d \in Document : Valid(d)}
  /\ stage = [t \in Tool |-> "idle"]
  /\ command = [t \in Tool |-> NoCommand]
  /\ seen = [t \in Tool |-> NoFile]
  /\ draft = [t \in Tool |-> NoFile]
  /\ temp = [t \in Tool |-> NoFile]

\* Unless tools overlap, none reads the file to edit it while another is
\* between its own read and its rename.  Dialogues overlap with everything.
MayRead == "overlap" \in Faults \/ \A t \in Tool : ~Writing(t)

Edit(t, c, d) ==
  /\ command' = [command EXCEPT ![t] = c]
  /\ seen' = [seen EXCEPT ![t] = d]
  /\ draft' = [draft EXCEPT ![t] = Edited(c, d)]
  /\ stage' = [stage EXCEPT ![t] = "edited"]
  /\ UNCHANGED <<file, temp>>

MutatePolicyUnchecked(t) ==
  /\ stage[t] = "idle" /\ MayRead /\ Decodes(file)
  /\ \E c \in PolicyCommand : Accepts(c, file) /\ Edit(t, c, file)

\* A refused command returns its error and changes nothing.
MutatePolicy(t) ==
  /\ stage[t] = "idle" /\ MayRead /\ Decodes(file)
  /\ \E c \in PolicyCommand :
       /\ Accepts(c, file)
       /\ Valid(Edited(c, file))
       /\ Edit(t, c, file)

\* The dialogue loads the configuration, shows it and asks.
StartSetup(t) ==
  /\ stage[t] = "idle"
  /\ Valid(file)
  /\ stage' = [stage EXCEPT ![t] = "dialogue"]
  /\ seen' = [seen EXCEPT ![t] = file]
  /\ UNCHANGED <<file, command, draft, temp>>

Done(t) ==
  /\ stage' = [stage EXCEPT ![t] = "idle"]
  /\ command' = [command EXCEPT ![t] = NoCommand]
  /\ seen' = [seen EXCEPT ![t] = NoFile]
  /\ draft' = [draft EXCEPT ![t] = NoFile]
  /\ temp' = [temp EXCEPT ![t] = NoFile]

\* Cancelled, answered "keep", or refused.
EndSetup(t) ==
  /\ stage[t] = "dialogue"
  /\ Done(t)
  /\ UNCHANGED file

ReplaceAllowlistAsLoaded(t) ==
  /\ stage[t] = "dialogue" /\ MayRead
  /\ \E c \in Selection : Edit(t, c, seen[t])

\* replaceAllowlist reads the file again and does not validate the result: an
\* alias selected again may lose its anchor.
ReplaceAllowlist(t) ==
  /\ stage[t] = "dialogue" /\ MayRead /\ Decodes(file)
  /\ \E c \in Selection : Edit(t, c, file)

CreateTemp(t) ==
  /\ stage[t] = "edited"
  /\ temp' = [temp EXCEPT ![t] = Torn]
  /\ stage' = [stage EXCEPT ![t] = "created"]
  /\ UNCHANGED <<file, command, seen, draft>>

\* Encode, sync, chmod and close.
WriteTemp(t) ==
  /\ stage[t] = "created"
  /\ temp' = [temp EXCEPT ![t] = draft[t]]
  /\ stage' = [stage EXCEPT ![t] = "written"]
  /\ UNCHANGED <<file, command, seen, draft>>

RenameEarly(t) ==
  /\ stage[t] \in {"created", "written"}
  /\ file' = temp[t]
  /\ Done(t)

Rename(t) ==
  /\ stage[t] = "written"
  /\ file' = temp[t]
  /\ Done(t)

\* Any step of atomicWriteYAML fails: the temporary file is removed.
WriteFails(t) ==
  /\ "write" \in Faults /\ Writing(t)
  /\ Done(t)
  /\ UNCHANGED file

\* The tool is killed; the temporary file it leaves is never read again.
Crash(t) ==
  /\ "crash" \in Faults /\ stage[t] # "idle"
  /\ Done(t)
  /\ UNCHANGED file

Next ==
  \E t \in Tool :
    \/ MutatePolicy(t) \/ StartSetup(t) \/ EndSetup(t) \/ ReplaceAllowlist(t)
    \/ CreateTemp(t) \/ WriteTemp(t) \/ Rename(t) \/ WriteFails(t) \/ Crash(t)

Spec == Init /\ [][Next]_vars

----------------------------------------------------------------------------

(***************************************************************************)
(* At every moment the path holds one whole and valid configuration,       *)
(* whatever step a tool fails or dies at, although the dialogue writes     *)
(* without validating: the list it edits was valid when it read it again,  *)
(* and the selection is not empty and has one owner.  It needs entries     *)
(* that stand on their own: with "alias" it is false.                      *)
(***************************************************************************)
FileValid == file \in Document /\ Valid(file)

\* What command c promises about the list before it and the list after it.
Fulfilled(c, before, after) ==
  LET same(r) == after[r] = before[r]
      target == c.repositories
  IN CASE c.action = "replace" ->
            /\ Listed(after) = target
            /\ \A r \in target \cap Listed(before) : same(r)
       [] OTHER ->
            /\ \A r \in Repository \ target : same(r)
            /\ c.action = "add" => target \cap Listed(before) = {}
            /\ IF c.action = "remove" THEN target \cap Listed(after) = {}
               ELSE \A r \in target : after[r] = c.policy

(***************************************************************************)
(* The list changes only by one tool's whole command, applied to the list  *)
(* as it is at that moment: a policy action leaves every other repository  *)
(* alone, the dialogue keeps the entries selected again, also those that   *)
(* another tool wrote while the operator was answering.                    *)
(***************************************************************************)
AppliedAtomically ==
  [][file' # file =>
       \E t \in Tool : Writing(t) /\ Fulfilled(command[t], file, file')]_vars

=============================================================================
