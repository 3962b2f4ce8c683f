------------------------------ MODULE Enrolment -------------------------------
(***************************************************************************)
(* `gua enroll` (__main__.py) and the file cloud.json it leaves for every  *)
(* command that talks to the board (cloud/config.py): several runs of the  *)
(* command, at once or one after another, each killed at any moment.       *)
(*                                                                         *)
(* All of them write through one temporary name, so that a file is known   *)
(* here by its number and a name is what leads to it: a run that has the   *)
(* temporary file open keeps writing to it when another has renamed it.    *)
(***************************************************************************)
EXTENDS Naturals, Sequences, FiniteSets

CONSTANTS
    Runs,    \* runs of the command
    Tokens,  \* enrolment tokens; a configuration is known by its token
    Empty,   \* a file just created, truncated or cut short
    Torn,    \* a shorter text over a longer one
    Nobody

ASSUME EnrolmentAssumption ==
    /\ Empty \notin Tokens /\ Torn \notin Tokens /\ Empty # Torn
    /\ Nobody \notin Runs

VARIABLES
    pc,        \* pc[e]: what e does next
    token,     \* token[e]: its --enrollment-token
    force,     \* force[e]: its --force
    told,      \* told[e]: how it ended
    claimant,  \* the board: claimant[t] took the one-time token t
    files,     \* contents of the files, by number
    private,   \* the files of mode 0600
    config,    \* the file named cloud.json, 0 for none
    temp,      \* the file named .cloud.json.tmp, 0 for none
    fd,        \* fd[e]: the file e writes to
    installed, \* history: configurations that were renamed to cloud.json
    overlap    \* history: two runs have been saving at once

vars == <<pc, token, force, told, claimant, files, private, config, temp, fd,
          installed, overlap>>

run   == <<token, force>>
store == <<files, private, config, temp, fd, installed, overlap>>

Saving == {"open", "write", "chmod", "replace"}

(* load_cloud_config, of every other command.                              *)
Load == IF config = 0 THEN "not found"
        ELSE IF files[config] \in {Empty, Torn} THEN "not valid" ELSE files[config]

EInit ==
    /\ pc = [e \in Runs |-> "new"]
    /\ token \in [Runs -> Tokens]
    /\ force \in [Runs -> BOOLEAN]
    /\ told = [e \in Runs |-> "nothing"]
    /\ claimant = [t \in Tokens |-> Nobody]
    /\ files = <<>> /\ private = {}
    /\ config = 0 /\ temp = 0
    /\ fd = [e \in Runs |-> 0]
    /\ installed = {}
    /\ overlap = FALSE

GoesTo(e, place) == pc' = [pc EXCEPT ![e] = place]
Ends(e, answer)  == GoesTo(e, "done") /\ told' = [told EXCEPT ![e] = answer]

InTheWay(e) == config # 0 /\ ~force[e]

-----------------------------------------------------------------------------
(* The token is not touched when there is a configuration already.         *)
Look(e) ==
    /\ pc[e] = "new"
    /\ IF InTheWay(e) THEN Ends(e, "exists") ELSE GoesTo(e, "claim") /\ UNCHANGED told
    /\ UNCHANGED <<run, claimant, store>>

(* claim_enrollment: the board gives a token's configuration once...       *)
Claim(e) ==
    /\ pc[e] = "claim" /\ claimant[token[e]] = Nobody
    /\ claimant' = [claimant EXCEPT ![token[e]] = e]
    /\ GoesTo(e, "check")
    /\ UNCHANGED <<run, told, store>>

(* ...and the answer may be lost, late, or not what it should be.          *)
ClaimUnanswered(e) ==
    /\ pc[e] = "claim" /\ claimant[token[e]] = Nobody
    /\ claimant' = [claimant EXCEPT ![token[e]] = e]
    /\ \E answer \in {"failed", "traceback"} : Ends(e, answer)
    /\ UNCHANGED <<run, store>>

(* A token the board does not know any more, or no board.                  *)
ClaimRefused(e) ==
    /\ pc[e] = "claim"
    /\ Ends(e, "failed")
    /\ UNCHANGED <<run, claimant, store>>

(* mutant: the look before the claim is relied upon                        *)
CheckNever(e) ==
    /\ pc[e] = "check"
    /\ GoesTo(e, "open")
    /\ overlap' = (overlap \/ \E f \in Runs \ {e} : pc[f] \in Saving)
    /\ UNCHANGED <<run, told, claimant, files, private, config, temp, fd, installed>>

(* mutant: the error is reported like that of the first look               *)
CheckSaysExists(e) ==
    /\ pc[e] = "check"
    /\ IF InTheWay(e)
       THEN Ends(e, "exists") /\ UNCHANGED overlap
       ELSE /\ GoesTo(e, "open")
            /\ overlap' = (overlap \/ \E f \in Runs \ {e} : pc[f] \in Saving)
            /\ UNCHANGED told
    /\ UNCHANGED <<run, claimant, files, private, config, temp, fd, installed>>

(* save_cloud_config: someone else may have enrolled the host since.       *)
Check(e) ==
    /\ pc[e] = "check"
    /\ IF InTheWay(e)
       THEN Ends(e, "token used") /\ UNCHANGED overlap
       ELSE /\ GoesTo(e, "open")
            /\ overlap' = (overlap \/ \E f \in Runs \ {e} : pc[f] \in Saving)
            /\ UNCHANGED told
    /\ UNCHANGED <<run, claimant, files, private, config, temp, fd, installed>>

(* mutant: cloud.json is written in place                                  *)
OpenInPlace(e) ==
    /\ pc[e] = "open"
    /\ files' = IF config = 0 THEN Append(files, Empty) ELSE [files EXCEPT ![config] = Empty]
    /\ config' = IF config = 0 THEN Len(files) + 1 ELSE config
    /\ fd' = [fd EXCEPT ![e] = config']
    /\ GoesTo(e, "write")
    /\ UNCHANGED <<run, told, claimant, private, temp, installed, overlap>>

(* write_text truncates what a killed run, or one that is not done, has    *)
(* left there...                                                           *)
Open(e) ==
    /\ pc[e] = "open"
    /\ files' = IF temp = 0 THEN Append(files, Empty) ELSE [files EXCEPT ![temp] = Empty]
    /\ temp' = IF temp = 0 THEN Len(files) + 1 ELSE temp
    /\ fd' = [fd EXCEPT ![e] = temp']
    /\ GoesTo(e, "write")
    /\ UNCHANGED <<run, told, claimant, private, config, installed, overlap>>

(* ...and writes from the start of the file it opened.                     *)
WriteText(e) ==
    /\ pc[e] = "write"
    /\ \E text \in {token[e]} \cup (IF files[fd[e]] = Empty THEN {} ELSE {Torn}) :
         files' = [files EXCEPT ![fd[e]] = text]
    /\ GoesTo(e, "chmod")
    /\ UNCHANGED <<run, told, claimant, private, config, temp, fd, installed, overlap>>

(* mutant: the mode is only set under the final name                       *)
ChmodNever(e) ==
    /\ pc[e] = "chmod" /\ temp # 0
    /\ private' = private
    /\ GoesTo(e, "replace")
    /\ UNCHANGED <<run, told, claimant, files, config, temp, fd, installed, overlap>>

Chmod(e) ==
    /\ pc[e] = "chmod" /\ temp # 0
    /\ private' = private \cup {temp}
    /\ GoesTo(e, "replace")
    /\ UNCHANGED <<run, told, claimant, files, config, temp, fd, installed, overlap>>

(* Whatever the temporary name leads to is renamed.                        *)
Replace(e) ==
    /\ pc[e] = "replace" /\ temp # 0
    /\ config' = temp /\ temp' = 0
    /\ installed' = installed \cup {files[temp]}
    /\ GoesTo(e, "secure")
    /\ UNCHANGED <<run, told, claimant, files, private, fd, overlap>>

Secure(e) ==
    /\ pc[e] = "secure"
    /\ private' = private \cup {config}
    /\ Ends(e, "connected")
    /\ UNCHANGED <<run, claimant, files, config, temp, fd, installed, overlap>>

(* The disk is full, a directory is in the way, or another run has renamed *)
(* the temporary file: an OSError, which only ends in a traceback.         *)
SaveFails(e) ==
    /\ pc[e] \in Saving
    /\ Ends(e, "traceback")
    /\ UNCHANGED <<run, claimant, store>>

Killed(e) ==
    /\ pc[e] # "done"
    /\ Ends(e, "killed")
    /\ UNCHANGED <<run, claimant, store>>

ENext == \E e \in Runs :
    \/ Look(e) \/ Claim(e) \/ ClaimUnanswered(e) \/ ClaimRefused(e)
    \/ Check(e) \/ Open(e) \/ WriteText(e) \/ Chmod(e) \/ Replace(e) \/ Secure(e)
    \/ SaveFails(e) \/ Killed(e)

ESpec == EInit /\ [][ENext]_vars

-----------------------------------------------------------------------------
Places  == Saving \cup {"new", "claim", "check", "secure", "done"}
Answers == {"nothing", "exists", "failed", "token used", "connected", "traceback", "killed"}

(* The values the variables take; a name leads to a file there is, no file *)
(* has both names, and a run writes to a file it has opened.               *)
TypeOK ==
    /\ pc \in [Runs -> Places] /\ told \in [Runs -> Answers]
    /\ token \in [Runs -> Tokens] /\ force \in [Runs -> BOOLEAN]
    /\ claimant \in [Tokens -> Runs \cup {Nobody}]
    /\ files \in Seq(Tokens \cup {Empty, Torn})
    /\ private \subseteq 1 .. Len(files)
    /\ config \in 0 .. Len(files) /\ temp \in 0 .. Len(files)
    /\ config = temp => config = 0
    /\ fd \in [Runs -> 0 .. Len(files)]
    /\ \A e \in Runs : pc[e] = "write" => fd[e] # 0
    /\ installed \subseteq Tokens \cup {Empty, Torn}
    /\ overlap \in BOOLEAN

(* While no two runs save at once, the other commands find no              *)
(* configuration or a whole one the board has given out, wherever a run is *)
(* killed and whatever it leaves behind (config.py:4, "atomic replace").   *)
WholeOrAbsent ==
    ~overlap => \/ Load = "not found"
                \/ Load \in Tokens /\ claimant[Load] # Nobody

(* cloud.json is 0600 at any moment, the one between the rename and the    *)
(* second chmod included (config.py:87).                                   *)
OwnerOnly == ~overlap /\ config # 0 => config \in private

(* What a run tells is so: "exists" leaves the token for another attempt,  *)
(* "token used" means it is gone and was never installed, and after        *)
(* "connected" its configuration was installed and `next: gua sync-once`   *)
(* finds one (__main__.py:449-499).                                        *)
AnswersAreTrue ==
    \A e \in Runs : LET mine == claimant[token[e]] = e IN
        /\ told[e] = "exists" => ~mine
        /\ told[e] = "token used" => mine /\ token[e] \notin installed
        /\ told[e] = "connected" => mine /\ config # 0
        /\ told[e] = "connected" /\ ~overlap => token[e] \in installed /\ Load \in Tokens

(* A configuration that is there is only ever replaced by another, by a    *)
(* run with --force (config.py:87), while no two save at once.             *)
OnlyForceReplaces ==
    [][config # 0 /\ config' # config =>
         /\ config' # 0
         /\ \E e \in Runs : pc[e] = "replace" /\ (force[e] \/ overlap)]_vars
=============================================================================
