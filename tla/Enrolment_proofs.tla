--------------------------- MODULE Enrolment_proofs ---------------------------
(***************************************************************************)
(* What `gua enroll` leaves behind and what it says, for any number of     *)
(* runs and tokens, any overlap of them and any place they are killed at.  *)
(***************************************************************************)
EXTENDS Enrolment, TLAPS

(* Once it has claimed its token, a run is the one the board knows; until  *)
(* then it has told nothing.                                               *)
Claimed ==
    \A e \in Runs :
        /\ pc[e] \in Saving \cup {"check", "secure"} => claimant[token[e]] = e
        /\ pc[e] \in {"new", "claim"} => claimant[token[e]] # e
        /\ pc[e] # "done" => told[e] = "nothing"
        /\ pc[e] = "secure" => config # 0

(* A text that was ever written is that of a run which got so far.         *)
Wrote(t) ==
    /\ claimant[t] \in Runs /\ token[claimant[t]] = t
    /\ pc[claimant[t]] \in {"chmod", "replace", "secure", "done"}
    /\ told[claimant[t]] # "token used"
Written == \A t \in Tokens :
    (t \in installed \/ \E i \in 1 .. Len(files) : files[i] = t) => Wrote(t)

(* A run that saves alone knows where the two names lead.                  *)
Alone(e) ==
    /\ \A f \in Runs : pc[f] \in Saving => f = e
    /\ force[e] \/ config = 0
    /\ pc[e] = "write" => temp # 0 /\ fd[e] = temp /\ files[temp] = Empty
    /\ pc[e] \in {"chmod", "replace"} => temp # 0 /\ files[temp] = token[e]
    /\ pc[e] = "replace" => temp \in private
SavesAlone == ~overlap => \A e \in Runs : pc[e] \in Saving => Alone(e)

(* What has the final name then is whole, and was installed by a run that  *)
(* may not have told so yet.                                               *)
Installed ==
    ~overlap => /\ config # 0 => config \in private /\ files[config] \in Tokens
                /\ \A e \in Runs : pc[e] = "secure" => token[e] \in installed

IInv == /\ TypeOK /\ Claimed /\ Written /\ SavesAlone /\ Installed
        /\ AnswersAreTrue

Step(e) ==
    \/ Look(e) \/ Claim(e) \/ ClaimUnanswered(e) \/ ClaimRefused(e)
    \/ Check(e) \/ Open(e) \/ WriteText(e) \/ Chmod(e) \/ Replace(e) \/ Secure(e)
    \/ SaveFails(e) \/ Killed(e)

(* The texts a file may hold.                                              *)
Texts == Tokens \cup {Empty, Torn}

-----------------------------------------------------------------------------
(* What a step of a run leaves alone, and how files grow.                  *)

LEMMA OthersWait ==
    ASSUME TypeOK, NEW e \in Runs, Step(e)
    PROVE  /\ UNCHANGED run
           /\ pc' \in [Runs -> Places] /\ told' \in [Runs -> Answers]
           /\ \A f \in Runs \ {e} : pc'[f] = pc[f] /\ told'[f] = told[f]
           /\ pc[e] # "done" /\ (pc'[e] # "done" => told'[e] = told[e])
  BY DEF TypeOK, Step, Places, Answers, Saving, run, GoesTo, Ends, Look, Claim,
         ClaimUnanswered, ClaimRefused, Check, Open, WriteText, Chmod, Replace,
         Secure, SaveFails, Killed

LEMMA Claims ==
    ASSUME TypeOK, NEW e \in Runs, Step(e)
    PROVE  \/ /\ claimant' = claimant
              /\ pc'[e] = "claim" => pc[e] = "new"
           \/ /\ Claim(e) \/ ClaimUnanswered(e)
              /\ pc[e] = "claim" /\ claimant[token[e]] = Nobody
              /\ claimant' = [claimant EXCEPT ![token[e]] = e]
              /\ UNCHANGED store
  BY DEF TypeOK, Step, Places, Answers, Saving, run, store, GoesTo, Ends, Look, Claim,
         ClaimUnanswered, ClaimRefused, Check, Open, WriteText, Chmod, Replace,
         Secure, SaveFails, Killed

LEMMA OpenFile ==
    ASSUME TypeOK, NEW e \in Runs, Open(e)
    PROVE  /\ files' \in Seq(Texts) /\ temp' \in 1 .. Len(files') /\ temp' # config
           /\ Len(files) <= Len(files') /\ files'[temp'] = Empty
           /\ fd'[e] = temp' /\ fd' \in [Runs -> 0 .. Len(files')]
           /\ \A i \in 1 .. Len(files') : i # temp' => i \in 1 .. Len(files) /\ files'[i] = files[i]
           /\ \A f \in Runs \ {e} : fd'[f] = fd[f]
<1> USE DEF TypeOK, Texts, Open
<1>1. CASE temp = 0
  <2>1. files' = Append(files, Empty) /\ temp' = Len(files) + 1
    BY <1>1
  <2>2. /\ files' \in Seq(Texts) /\ Len(files') = Len(files) + 1
        /\ files'[Len(files) + 1] = Empty
        /\ \A i \in 1 .. Len(files) : files'[i] = files[i]
    BY <2>1
  <2> QED BY <2>1, <2>2
<1>2. CASE temp # 0
  <2>1. files' = [files EXCEPT ![temp] = Empty] /\ temp' = temp
    BY <1>2
  <2>2. /\ files' \in Seq(Texts) /\ Len(files') = Len(files)
        /\ files'[temp] = Empty
        /\ \A i \in 1 .. Len(files) : i # temp => files'[i] = files[i]
    BY <1>2, <2>1
  <2> QED BY <1>2, <2>1, <2>2
<1> QED BY <1>1, <1>2

LEMMA WriteFile ==
    ASSUME TypeOK, NEW e \in Runs, WriteText(e)
    PROVE  /\ fd[e] \in 1 .. Len(files)
           /\ files' \in Seq(Texts) /\ Len(files') = Len(files)
           /\ files'[fd[e]] \in {token[e], Torn}
           /\ files[fd[e]] = Empty => files'[fd[e]] = token[e]
           /\ \A i \in 1 .. Len(files) : i # fd[e] => files'[i] = files[i]
<1>1. fd[e] \in 1 .. Len(files) /\ files \in Seq(Texts) /\ token[e] \in Texts
  BY DEF TypeOK, Texts, WriteText
<1>2. PICK text \in {token[e]} \cup (IF files[fd[e]] = Empty THEN {} ELSE {Torn}) :
        files' = [files EXCEPT ![fd[e]] = text]
  BY DEF WriteText
<1> QED BY <1>1, <1>2 DEF Texts

LEMMA OthersKeep ==
    ASSUME NEW e \in Runs, Step(e), ~Open(e), ~WriteText(e)
    PROVE  UNCHANGED <<files, fd>>
  BY DEF Step, store, Look, Claim, ClaimUnanswered, ClaimRefused, Check, Chmod,
         Replace, Secure, SaveFails, Killed

LEMMA Names ==
    ASSUME NEW e \in Runs, Step(e), ~Open(e)
    PROVE  \/ UNCHANGED <<private, config, temp, installed>>
           \/ /\ Chmod(e) /\ temp # 0
              /\ private' = private \cup {temp} /\ UNCHANGED <<config, temp, installed>>
           \/ /\ Replace(e) /\ temp # 0
              /\ config' = temp /\ temp' = 0 /\ installed' = installed \cup {files[temp]}
              /\ UNCHANGED private
           \/ /\ Secure(e) /\ pc[e] = "secure"
              /\ private' = private \cup {config} /\ UNCHANGED <<config, temp, installed>>
  BY DEF Step, store, Look, Claim, ClaimUnanswered, ClaimRefused, Check, WriteText, Chmod,
         Replace, Secure, SaveFails, Killed

LEMMA InitInv == EInit => IInv
<1> SUFFICES ASSUME EInit PROVE IInv
  OBVIOUS
<1> USE EnrolmentAssumption DEF EInit, Saving
<1>1. TypeOK
  <2>1. files = <<>> /\ files \in Seq(Tokens \cup {Empty, Torn}) /\ Len(files) = 0
    OBVIOUS
  <2>2. /\ private = {} /\ config = 0 /\ temp = 0 /\ installed = {} /\ overlap = FALSE
        /\ fd = [e \in Runs |-> 0] /\ pc \in [Runs -> {"new"}] /\ told \in [Runs -> {"nothing"}]
        /\ token \in [Runs -> Tokens] /\ force \in [Runs -> BOOLEAN]
        /\ claimant \in [Tokens -> {Nobody}]
    OBVIOUS
  <2> HIDE DEF EInit
  <2>3. pc \in [Runs -> Places] /\ told \in [Runs -> Answers]
        /\ claimant \in [Tokens -> Runs \cup {Nobody}]
    BY <2>2 DEF Places, Answers
  <2>4. fd \in [Runs -> 0 .. Len(files)] /\ \A e \in Runs : pc[e] # "write"
    <3>1. 0 \in 0 .. Len(files)
      BY <2>1
    <3>2. fd \in [Runs -> 0 .. Len(files)]
      BY <2>2, <3>1, Zenon
    <3>3. \A e \in Runs : pc[e] \in {"new"}
      BY <2>2
    <3> QED BY <3>2, <3>3
  <2>5. config \in 0 .. Len(files) /\ temp \in 0 .. Len(files) /\ private \subseteq 1 .. Len(files)
        /\ installed \subseteq Tokens \cup {Empty, Torn}
    BY <2>1, <2>2
  <2>6. overlap \in BOOLEAN
    BY <2>2, Zenon
  <2> QED BY <2>1, <2>2, <2>3, <2>4, <2>5, <2>6 DEF TypeOK
<1>2. Claimed /\ Written /\ SavesAlone /\ Installed /\ AnswersAreTrue
  BY DEF Claimed, Written, SavesAlone, Installed, AnswersAreTrue
<1> QED BY <1>1, <1>2 DEF IInv

LEMMA TypeStep ==
    ASSUME IInv, NEW e \in Runs, Step(e)
    PROVE  TypeOK'
<1> USE EnrolmentAssumption DEF IInv
<1>1. /\ pc' \in [Runs -> Places] /\ told' \in [Runs -> Answers]
      /\ token' \in [Runs -> Tokens] /\ force' \in [Runs -> BOOLEAN]
  BY OthersWait DEF TypeOK, run
<1>2. claimant' \in [Tokens -> Runs \cup {Nobody}]
  BY Claims DEF TypeOK
<1>3. CASE Open(e)
  <2>1. UNCHANGED <<private, config, installed, overlap>> /\ pc' = [pc EXCEPT ![e] = "write"]
    BY <1>3 DEF Open, GoesTo
  <2>2. \A f \in Runs : pc'[f] = "write" => fd'[f] # 0
    BY <1>3, <2>1, OpenFile DEF TypeOK
  <2> QED BY <1>1, <1>2, <1>3, <2>1, <2>2, OpenFile DEF TypeOK, Texts
<1>4. CASE WriteText(e)
  <2>1. /\ UNCHANGED <<private, config, temp, fd, installed, overlap>>
        /\ pc' = [pc EXCEPT ![e] = "chmod"]
    BY <1>4 DEF WriteText, GoesTo
  <2> QED BY <1>1, <1>2, <1>4, <2>1, WriteFile DEF TypeOK, Texts
<1>5. CASE ~Open(e) /\ ~WriteText(e)
  <2>1. UNCHANGED <<files, fd>>
    BY <1>5, OthersKeep
  <2>2. pc[e] = "secure" => config \in 1 .. Len(files)
    BY DEF TypeOK, Claimed
  <2>3. /\ private' \subseteq 1 .. Len(files)
        /\ config' \in 0 .. Len(files) /\ temp' \in 0 .. Len(files)
        /\ config' = temp' => config' = 0
        /\ installed' \subseteq Tokens \cup {Empty, Torn}
    <3>1. CASE UNCHANGED <<private, config, temp, installed>>
      BY <3>1 DEF TypeOK
    <3>2. CASE Chmod(e) /\ temp # 0 /\ private' = private \cup {temp}
               /\ UNCHANGED <<config, temp, installed>>
      BY <3>2 DEF TypeOK
    <3>3. CASE Replace(e) /\ temp # 0 /\ config' = temp /\ temp' = 0
               /\ installed' = installed \cup {files[temp]} /\ UNCHANGED private
      <4>1. temp \in 1 .. Len(files) /\ files[temp] \in Tokens \cup {Empty, Torn}
        BY <3>3 DEF TypeOK
      <4> QED BY <3>3, <4>1 DEF TypeOK
    <3>4. CASE pc[e] = "secure" /\ private' = private \cup {config}
               /\ UNCHANGED <<config, temp, installed>>
      BY <2>2, <3>4 DEF TypeOK
    <3> QED BY <1>5, <3>1, <3>2, <3>3, <3>4, Names
  <2>4. overlap' \in BOOLEAN
    BY <1>5 DEF TypeOK, Step, store, Look, Claim, ClaimUnanswered, ClaimRefused, Check,
                Chmod, Replace, Secure, SaveFails, Killed
  <2>5. \A f \in Runs : pc'[f] = "write" => pc[f] = "write"
    BY <1>5 DEF TypeOK, Step, Saving, GoesTo, Ends, Look, Claim, ClaimUnanswered, ClaimRefused,
                Check, Chmod, Replace, Secure, SaveFails, Killed
  <2> QED BY <1>1, <1>2, <2>1, <2>2, <2>3, <2>4, <2>5 DEF TypeOK
<1> QED BY <1>3, <1>4, <1>5

(* A configuration that is there stays, or is replaced.                    *)
LEMMA ConfigStays ==
    ASSUME NEW e \in Runs, Step(e), config # 0
    PROVE  config' # 0
<1>1. CASE Open(e)
  BY <1>1 DEF Open
<1>2. CASE ~Open(e)
  BY <1>2, Names
<1> QED BY <1>1, <1>2

LEMMA ClaimedStep ==
    ASSUME IInv, NEW e \in Runs, Step(e)
    PROVE  Claimed'
<1> USE EnrolmentAssumption DEF IInv
<1>1. ASSUME NEW f \in Runs \ {e}
      PROVE  /\ pc'[f] \in Saving \cup {"check", "secure"} => claimant'[token'[f]] = f
             /\ pc'[f] \in {"new", "claim"} => claimant'[token'[f]] # f
             /\ pc'[f] # "done" => told'[f] = "nothing"
             /\ pc'[f] = "secure" => config' # 0
  <2>1. pc'[f] = pc[f] /\ told'[f] = told[f] /\ token' = token /\ token[f] \in Tokens
    BY OthersWait DEF run, TypeOK
  <2>2. claimant[token[f]] = f => claimant'[token[f]] = f
    BY <2>1, Claims DEF TypeOK
  <2>3. claimant[token[f]] # f => claimant'[token[f]] # f
    BY <2>1, Claims DEF TypeOK
  <2> QED BY <2>1, <2>2, <2>3, ConfigStays DEF Claimed
<1>2. /\ pc'[e] \in Saving \cup {"check", "secure"} => claimant'[token'[e]] = e
      /\ pc'[e] \in {"new", "claim"} => claimant'[token'[e]] # e
  <2>1. token' = token /\ token[e] \in Tokens
    BY OthersWait DEF run, TypeOK
  <2>2. CASE claimant' = claimant /\ (pc'[e] = "claim" => pc[e] = "new")
    <3>1. pc'[e] \in Saving \cup {"check", "secure"} =>
              pc[e] \in Saving \cup {"check"} \/ Claim(e)
      BY DEF TypeOK, Step, Saving, GoesTo, Ends, Look, Claim, ClaimUnanswered, ClaimRefused,
             Check, Open, WriteText, Chmod, Replace, Secure, SaveFails, Killed
    <3>2. pc'[e] # "new"
      BY DEF TypeOK, Step, Saving, GoesTo, Ends, Look, Claim, ClaimUnanswered, ClaimRefused,
             Check, Open, WriteText, Chmod, Replace, Secure, SaveFails, Killed
    <3>3. ~Claim(e)
      BY <2>1, <2>2 DEF Claim, TypeOK
    <3> QED BY <2>1, <2>2, <3>1, <3>2, <3>3 DEF Claimed
  <2>3. CASE /\ Claim(e) \/ ClaimUnanswered(e)
             /\ claimant' = [claimant EXCEPT ![token[e]] = e]
    <3>1. pc'[e] \in {"check", "done"}
      BY <2>3 DEF Claim, ClaimUnanswered, GoesTo, Ends, TypeOK
    <3>2. claimant'[token[e]] = e
      BY <2>1, <2>3 DEF TypeOK
    <3> QED BY <2>1, <3>1, <3>2 DEF Saving
  <2> QED BY <2>2, <2>3, Claims
<1>3. pc'[e] # "done" => told'[e] = "nothing"
  BY OthersWait DEF Claimed
<1>4. pc'[e] = "secure" => config' # 0
  BY DEF TypeOK, Step, Saving, GoesTo, Ends, Look, Claim, ClaimUnanswered, ClaimRefused,
         Check, Open, WriteText, Chmod, Replace, Secure, SaveFails, Killed
<1> QED BY <1>1, <1>2, <1>3, <1>4 DEF Claimed

LEMMA WrittenStep ==
    ASSUME IInv, NEW e \in Runs, Step(e)
    PROVE  Written'
<1> USE EnrolmentAssumption DEF IInv
<1> SUFFICES ASSUME NEW t \in Tokens,
                    t \in installed' \/ \E i \in 1 .. Len(files') : files'[i] = t
             PROVE  Wrote(t)'
  BY DEF Written
<1>1. token' = token /\ token \in [Runs -> Tokens]
  BY OthersWait DEF run, TypeOK
<1>2. CASE t \in installed \/ \E i \in 1 .. Len(files) : files[i] = t
  <2>1. Wrote(t)
    BY <1>2 DEF Written
  <2>2. claimant'[t] = claimant[t]
    <3>1. \/ claimant' = claimant
          \/ claimant[token[e]] = Nobody /\ claimant' = [claimant EXCEPT ![token[e]] = e]
      BY Claims
    <3>2. claimant[t] # Nobody /\ claimant \in [Tokens -> Runs \cup {Nobody}]
      BY <2>1 DEF Wrote, TypeOK
    <3> QED BY <3>1, <3>2
  <2>3. ASSUME claimant[t] = e
        PROVE  pc'[e] \in {"replace", "secure", "done"} /\ told'[e] # "token used"
    <3>1. pc[e] \in {"chmod", "replace", "secure", "done"} /\ told[e] # "token used"
      BY <2>1, <2>3 DEF Wrote
    <3>2. e \in DOMAIN pc /\ e \in DOMAIN told
      BY DEF TypeOK
    <3>3. CASE Chmod(e) \/ Replace(e)
      BY <3>1, <3>2, <3>3 DEF Chmod, Replace, GoesTo
    <3>4. CASE Secure(e) \/ SaveFails(e) \/ Killed(e)
      BY <3>2, <3>4 DEF Secure, SaveFails, Killed, Ends, GoesTo
    <3>5. Chmod(e) \/ Replace(e) \/ Secure(e) \/ SaveFails(e) \/ Killed(e)
      BY <3>1 DEF Step, Look, Claim, ClaimUnanswered, ClaimRefused, Check, Open, WriteText
    <3> QED BY <3>3, <3>4, <3>5
  <2>4. claimant[t] # e => /\ pc'[claimant[t]] = pc[claimant[t]]
                           /\ told'[claimant[t]] = told[claimant[t]]
    BY <2>1, OthersWait DEF Wrote
  <2> QED BY <1>1, <2>1, <2>2, <2>3, <2>4 DEF Wrote
<1>3. CASE ~(t \in installed \/ \E i \in 1 .. Len(files) : files[i] = t)
  <2>1. WriteText(e)
    <3>1. ASSUME Open(e) PROVE FALSE
      BY <1>3, <3>1, OpenFile DEF Open
    <3>2. ASSUME ~Open(e), ~WriteText(e) PROVE FALSE
      <4>1. UNCHANGED files
        BY <3>2, OthersKeep
      <4>2. temp # 0 => temp \in 1 .. Len(files)
        BY DEF TypeOK
      <4> QED BY <1>3, <3>2, <4>1, <4>2, Names
    <3> QED BY <3>1, <3>2
  <2>2. t = token[e]
    BY <1>3, <2>1, WriteFile DEF WriteText
  <2>3. claimant'[t] = e
    <3>1. claimant[token[e]] = e
      BY <2>1 DEF WriteText, Claimed, Saving
    <3> QED BY <2>1, <2>2, <3>1 DEF WriteText
  <2>4. pc'[e] = "chmod" /\ told'[e] = "nothing"
    BY <2>1 DEF WriteText, GoesTo, TypeOK, Claimed
  <2> QED BY <1>1, <2>2, <2>3, <2>4 DEF Wrote
<1> QED BY <1>2, <1>3

(* A run that saves alone, whatever another does meanwhile.                *)
LEMMA AloneStep ==
    ASSUME IInv, NEW e \in Runs, Step(e)
    PROVE  SavesAlone'
<1> USE EnrolmentAssumption DEF IInv
<1> SUFFICES ASSUME ~overlap', NEW f \in Runs, pc'[f] \in Saving
             PROVE  Alone(f)'
  BY DEF SavesAlone
<1>1. ~overlap /\ token' = token /\ force' = force
  BY OthersWait DEF TypeOK, Step, run, store, Look, Claim, ClaimUnanswered, ClaimRefused, Check,
                    Open, WriteText, Chmod, Replace, Secure, SaveFails, Killed
<1>2. CASE pc[e] \notin Saving /\ pc'[e] \notin Saving
  <2>1. f # e /\ pc[f] \in Saving /\ Alone(f)
    BY <1>1, <1>2, OthersWait DEF SavesAlone
  <2>2. pc'[f] = pc[f] /\ \A g \in Runs : pc'[g] \in Saving => g = f
    BY <1>2, <2>1, OthersWait DEF Alone
  <2>3. UNCHANGED <<config, temp, files, fd>> /\ private \subseteq private'
    <3>1. ~Open(e) /\ ~WriteText(e) /\ ~Replace(e)
      BY <1>2 DEF Open, WriteText, Replace, Saving
    <3> QED BY <3>1, OthersKeep, Names
  <2> QED BY <1>1, <2>1, <2>2, <2>3 DEF Alone
<1>3. CASE pc[e] \notin Saving /\ pc'[e] \in Saving
  <2>1. /\ Check(e) /\ ~InTheWay(e) /\ pc'[e] = "open"
        /\ \A g \in Runs \ {e} : pc[g] \notin Saving
        /\ UNCHANGED <<config, force>>
    BY <1>1, <1>3 DEF TypeOK, Step, Saving, GoesTo, Ends, Look, Claim, ClaimUnanswered, ClaimRefused,
             Check, Open, WriteText, Chmod, Replace, Secure, SaveFails, Killed, run
  <2>2. \A g \in Runs : pc'[g] \in Saving => g = e
    BY <2>1, OthersWait
  <2> QED BY <2>1, <2>2 DEF Alone, InTheWay, TypeOK
<1>4. CASE pc[e] \in Saving
  <2>1. Alone(e)
    BY <1>1, <1>4 DEF SavesAlone
  <2>2. f = e /\ \A g \in Runs : pc'[g] \in Saving => g = e
    BY <2>1, OthersWait DEF Alone
  <2>3. CASE Open(e)
    <3>1. pc'[e] = "write" /\ config' = config
      BY <2>3 DEF Open, GoesTo, TypeOK
    <3> QED BY <1>1, <2>1, <2>2, <2>3, <3>1, OpenFile DEF Alone
  <2>4. CASE WriteText(e)
    <3>1. pc'[e] = "chmod" /\ pc[e] = "write" /\ UNCHANGED <<config, temp>>
      BY <2>4 DEF WriteText, GoesTo, TypeOK
    <3> QED BY <1>1, <2>1, <2>2, <2>4, <3>1, WriteFile DEF Alone
  <2>5. CASE Chmod(e)
    <3>1. /\ pc'[e] = "replace" /\ pc[e] = "chmod" /\ UNCHANGED <<config, temp, files>>
          /\ private' = private \cup {temp}
      BY <2>5 DEF Chmod, GoesTo, TypeOK
    <3> QED BY <1>1, <2>1, <2>2, <3>1 DEF Alone
  <2>6. pc'[e] \in Saving => Open(e) \/ WriteText(e) \/ Chmod(e)
    BY <1>4 DEF TypeOK, Step, Saving, GoesTo, Ends, Look, Claim, ClaimUnanswered, ClaimRefused,
             Check, Open, WriteText, Chmod, Replace, Secure, SaveFails, Killed
  <2> QED BY <2>2, <2>3, <2>4, <2>5, <2>6
<1> QED BY <1>2, <1>3, <1>4

LEMMA InstalledStep ==
    ASSUME IInv, NEW e \in Runs, Step(e)
    PROVE  Installed'
<1> USE EnrolmentAssumption DEF IInv
<1> SUFFICES ASSUME ~overlap'
             PROVE  /\ config' # 0 => config' \in private' /\ files'[config'] \in Tokens
                    /\ \A f \in Runs : pc'[f] = "secure" => token'[f] \in installed'
  BY DEF Installed
<1>1. ~overlap /\ token' = token /\ token \in [Runs -> Tokens]
  BY OthersWait DEF TypeOK, Step, run, store, Look, Claim, ClaimUnanswered, ClaimRefused, Check,
                    Open, WriteText, Chmod, Replace, Secure, SaveFails, Killed
<1>2. pc[e] \in Saving => Alone(e)
  BY <1>1 DEF SavesAlone
<1>3. CASE Open(e)
  <2>1. UNCHANGED <<config, private, installed>> /\ pc' = [pc EXCEPT ![e] = "write"]
    BY <1>3 DEF Open, GoesTo
  <2>2. config # 0 => files'[config] = files[config]
    BY <1>3, OpenFile DEF TypeOK
  <2> QED BY <1>1, <2>1, <2>2 DEF Installed, TypeOK
<1>4. CASE WriteText(e)
  <2>1. UNCHANGED <<config, private, installed>> /\ pc' = [pc EXCEPT ![e] = "chmod"]
    BY <1>4 DEF WriteText, GoesTo
  <2>2. fd[e] = temp /\ temp # 0
    BY <1>2, <1>4 DEF WriteText, Alone, Saving
  <2>3. config # 0 => files'[config] = files[config]
    BY <1>4, <2>2, WriteFile DEF TypeOK
  <2> QED BY <1>1, <2>1, <2>3 DEF Installed, TypeOK
<1>5. CASE Replace(e)
  <2>1. /\ pc[e] = "replace" /\ config' = temp /\ installed' = installed \cup {files[temp]}
        /\ UNCHANGED <<files, private>>
        /\ pc' = [pc EXCEPT ![e] = "secure"]
    BY <1>5 DEF Replace, GoesTo
  <2>2. temp \in private /\ files[temp] = token[e]
    BY <1>2, <2>1 DEF Alone, Saving
  <2> QED BY <1>1, <2>1, <2>2 DEF Installed, TypeOK
<1>6. CASE ~Open(e) /\ ~WriteText(e) /\ ~Replace(e)
  <2>1. UNCHANGED <<files, config, installed>> /\ private \subseteq private'
    BY <1>6, OthersKeep, Names
  <2>2. \A f \in Runs : pc'[f] = "secure" => pc[f] = "secure"
    BY <1>6 DEF TypeOK, Step, Saving, GoesTo, Ends, Look, Claim, ClaimUnanswered, ClaimRefused,
             Check, Chmod, Secure, SaveFails, Killed
  <2> QED BY <1>1, <2>1, <2>2 DEF Installed
<1> QED BY <1>3, <1>4, <1>5, <1>6

LEMMA AnswerStep ==
    ASSUME IInv, NEW e \in Runs, Step(e), TypeOK', Installed'
    PROVE  AnswersAreTrue'
<1> USE EnrolmentAssumption DEF IInv
<1> SUFFICES ASSUME NEW f \in Runs
             PROVE  LET mine == claimant'[token'[f]] = f IN
                    /\ told'[f] = "exists" => ~mine
                    /\ told'[f] = "token used" => mine /\ token'[f] \notin installed'
                    /\ told'[f] = "connected" => mine /\ config' # 0
                    /\ told'[f] = "connected" /\ ~overlap' =>
                            token'[f] \in installed' /\ Load' \in Tokens
  BY DEF AnswersAreTrue
<1>1. token' = token /\ token[f] \in Tokens /\ installed \subseteq installed'
      /\ (~overlap' => ~overlap)
  BY OthersWait, Names DEF TypeOK, Step, run, store, Look, Claim, ClaimUnanswered, ClaimRefused, Check,
                    Open, WriteText, Chmod, Replace, Secure, SaveFails, Killed
<1>2. ~overlap' /\ config' # 0 => Load' \in Tokens
  BY DEF Installed, Load
<1>3. claimant[token[f]] = f => claimant'[token[f]] = f
  BY <1>1, Claims DEF TypeOK
<1>4. CASE told'[f] = told[f] /\ (f # e \/ pc[e] = "done")
  <2>1. claimant[token[f]] # f => claimant'[token[f]] # f
    BY <1>1, <1>4, OthersWait, Claims DEF TypeOK
  <2>2. told[f] = "token used" => token[f] \notin installed'
    <3>1. SUFFICES ASSUME told[f] = "token used", token[f] \in installed' PROVE FALSE
      OBVIOUS
    <3>2. Written'
      BY WrittenStep
    <3>3. claimant[token[f]] = f
      BY <3>1 DEF AnswersAreTrue
    <3>4. PICK t \in Tokens : t = token[f]
      BY <1>1
    <3>5. Wrote(t)'
      BY <3>1, <3>2, <3>4 DEF Written
    <3>6. told'[claimant'[t]] # "token used" /\ claimant'[t] = f
      BY <1>3, <3>3, <3>4, <3>5 DEF Wrote
    <3> QED BY <1>4, <3>1, <3>6
  <2> QED BY <1>1, <1>2, <1>3, <1>4, <2>1, <2>2, ConfigStays DEF AnswersAreTrue
<1>5. CASE f = e
  <2>1. told'[e] = "exists" => claimant'[token[e]] # e
    BY <1>1, <1>5 DEF AnswersAreTrue, Claimed, TypeOK, Step, run, store, Saving, GoesTo, Ends, Look, Claim,
             ClaimUnanswered, ClaimRefused, Check, Open, WriteText, Chmod, Replace, Secure,
             SaveFails, Killed
  <2>2. told'[e] = "token used" => claimant'[token[e]] = e /\ token[e] \notin installed'
    <3>1. SUFFICES ASSUME told'[e] = "token used"
                   PROVE  claimant'[token[e]] = e /\ token[e] \notin installed'
      OBVIOUS
    <3>2. Check(e)
      BY <3>1 DEF Claimed, TypeOK, Step, Saving, GoesTo, Ends, Look, Claim,
             ClaimUnanswered, ClaimRefused, Check, Open, WriteText, Chmod, Replace, Secure,
             SaveFails, Killed
    <3>3. claimant[token[e]] = e
      BY <3>2 DEF Claimed, Check
    <3>4. token[e] \notin installed
      BY <1>1, <1>5, <3>2, <3>3 DEF Written, Wrote, Check
    <3> QED BY <3>2, <3>3, <3>4 DEF Check
  <2>3. told'[e] = "connected" => Secure(e)
    BY DEF Claimed, TypeOK, Step, Saving, GoesTo, Ends, Look, Claim,
             ClaimUnanswered, ClaimRefused, Check, Open, WriteText, Chmod, Replace, Secure,
             SaveFails, Killed
  <2>4. Secure(e) => claimant'[token[e]] = e /\ config' # 0 /\ (~overlap' => token[e] \in installed')
    BY <1>1, <1>3, <1>5, ConfigStays DEF Secure, Claimed, Installed
  <2> QED BY <1>1, <1>2, <1>5, <2>1, <2>2, <2>3, <2>4
<1>6. f # e => told'[f] = told[f]
  BY OthersWait
<1> QED BY <1>4, <1>5, <1>6

LEMMA StepInv == IInv /\ [ENext]_vars => IInv'
<1> SUFFICES ASSUME IInv, [ENext]_vars PROVE IInv'
  OBVIOUS
<1>1. ASSUME NEW e \in Runs, Step(e) PROVE IInv'
  BY <1>1, TypeStep, ClaimedStep, WrittenStep, AloneStep, InstalledStep, AnswerStep DEF IInv
<1>2. CASE UNCHANGED vars
  <2> USE <1>2 DEF IInv, vars
  <2>1. TypeOK'
    BY DEF TypeOK
  <2>2. Claimed' /\ Written'
    BY DEF Claimed, Written, Wrote
  <2>3. SavesAlone' /\ Installed'
    BY DEF SavesAlone, Alone, Installed
  <2>4. AnswersAreTrue'
    BY DEF AnswersAreTrue, Load
  <2> QED BY <2>1, <2>2, <2>3, <2>4
<1> QED BY <1>1, <1>2 DEF ENext, Step

LEMMA Invariance == ESpec => []IInv
  BY InitInv, StepInv, PTL DEF ESpec

-----------------------------------------------------------------------------
(* The values of the variables (Enrolment's own bookkeeping of files).     *)
THEOREM EnrolmentTypes == ESpec => []TypeOK
<1>1. IInv => TypeOK
  BY DEF IInv
<1> QED BY <1>1, Invariance, PTL

(* Whoever reads cloud.json while no two runs save at once finds none or a *)
(* whole one that the board has given out (config.py:89-98), wherever a    *)
(* run was killed.                                                         *)
THEOREM ConfigIsWhole == ESpec => []WholeOrAbsent
<1>1. IInv => WholeOrAbsent
  <2> SUFFICES ASSUME IInv, ~overlap, config # 0
               PROVE  Load \in Tokens /\ claimant[Load] # Nobody
    BY DEF WholeOrAbsent, Load
  <2>1. files[config] \in Tokens /\ config \in 1 .. Len(files)
    BY DEF IInv, Installed, TypeOK
  <2>2. Load = files[config] /\ Wrote(files[config])
    BY <2>1, EnrolmentAssumption DEF Load, IInv, Written
  <2> QED BY <2>1, <2>2, EnrolmentAssumption DEF Wrote
<1> QED BY <1>1, Invariance, PTL

(* cloud.json is its owner's alone from the moment it has its name         *)
(* (config.py:96-99).                                                     *)
THEOREM SecretStays == ESpec => []OwnerOnly
<1>1. IInv => OwnerOnly
  BY DEF IInv, Installed, OwnerOnly
<1> QED BY <1>1, Invariance, PTL

(* What a run says of the token and of the file is so (__main__.py:449).   *)
THEOREM EnrolmentAnswers == ESpec => []AnswersAreTrue
<1>1. IInv => AnswersAreTrue
  BY DEF IInv
<1> QED BY <1>1, Invariance, PTL

(* A configuration goes only for another, and only by --force or two saves *)
(* at once (config.py:87).                                                 *)
THEOREM NoneReplacedUnasked == ESpec => OnlyForceReplaces
<1>1. ASSUME IInv, [ENext]_vars, config # 0, config' # config
      PROVE  /\ config' # 0
             /\ \E e \in Runs : pc[e] = "replace" /\ (force[e] \/ overlap)
  <2>1. PICK e \in Runs : Step(e)
    BY <1>1 DEF ENext, Step, vars
  <2>2. ~Open(e)
    BY <1>1 DEF Open
  <2>3. Replace(e)
    BY <1>1, <2>1, <2>2, Names
  <2>4. pc[e] = "replace" /\ pc[e] \in Saving
    BY <2>3 DEF Replace, Saving
  <2>5. force[e] \/ overlap
    BY <1>1, <2>4 DEF IInv, SavesAlone, Alone
  <2> QED BY <1>1, <2>1, <2>4, <2>5, ConfigStays
<1>2. IInv /\ [ENext]_vars => (config # 0 /\ config' # config =>
          config' # 0 /\ \E e \in Runs : pc[e] = "replace" /\ (force[e] \/ overlap))
  BY <1>1
<1> QED BY <1>2, Invariance, PTL DEF ESpec, OnlyForceReplaces
=============================================================================
