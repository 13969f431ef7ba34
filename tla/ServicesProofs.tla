----------------------------- MODULE ServicesProofs -----------------------------
(***************************************************************************)
(* Proofs about the relayer, the verification keys and the push gateways,  *)
(* which MCServices runs, about the core library's bindings, which         *)
(* MCProofSystems runs, and about the watcher of the push relay.           *)
(***************************************************************************)
EXTENDS Relayer, SepKeys, PushWatcher, PushGateways, CoreBindings, Groth16Groups, PoseidonProofs,
        FiniteSetTheorems, TLAPS

(***************************************************************************)
(* Relayer, for any number of slots, clients and requests and any limit: a *)
(* request that none overlaps is sent with its own proof and public        *)
(* inputs, whatever earlier ones have left in the files.                   *)
(***************************************************************************)

(***************************************************************************)
(* Types.                                                                  *)
(***************************************************************************)
Underway == {"arguments", "proof", "write_proof", "inputs", "write_inputs",
             "read_proof", "read_inputs", "send", "output"}

Contents == {r.proof : r \in Requested} \cup {r.inputs : r \in Requested} \cup {Missing, Torn}

InWork ==
    [pc : Underway, request : Requested, alone : BOOLEAN, proof : Contents, inputs : Contents,
     landed : BOOLEAN, ran : BOOLEAN]

Serving ==
    {Free} \cup InWork
    \cup [pc : {"answered"}, function : {r.function : r \in Requested}, status : Nat,
          ran : BOOLEAN, landed : BOOLEAN]

RelayerTypeOK == serving \in [Slots -> Serving] /\ file \in [Files -> Contents]

(***************************************************************************)
(* A request that is alone has no other in service beside it; from the     *)
(* moment it has written a file until the command has read it, the file    *)
(* holds what it came with.                                                *)
(***************************************************************************)
Alone(t) == InService(t) /\ serving[t].alone

AloneExcludes == \A t, u \in Slots : Alone(t) /\ InService(u) => t = u

Faithful(x, held) ==
    LET r == x.request IN
    /\ x.pc \in {"inputs", "write_inputs", "read_proof"} => held["proof"] = r.proof
    /\ x.pc \in {"read_proof", "read_inputs"} => held[InputsFile(r.function)] = r.inputs
    /\ x.pc = "read_inputs" => x.proof = r.proof
    /\ (x.pc = "send" /\ r.function \in ProofFunctions) => x.proof = r.proof /\ x.inputs = r.inputs

AloneIsFaithful == \A t \in Slots : Alone(t) => Faithful(serving[t], file)

RelayerInv == RelayerTypeOK /\ AloneExcludes /\ AloneIsFaithful

LEMMA ServingCases ==
    ASSUME NEW x \in Serving
    PROVE  x.pc \in {"free", "answered"} \/ (x \in InWork /\ x.pc \in Underway)
BY DEF Serving, Free, InWork

(***************************************************************************)
(* A step of a request in service concerns the files and that request: if  *)
(* another one were alone, this one would not be in service.               *)
(***************************************************************************)
LEMMA SlotStep ==
    ASSUME RelayerInv, NEW t \in Slots, InService(t), NEW x \in Serving,
           serving' = [serving EXCEPT ![t] = x], file' \in [Files -> Contents],
           x.pc \notin {"free", "answered"} =>
               x.alone = serving[t].alone /\ (x.alone => Faithful(x, file'))
    PROVE  RelayerInv'
<1>0. serving \in [Slots -> Serving] /\ AloneExcludes
  BY DEF RelayerInv, RelayerTypeOK
<1>1. serving'[t] = x /\ \A u \in Slots \ {t} : serving'[u] = serving[u]
  BY <1>0
<1>2. RelayerTypeOK'
  BY <1>0 DEF RelayerTypeOK
<1>3. \A u \in Slots \ {t} : ~Alone(u)
  BY <1>0 DEF AloneExcludes
<1>4. \A u \in Slots \ {t} : ~Alone(u)'
  BY <1>1, <1>3 DEF Alone, InService
<1>5. ASSUME Alone(t)' PROVE Alone(t) /\ Faithful(x, file')
  BY <1>1, <1>5 DEF Alone, InService
<1>6. AloneExcludes'
  <2>. SUFFICES ASSUME Alone(t)', NEW u \in Slots, InService(u)' PROVE u = t
    BY <1>4 DEF AloneExcludes
  <2>1. CASE u # t
    BY <2>1, <1>0, <1>1, <1>5 DEF AloneExcludes, InService
  <2>. QED BY <2>1
<1>7. AloneIsFaithful'
  BY <1>1, <1>4, <1>5 DEF AloneIsFaithful
<1>. QED BY <1>2, <1>6, <1>7 DEF RelayerInv

(***************************************************************************)
(* A request that moves on keeps what it has; one that ends is answered.   *)
(***************************************************************************)
LEMMA Moving ==
    ASSUME RelayerTypeOK, NEW t \in Slots, InService(t)
    PROVE  /\ serving[t] \in InWork
           /\ \A place \in Underway : [serving[t] EXCEPT !.pc = place] \in InWork
           /\ serving[t].request \in Requested
<1>1. serving[t] \in InWork
  BY ServingCases DEF RelayerTypeOK, InService
<1>. QED BY <1>1 DEF InWork

LEMMA Ending ==
    ASSUME NEW r \in Requested, NEW status \in Nat, NEW ran \in BOOLEAN, NEW landed \in BOOLEAN
    PROVE  /\ Answered(r, status, ran, landed) \in Serving
           /\ Answered(r, status, ran, landed).pc = "answered"
BY DEF Answered, Serving

LEMMA Succeeding ==
    ASSUME NEW x \in InWork, NEW landed \in BOOLEAN
    PROVE  LET y == [x EXCEPT !.pc = "output", !.ran = TRUE, !.landed = landed]
           IN  y \in Serving /\ y.alone = x.alone /\ y.pc = "output"
<1>. DEFINE y == [x EXCEPT !.pc = "output", !.ran = TRUE, !.landed = landed]
<1>1. y \in InWork
  BY TRUE \in BOOLEAN DEF InWork, Underway
<1>2. y.alone = x.alone /\ y.pc = "output"
  BY DEF InWork
<1>. QED BY <1>1, <1>2 DEF Serving

LEMMA AnswerStep ==
    ASSUME RelayerInv, NEW t \in Slots, InService(t), NEW status \in Nat, Answer(t, status),
           UNCHANGED file
    PROVE  RelayerInv'
<1>. DEFINE x == Answered(serving[t].request, status, serving[t].ran, serving[t].landed)
<1>1. serving[t] \in InWork
  BY Moving DEF RelayerInv
<1>2. x \in Serving /\ x.pc = "answered"
  BY <1>1, Ending DEF InWork
<1>3. serving' = [serving EXCEPT ![t] = x]
  BY DEF Answer
<1>4. file' \in [Files -> Contents]
  BY DEF RelayerInv, RelayerTypeOK
<1>. HIDE DEF x
<1>. QED BY <1>2, <1>3, <1>4, SlotStep

LEMMA RelayerInitInv == RelayerInit => RelayerInv
<1>. SUFFICES ASSUME RelayerInit PROVE RelayerInv
  OBVIOUS
<1>1. \A t \in Slots : serving[t] = Free /\ ~InService(t)
  BY DEF RelayerInit, InService, Free
<1>2. RelayerTypeOK
  BY DEF RelayerInit, RelayerTypeOK, Serving, Contents
<1>. QED BY <1>1, <1>2 DEF RelayerInv, AloneExcludes, AloneIsFaithful, Alone

(***************************************************************************)
(* A new request: refused, or the only one that can be alone.              *)
(***************************************************************************)
LEMMA HandleInvokeStep ==
    ASSUME RelayerInv, NEW t \in Slots, NEW c \in Clients, NEW r \in Requested,
           HandleInvoke(t, c, r)
    PROVE  RelayerInv'
<1>0. /\ serving \in [Slots -> Serving] /\ AloneExcludes /\ AloneIsFaithful
      /\ UNCHANGED file /\ ~InService(t) /\ file \in [Files -> Contents]
  BY DEF RelayerInv, RelayerTypeOK, HandleInvoke
<1>1. ASSUME NEW status \in Nat, Refuse(t, r, status) PROVE RelayerInv'
  <2>. DEFINE x == Answered(r, status, FALSE, FALSE)
  <2>1. x \in Serving /\ x.pc = "answered"
    BY Ending
  <2>2. serving' = [serving EXCEPT ![t] = x]
    BY <1>1 DEF Refuse
  <2>. HIDE DEF x
  <2>3. serving' \in [Slots -> Serving] /\ serving'[t] = x
        /\ \A u \in Slots \ {t} : serving'[u] = serving[u]
    BY <1>0, <2>1, <2>2
  <2>4. ~InService(t)'
    BY <2>1, <2>3 DEF InService
  <2>5. AloneExcludes' /\ AloneIsFaithful'
    BY <1>0, <2>3, <2>4 DEF AloneExcludes, AloneIsFaithful, Alone, InService
  <2>. QED BY <1>0, <2>3, <2>5 DEF RelayerInv, RelayerTypeOK
<1>2. ASSUME Enter(t, r) PROVE RelayerInv'
  <2>. DEFINE first == \A v \in Slots \ {t} : ~InService(v)
              x == Entered(r, first)
  <2>1. /\ x \in Serving /\ x.pc = "arguments" /\ x.alone = first
    BY DEF Entered, Serving, InWork, Underway, Contents
  <2>2. serving'[t] = x
    BY <1>2, <1>0 DEF Enter
  <2>3. ASSUME NEW u \in Slots \ {t}
        PROVE  /\ serving'[u] \in Serving
               /\ InService(u)' <=> InService(u)
               /\ ~Alone(u)'
    <3>1. CASE InService(u)
      <4>1. serving'[u] = [serving[u] EXCEPT !.alone = FALSE]
        BY <1>2, <3>1 DEF Enter
      <4>2. serving[u] \in InWork
        BY <1>0, <3>1, ServingCases DEF InService
      <4>3. serving'[u] \in InWork /\ serving'[u].pc = serving[u].pc /\ ~serving'[u].alone
        BY <4>1, <4>2 DEF InWork
      <4>. QED BY <3>1, <4>3 DEF Serving, InService, Alone
    <3>2. CASE ~InService(u)
      <4>1. serving'[u] = serving[u]
        BY <1>2, <3>2 DEF Enter
      <4>. QED BY <1>0, <3>2, <4>1 DEF InService, Alone
    <3>. QED BY <3>1, <3>2
  <2>4. RelayerTypeOK'
    <3>1. DOMAIN serving' = Slots /\ serving' = [u \in Slots |-> serving'[u]]
      BY <1>2 DEF Enter
    <3>. QED BY <1>0, <2>1, <2>2, <2>3, <3>1 DEF RelayerTypeOK
  <2>5. Alone(t)' => \A u \in Slots \ {t} : ~InService(u)'
    <3>1. Alone(t)' => first
      BY <2>1, <2>2 DEF Alone
    <3>. QED BY <3>1, <2>3
  <2>6. AloneExcludes'
    BY <2>3, <2>5 DEF AloneExcludes
  <2>7. Faithful(x, file')
    BY <2>1 DEF Faithful
  <2>8. AloneIsFaithful'
    BY <2>2, <2>3, <2>7 DEF AloneIsFaithful
  <2>. QED BY <2>4, <2>6, <2>8 DEF RelayerInv
<1>. QED BY <1>1, <1>2 DEF HandleInvoke

(***************************************************************************)
(* The steps of a request in service, one by one.                          *)
(***************************************************************************)
LEMMA ServeStepKeeps ==
    ASSUME RelayerInv, NEW t \in Slots, ServeStep(t) PROVE RelayerInv'
<1>. DEFINE x == serving[t]
            r == x.request
            To(place) == [x EXCEPT !.pc = place]
<1>0. /\ serving \in [Slots -> Serving] /\ file \in [Files -> Contents]
      /\ Alone(t) => Faithful(x, file)
  BY DEF RelayerInv, RelayerTypeOK, AloneIsFaithful
<1>1. ASSUME NEW place \in Underway, Is(t, place)
      PROVE  /\ InService(t) /\ x \in InWork /\ r \in Requested
             /\ \A q \in Underway : To(q) \in InWork
             /\ x.alone => Faithful(x, file)
  <2>1. InService(t)
    BY <1>1 DEF Is, InService, Underway
  <2>. QED BY <2>1, <1>0, Moving DEF RelayerInv, Alone
\* A request that goes on with the same fields.
<1>2. ASSUME NEW place \in Underway, Is(t, place), NEW q \in Underway, Goes(t, q),
             file' \in [Files -> Contents],
             x.alone => Faithful(To(q), file')
      PROVE  RelayerInv'
  <2>1. To(q) \in InWork /\ InService(t) /\ x \in InWork
    BY <1>1, <1>2
  <2>2. To(q).alone = x.alone /\ To(q) \in Serving
    BY <2>1 DEF InWork, Serving
  <2>3. serving' = [serving EXCEPT ![t] = To(q)]
    BY <1>2, <1>0 DEF Goes
  <2>. HIDE DEF x
  <2>. QED BY <1>2, <2>1, <2>2, <2>3, SlotStep DEF x
<1>3. CASE Arguments(t)
  <2>1. Is(t, "arguments") /\ "arguments" \in Underway /\ UNCHANGED file
    BY <1>3 DEF Arguments, Underway
  <2>2. CASE Answer(t, 502)
    BY <2>1, <2>2, <1>1, AnswerStep
  <2>3. ASSUME NEW q \in {"proof", "send"}, Goes(t, q),
               q = "send" => r.function \notin ProofFunctions
        PROVE  RelayerInv'
    <3>1. Faithful(To(q), file')
      BY <2>1, <2>3, <1>1 DEF Faithful, InWork
    <3>. QED BY <2>1, <2>3, <3>1, <1>0, <1>2 DEF Underway
  <2>. QED BY <1>3, <2>2, <2>3 DEF Arguments
<1>4. CASE OpenProof(t)
  <2>1. Is(t, "proof") /\ "proof" \in Underway /\ "write_proof" \in Underway
    BY <1>4 DEF OpenProof, Underway
  <2>2. CASE Answer(t, 502) /\ UNCHANGED file
    BY <2>1, <2>2, <1>1, AnswerStep
  <2>3. CASE Truncate("proof") /\ Goes(t, "write_proof")
    <3>1. file' \in [Files -> Contents]
      BY <2>3, <1>0 DEF Truncate, Contents
    <3>2. Faithful(To("write_proof"), file')
      BY <2>1, <1>1 DEF Faithful, InWork
    <3>. QED BY <2>1, <2>3, <3>1, <3>2, <1>2
  <2>. QED BY <1>4, <2>2, <2>3 DEF OpenProof
<1>5. CASE WriteProof(t)
  <2>1. /\ Is(t, "write_proof") /\ "write_proof" \in Underway /\ "inputs" \in Underway
        /\ Goes(t, "inputs") /\ file' = [file EXCEPT !["proof"] = r.proof]
    BY <1>5 DEF WriteProof, Underway
  <2>2. file' \in [Files -> Contents] /\ file'["proof"] = r.proof
    BY <2>1, <1>0, <1>1 DEF Contents, Files
  <2>3. Faithful(To("inputs"), file')
    BY <2>1, <2>2, <1>1 DEF Faithful, InWork
  <2>. QED BY <2>1, <2>2, <2>3, <1>2
<1>6. InputsFile(r.function) \in Files \ {"proof"}
  BY DEF InputsFile, Files
<1>7. CASE OpenInputs(t)
  <2>1. Is(t, "inputs") /\ "inputs" \in Underway /\ "write_inputs" \in Underway
    BY <1>7 DEF OpenInputs, Underway
  <2>2. CASE Answer(t, 502) /\ UNCHANGED file
    BY <2>1, <2>2, <1>1, AnswerStep
  <2>3. CASE Truncate(InputsFile(r.function)) /\ Goes(t, "write_inputs")
    <3>1. file' \in [Files -> Contents] /\ file'["proof"] = file["proof"]
      BY <2>3, <1>0, <1>6 DEF Truncate, Contents
    <3>2. x.alone => Faithful(To("write_inputs"), file')
      BY <2>1, <3>1, <1>1 DEF Faithful, InWork, Is
    <3>. QED BY <2>1, <2>3, <3>1, <3>2, <1>2
  <2>. QED BY <1>7, <2>2, <2>3 DEF OpenInputs
<1>8. CASE WriteInputs(t)
  <2>1. /\ Is(t, "write_inputs") /\ "write_inputs" \in Underway /\ "read_proof" \in Underway
        /\ Goes(t, "read_proof") /\ file' = [file EXCEPT ![InputsFile(r.function)] = r.inputs]
    BY <1>8 DEF WriteInputs, Underway
  <2>2. /\ file' \in [Files -> Contents] /\ file'["proof"] = file["proof"]
        /\ file'[InputsFile(r.function)] = r.inputs
    BY <2>1, <1>0, <1>1, <1>6 DEF Contents
  <2>3. x.alone => Faithful(To("read_proof"), file')
    BY <2>1, <2>2, <1>1 DEF Faithful, InWork, Is
  <2>. QED BY <2>1, <2>2, <2>3, <1>2
<1>9. CASE ReadProof(t)
  <2>. DEFINE y == [x EXCEPT !.pc = "read_inputs", !.proof = file["proof"]]
  <2>1. Is(t, "read_proof") /\ "read_proof" \in Underway /\ UNCHANGED file
    BY <1>9 DEF ReadProof, Underway
  <2>2. serving' = [serving EXCEPT ![t] = y]
    BY <1>9, <1>0 DEF ReadProof
  <2>3. x \in InWork /\ InService(t) /\ file["proof"] \in Contents
    BY <2>1, <1>0, <1>1 DEF Files
  <2>4. /\ y \in Serving /\ y.alone = x.alone /\ y.request = r
        /\ y.pc = "read_inputs" /\ y.proof = file["proof"]
    BY <2>3 DEF InWork, Serving, Underway
  <2>5. x.alone => Faithful(y, file')
    BY <2>1, <2>4, <1>1 DEF Faithful, Is
  <2>. HIDE DEF y
  <2>. QED BY <2>1, <2>2, <2>3, <2>4, <2>5, <1>0, SlotStep
<1>10. CASE ReadInputs(t)
  <2>. DEFINE y == [x EXCEPT !.pc = "send", !.inputs = file[InputsFile(r.function)]]
  <2>1. Is(t, "read_inputs") /\ "read_inputs" \in Underway /\ UNCHANGED file
    BY <1>10 DEF ReadInputs, Underway
  <2>2. serving' = [serving EXCEPT ![t] = y]
    BY <1>10, <1>0 DEF ReadInputs
  <2>3. x \in InWork /\ InService(t) /\ file[InputsFile(r.function)] \in Contents
    BY <2>1, <1>0, <1>1, <1>6
  <2>4. /\ y \in Serving /\ y.alone = x.alone /\ y.request = r /\ y.proof = x.proof
        /\ y.pc = "send" /\ y.inputs = file[InputsFile(r.function)]
    BY <2>3 DEF InWork, Serving, Underway
  <2>5. x.alone => Faithful(y, file')
    BY <2>1, <2>4, <1>1 DEF Faithful, Is
  <2>. HIDE DEF y
  <2>. QED BY <2>1, <2>2, <2>3, <2>4, <2>5, <1>0, SlotStep
<1>11. CASE Succeeds(t)
  <2>. DEFINE landed == x.request.function \in Submitting
              y == [x EXCEPT !.pc = "output", !.ran = TRUE, !.landed = landed]
  <2>1. Is(t, "send") /\ "send" \in Underway /\ UNCHANGED file
    BY <1>11 DEF Succeeds, Underway
  <2>2. serving' = [serving EXCEPT ![t] = y]
    BY <1>11, <1>0 DEF Succeeds
  <2>3. x \in InWork /\ InService(t) /\ landed \in BOOLEAN
    BY <2>1, <1>1
  <2>4. y \in Serving /\ y.alone = x.alone /\ y.pc = "output"
    <3>. HIDE DEF landed, x
    <3>. QED BY <2>3, Succeeding
  <2>5. Faithful(y, file')
    BY <2>4 DEF Faithful
  <2>. HIDE DEF y
  <2>. QED BY <2>1, <2>2, <2>3, <2>4, <2>5, <1>0, SlotStep
<1>12. ASSUME NEW landed \in BOOLEAN, Fails(t, landed) PROVE RelayerInv'
  <2>. DEFINE y == Answered(r, 502, FALSE, landed)
  <2>1. Is(t, "send") /\ "send" \in Underway /\ UNCHANGED file
    BY <1>12 DEF Fails, Underway
  <2>2. InService(t) /\ r \in Requested
    BY <2>1, <1>1
  <2>3. y \in Serving /\ y.pc = "answered"
    <3>. DEFINE z == [pc |-> "answered", function |-> r.function, status |-> 502,
                      ran |-> FALSE, landed |-> landed]
    <3>1. z \in [pc : {"answered"}, function : {q.function : q \in Requested}, status : Nat,
                 ran : BOOLEAN, landed : BOOLEAN]
      <4>. HIDE DEF x
      <4>. QED BY <2>2
    <3>. QED BY <3>1 DEF Answered, Serving
  <2>4. serving' = [serving EXCEPT ![t] = y]
    BY <1>12 DEF Fails
  <2>. HIDE DEF y
  <2>. QED BY <2>1, <2>2, <2>3, <2>4, <1>0, SlotStep
<1>13. ASSUME NEW asExpected \in BOOLEAN, Respond(t, asExpected) PROVE RelayerInv'
  <2>1. Is(t, "output") /\ "output" \in Underway /\ UNCHANGED file
    BY <1>13 DEF Respond, Underway
  <2>2. PICK status \in Nat : Answer(t, status)
    BY <1>13 DEF Respond
  <2>. QED BY <2>1, <2>2, <1>1, AnswerStep
<1>. QED BY <1>3, <1>4, <1>5, <1>7, <1>8, <1>9, <1>10, <1>11, <1>12, <1>13, HandleInvokeStep
         DEF ServeStep

LEMMA RelayerStep == RelayerInv /\ [RelayerNext]_relayerVars => RelayerInv'
<1>. SUFFICES ASSUME RelayerInv, [RelayerNext]_relayerVars PROVE RelayerInv'
  OBVIOUS
<1>1. CASE RelayerRestart
  <2>1. UNCHANGED file /\ serving' = [t \in Slots |-> Free]
    BY <1>1 DEF RelayerRestart
  <2>2. \A t \in Slots : ~InService(t)'
    BY <2>1 DEF InService, Free
  <2>3. RelayerTypeOK'
    BY <2>1 DEF RelayerInv, RelayerTypeOK, Serving
  <2>. QED BY <2>2, <2>3 DEF RelayerInv, AloneExcludes, AloneIsFaithful, Alone
<1>2. CASE ClockTicks \/ UNCHANGED relayerVars
  <2>1. UNCHANGED file /\ UNCHANGED serving
    BY <1>2 DEF ClockTicks, relayerVars
  <2>2. \A t \in Slots : (Alone(t)' <=> Alone(t)) /\ (InService(t)' <=> InService(t))
    BY <2>1 DEF Alone, InService
  <2>3. RelayerTypeOK'
    BY <2>1 DEF RelayerInv, RelayerTypeOK
  <2>4. AloneExcludes'
    BY <2>2 DEF RelayerInv, AloneExcludes
  <2>5. AloneIsFaithful'
    BY <2>1, <2>2 DEF RelayerInv, AloneIsFaithful
  <2>. QED BY <2>3, <2>4, <2>5 DEF RelayerInv
<1>. QED BY <1>1, <1>2, ServeStepKeeps DEF RelayerNext

(***************************************************************************)
(* Requests, answers and files keep their types; a request is alone only   *)
(* if it is; and the files hold what a request that is alone wrote.        *)
(***************************************************************************)
THEOREM RelayerInvariant == RelayerSpec => []RelayerInv
BY RelayerInitInv, RelayerStep, PTL DEF RelayerSpec

(***************************************************************************)
(* A request that no other overlaps is sent with the proof and the public  *)
(* inputs it came with (handler.rs, add_proof_arg).                        *)
(***************************************************************************)
THEOREM AloneIsSentFaithfully == RelayerSpec => []AloneIsSentAsItCame
<1>1. RelayerInv => AloneIsSentAsItCame
  <2>. SUFFICES ASSUME RelayerInv, NEW t \in Slots, Is(t, "send"), serving[t].alone,
                       serving[t].request.function \in ProofFunctions
                PROVE  /\ serving[t].proof = serving[t].request.proof
                       /\ serving[t].inputs = serving[t].request.inputs
    BY DEF AloneIsSentAsItCame
  <2>1. Alone(t)
    BY DEF Alone, InService, Is
  <2>. QED BY <2>1 DEF RelayerInv, AloneIsFaithful, Faithful, Is
<1>. QED BY <1>1, RelayerInvariant, PTL

-------------------------------------------------------------------------------
(***************************************************************************)
(* SepKeys, for any tiers and keys, and any threshold and bump with        *)
(* KeyThreshold <= MinTtl and KeyThreshold <= KeyBump.                     *)
(***************************************************************************)

(***************************************************************************)
(* Where the key of a name is kept: two names, two slots.                  *)
(***************************************************************************)
SlotNamed(n) ==
    CASE n[1] = "Membership"   -> VK(n[2])
      [] n[1] = "Update"       -> UpdateVK(n[2])
      [] n[1] = "UpdateByType" -> UpdateVKByType(n[2], 2)
      [] n[1] = "AdminUpdate"  -> AdminUpdateVK

NoneGiven == [n \in Names |-> NoKey]

(***************************************************************************)
(* The inductive invariant.  The stored keys are the keys last accepted;   *)
(* bump_vks knows every slot that a key can be in; and until the threshold *)
(* of ledgers has gone by without a bump, no accepted key is missing, and  *)
(* no key and not the instance has less left than the rest of it.          *)
(***************************************************************************)
KeysTyped ==
    /\ Shaped(keys)
    /\ \A k \in DOMAIN keys : k \in Renewed /\ keys[k].ttl \in Nat \ {0}
    /\ instanceTtl \in Nat /\ unwatched \in Nat /\ rotations \in Nat
    /\ given = [n \in Names |-> given[n]]

StoredIsGiven ==
    \A n \in Names : Has(keys, SlotNamed(n)) => keys[SlotNamed(n)].v = given[n]

TimeLeft ==
    unwatched < KeyThreshold =>
        /\ \A k \in DOMAIN keys : keys[k].ttl + unwatched >= KeyThreshold
        /\ Alive \/ given # NoneGiven => instanceTtl + unwatched >= KeyThreshold
        /\ \A n \in Names : given[n] # NoKey => Has(keys, SlotNamed(n))

KeysInv == KeysTyped /\ StoredIsGiven /\ TimeLeft

-------------------------------------------------------------------------------

LEMMA KeyConstants ==
    /\ KeyThreshold \in Nat \ {0} /\ KeyBump \in Nat /\ MinTtl \in Nat \ {0}
    /\ KeyThreshold <= MinTtl /\ KeyThreshold <= KeyBump
BY KeysAssumption, LongMinTtl, MinTtlAssumption

LEMMA NameFacts ==
    /\ \A n \in Names : \/ n[1] \in {"Membership", "Update", "UpdateByType"} /\ n[2] \in KeyTiers
                        \/ n = <<"AdminUpdate", 0>>
    /\ \A t \in KeyTiers : /\ <<"Membership", t>> \in Names /\ <<"Update", t>> \in Names
                           /\ <<"UpdateByType", t>> \in Names
    /\ <<"AdminUpdate", 0>> \in Names
    /\ \A n \in Names : n = <<n[1], n[2]>>
BY DEF Names

LEMMA SlotFacts ==
    /\ \A n \in Names : SlotNamed(n) \in Renewed
    /\ \A n, m \in Names : SlotNamed(n) = SlotNamed(m) => n = m
<1>1. ASSUME NEW n \in Names
      PROVE  \/ n[1] = "Membership" /\ n[2] \in KeyTiers /\ SlotNamed(n) = <<"VK", n[2]>>
             \/ n[1] = "Update" /\ n[2] \in KeyTiers /\ SlotNamed(n) = <<"UpdateVK", n[2]>>
             \/ n[1] = "UpdateByType" /\ n[2] \in KeyTiers
                  /\ SlotNamed(n) = <<"UpdateVKByType", n[2], 2>>
             \/ n = <<"AdminUpdate", 0>> /\ SlotNamed(n) = <<"AdminUpdateVK">>
  BY NameFacts DEF SlotNamed, VK, UpdateVK, UpdateVKByType, AdminUpdateVK
<1>2. \A n \in Names : SlotNamed(n) \in Renewed
  BY <1>1 DEF Renewed, VK, UpdateVK, UpdateVKByType, AdminUpdateVK
<1>3. ASSUME NEW n \in Names, NEW m \in Names, SlotNamed(n) = SlotNamed(m)
      PROVE  n = m
  <2>1. n[1] = m[1] /\ n[2] = m[2]
    BY <1>1, <1>3
  <2>. QED BY <2>1, NameFacts
<1>. QED BY <1>2, <1>3

\* update_vk writes the slot of the name that it says it writes.
LEMMA RotatedSlot ==
    ASSUME NEW slotKind \in VkKinds, NEW tier,
           slotKind.kind # "AdminUpdate" => tier \in KeyTiers,
           slotKind.kind = "UpdateByType" => slotKind.gtype = 2
    PROVE  /\ NameOf(slotKind, tier) \in Names
           /\ SlotOf(slotKind, tier) = SlotNamed(NameOf(slotKind, tier))
<1>. DEFINE n == NameOf(slotKind, tier)
<1>1. slotKind.kind \in {"Membership", "Update", "AdminUpdate", "UpdateByType"}
  BY DEF VkKinds
<1>2. n[1] = slotKind.kind /\ n[2] = IF slotKind.kind = "AdminUpdate" THEN 0 ELSE tier
  BY DEF NameOf
<1>3. n \in Names
  BY <1>1, NameFacts DEF NameOf
<1>4. SlotOf(slotKind, tier) = SlotNamed(n)
  <2>. HIDE DEF n
  <2>. QED BY <1>1, <1>2 DEF SlotOf, SlotNamed
<1>. QED BY <1>3, <1>4

-------------------------------------------------------------------------------

LEMMA KeysInitInv == KeysInit => KeysInv
<1>. SUFFICES ASSUME KeysInit PROVE KeysInv
  OBVIOUS
<1>1. Shaped(keys) /\ DOMAIN keys = {}
  BY EmptyIsShaped DEF KeysInit, EmptyStorage
<1>2. /\ \A n \in Names : given[n] = NoKey
      /\ given = NoneGiven /\ given = [n \in Names |-> given[n]]
      /\ instanceTtl = 0 /\ unwatched = 0 /\ rotations = 0
  BY DEF KeysInit, NoneGiven
<1>. QED BY <1>1, <1>2 DEF KeysInv, KeysTyped, StoredIsGiven, TimeLeft, Has, Alive

(***************************************************************************)
(* Initialization writes both keys of every tier, and the names know.      *)
(***************************************************************************)
LEMMA InitializeStep == ASSUME KeysInv, DoInitialize PROVE KeysInv'
<1>. DEFINE held == {VK(t) : t \in KeyTiers} \cup {UpdateVK(t) : t \in KeyTiers}
            life == Extended(MinTtl, KeyThreshold, KeyBump)
<1>1. PICK vk \in [KeyTiers -> KeyData], updateVk \in [KeyTiers -> KeyData] :
        /\ keys' = [k \in held |-> [v |-> IF k[1] = "VK" THEN vk[k[2]] ELSE updateVk[k[2]],
                                    ttl |-> life]]
        /\ given' = [n \in Names |->
                        CASE n[1] = "Membership" -> vk[n[2]]
                          [] n[1] = "Update"     -> updateVk[n[2]]
                          [] OTHER               -> NoKey]
  BY DEF DoInitialize
<1>2. instanceTtl' = MinTtl /\ unwatched' = 0 /\ rotations' = rotations
  BY DEF DoInitialize
<1>3. life = MinTtl
  BY KeyConstants DEF Extended
<1>. HIDE DEF life
<1>. DEFINE val(k) == IF k[1] = "VK" THEN vk[k[2]] ELSE updateVk[k[2]]
<1>4. /\ DOMAIN keys' = held
      /\ \A k \in held : keys'[k] = [v |-> val(k), ttl |-> life]
  BY <1>1
<1>. HIDE DEF val
<1>5. /\ Shaped(keys')
      /\ \A k \in held : keys'[k].v = val(k) /\ keys'[k].ttl = MinTtl
  <2>1. keys' = [k \in held |-> [v |-> val(k), ttl |-> life]]
    BY <1>1 DEF val
  <2>. HIDE DEF held
  <2>2. \A k \in held : keys'[k].v = val(k) /\ keys'[k].ttl = life
    BY <2>1
  <2>3. \A k \in held : keys'[k] = [v |-> keys'[k].v, ttl |-> keys'[k].ttl]
    BY <2>1
  <2>4. keys' = [k \in DOMAIN keys' |-> keys'[k]]
    BY <2>1
  <2>. QED BY <1>3, <1>4, <2>2, <2>3, <2>4 DEF Shaped
<1>6. \A k \in held : k \in Renewed
  BY DEF Renewed
<1>7. \A n \in Names : /\ n[1] = "Membership" => given'[n] = vk[n[2]]
                       /\ n[1] = "Update" => given'[n] = updateVk[n[2]]
                       /\ n[1] \notin {"Membership", "Update"} => given'[n] = NoKey
  BY <1>1
<1>8. given' = [n \in Names |-> given'[n]]
  BY <1>1
<1>9. ASSUME NEW n \in Names
      PROVE  /\ SlotNamed(n) \in held <=> n[1] \in {"Membership", "Update"}
             /\ SlotNamed(n) \in held => val(SlotNamed(n)) = given'[n]
  <2>1. CASE n[1] = "Membership"
    <3>1. SlotNamed(n) = VK(n[2]) /\ n[2] \in KeyTiers
      BY <2>1, NameFacts DEF SlotNamed
    <3>. QED BY <1>7, <2>1, <3>1 DEF VK, val
  <2>2. CASE n[1] = "Update"
    <3>1. SlotNamed(n) = UpdateVK(n[2]) /\ n[2] \in KeyTiers
      BY <2>2, NameFacts DEF SlotNamed
    <3>. QED BY <1>7, <2>2, <3>1 DEF UpdateVK, val
  <2>3. CASE n[1] \notin {"Membership", "Update"}
    <3>1. SlotNamed(n)[1] \in {"UpdateVKByType", "AdminUpdateVK"}
      BY <2>3, NameFacts DEF SlotNamed, UpdateVKByType, AdminUpdateVK
    <3>2. \A k \in held : k[1] \in {"VK", "UpdateVK"}
      BY DEF VK, UpdateVK
    <3>. QED BY <2>3, <3>1, <3>2
  <2>. QED BY <2>1, <2>2, <2>3
<1>. HIDE DEF held
<1>10. KeysTyped'
  BY <1>2, <1>4, <1>5, <1>6, <1>8, KeyConstants DEF KeysTyped, KeysInv
<1>11. StoredIsGiven'
  BY <1>4, <1>5, <1>9 DEF StoredIsGiven, Has
<1>12. TimeLeft'
  <2>1. \A n \in Names : given'[n] # NoKey => Has(keys', SlotNamed(n))
    BY <1>4, <1>7, <1>9 DEF Has
  <2>2. \A k \in DOMAIN keys' : keys'[k].ttl + unwatched' >= KeyThreshold
    BY <1>2, <1>4, <1>5, KeyConstants
  <2>3. instanceTtl' + unwatched' >= KeyThreshold
    BY <1>2, KeyConstants
  <2>. QED BY <2>1, <2>2, <2>3 DEF TimeLeft
<1>. QED BY <1>10, <1>11, <1>12 DEF KeysInv

(***************************************************************************)
(* update_vk: the new key lives at least as long as the old one did.       *)
(***************************************************************************)
LEMMA ExtendedLonger ==
    ASSUME NEW ttl \in Nat
    PROVE  LET e == Extended(ttl, KeyThreshold, KeyBump)
           IN  e \in Nat /\ e >= ttl /\ e >= KeyThreshold
BY KeyConstants DEF Extended

LEMMA RotateStep ==
    ASSUME KeysInv, NEW slotKind \in VkKinds, NEW tier, NEW key, RotateVk(slotKind, tier, key)
    PROVE  KeysInv'
<1>. DEFINE k == SlotOf(slotKind, tier)
            n == NameOf(slotKind, tier)
            s == Set(keys, k, key)
<1>1. /\ Alive /\ keys' = ExtendIn(s, {k}, KeyThreshold, KeyBump)
      /\ given' = [given EXCEPT ![n] = key]
      /\ rotations' = rotations + 1
      /\ instanceTtl' = instanceTtl /\ unwatched' = unwatched
  BY DEF RotateVk, Install
<1>2. n \in Names /\ k = SlotNamed(n)
  BY RotatedSlot DEF RotateVk
<1>. HIDE DEF k, n
<1>3. /\ Shaped(s)
      /\ \A q : q \in DOMAIN s <=> q \in DOMAIN keys \/ q = k
      /\ s[k].v = key
      /\ s[k].ttl = IF k \in DOMAIN keys THEN keys[k].ttl ELSE MinTtl
      /\ \A q \in DOMAIN keys : q # k => s[q] = keys[q]
  BY SetFacts DEF KeysInv, KeysTyped
<1>. HIDE DEF s
<1>4. /\ Shaped(keys') /\ DOMAIN keys' = DOMAIN s
      /\ \A q \in DOMAIN s :
            /\ keys'[q].v = s[q].v
            /\ keys'[q].ttl = IF q \in {k} THEN Extended(s[q].ttl, KeyThreshold, KeyBump)
                              ELSE s[q].ttl
  BY <1>1, <1>3, ExtendFacts
<1>5. keys'[k].v = key /\ keys'[k].ttl \in Nat \ {0} /\ keys'[k].ttl >= KeyThreshold
  <2>1. s[k].ttl \in Nat
    BY <1>3, KeyConstants DEF KeysInv, KeysTyped
  <2>2. keys'[k].ttl = Extended(s[k].ttl, KeyThreshold, KeyBump) /\ keys'[k].v = key
    BY <1>3, <1>4
  <2>. QED BY <2>1, <2>2, ExtendedLonger, KeyConstants
<1>6. /\ \A q : q \in DOMAIN keys' <=> q \in DOMAIN keys \/ q = k
      /\ \A q \in DOMAIN keys : q # k =>
            keys'[q].v = keys[q].v /\ keys'[q].ttl = keys[q].ttl
  BY <1>3, <1>4
<1>7. given' = [m \in Names |-> given'[m]] /\ given'[n] = key
      /\ \A m \in Names : m # n => given'[m] = given[m]
  BY <1>1, <1>2 DEF KeysInv, KeysTyped
<1>8. KeysTyped'
  <2>1. k \in Renewed
    BY <1>2, SlotFacts
  <2>2. \A q \in DOMAIN keys' : q \in Renewed /\ keys'[q].ttl \in Nat \ {0}
    BY <1>5, <1>6, <2>1 DEF KeysInv, KeysTyped
  <2>3. instanceTtl' \in Nat /\ unwatched' \in Nat /\ rotations' \in Nat
    BY <1>1 DEF KeysInv, KeysTyped
  <2>. QED BY <1>4, <1>7, <2>2, <2>3 DEF KeysTyped
<1>9. \A m \in Names : SlotNamed(m) = k => m = n
  BY <1>2, SlotFacts
<1>10. StoredIsGiven'
  <2>. SUFFICES ASSUME NEW m \in Names, SlotNamed(m) \in DOMAIN keys'
                PROVE  keys'[SlotNamed(m)].v = given'[m]
    BY DEF StoredIsGiven, Has
  <2>1. CASE m = n
    BY <1>2, <1>5, <1>7, <2>1
  <2>2. CASE m # n
    <3>1. SlotNamed(m) # k /\ SlotNamed(m) \in DOMAIN keys
      BY <1>6, <1>9, <2>2
    <3>. QED BY <1>6, <1>7, <2>2, <3>1 DEF KeysInv, StoredIsGiven, Has
  <2>. QED BY <2>1, <2>2
<1>11. TimeLeft'
  <2>. SUFFICES ASSUME unwatched' < KeyThreshold
                PROVE  /\ \A q \in DOMAIN keys' : keys'[q].ttl + unwatched' >= KeyThreshold
                       /\ instanceTtl' + unwatched' >= KeyThreshold
                       /\ \A m \in Names : given'[m] # NoKey => Has(keys', SlotNamed(m))
    BY DEF TimeLeft
  <2>1. TimeLeft /\ unwatched < KeyThreshold /\ unwatched \in Nat
    BY <1>1 DEF KeysInv, KeysTyped
  <2>2. ASSUME NEW q \in DOMAIN keys'
        PROVE  keys'[q].ttl + unwatched' >= KeyThreshold
    <3>1. CASE q = k
      BY <1>1, <1>5, <2>1, <3>1, KeyConstants
    <3>2. CASE q # k
      <4>1. q \in DOMAIN keys /\ keys'[q].ttl = keys[q].ttl
        BY <1>6, <3>2
      <4>. QED BY <1>1, <2>1, <4>1 DEF TimeLeft
    <3>. QED BY <3>1, <3>2
  <2>3. instanceTtl' + unwatched' >= KeyThreshold
    BY <1>1, <2>1 DEF TimeLeft
  <2>4. \A m \in Names : given'[m] # NoKey => Has(keys', SlotNamed(m))
    BY <1>2, <1>6, <1>7, <2>1 DEF TimeLeft, Has
  <2>. QED BY <2>2, <2>3, <2>4
<1>. QED BY <1>8, <1>10, <1>11 DEF KeysInv

(***************************************************************************)
(* bump_vks: every key that can be there has the threshold again.          *)
(***************************************************************************)
LEMMA BumpStep == ASSUME KeysInv, BumpVks PROVE KeysInv'
<1>1. /\ Alive /\ keys' = ExtendIn(keys, Renewed, KeyThreshold, KeyBump)
      /\ instanceTtl' = Extended(instanceTtl, KeyThreshold, KeyBump)
      /\ unwatched' = IF unwatched < KeyThreshold THEN 0 ELSE unwatched
      /\ given' = given /\ rotations' = rotations
  BY DEF BumpVks
<1>2. /\ Shaped(keys') /\ DOMAIN keys' = DOMAIN keys
      /\ \A q \in DOMAIN keys :
            /\ keys'[q].v = keys[q].v
            /\ keys'[q].ttl = IF q \in Renewed THEN Extended(keys[q].ttl, KeyThreshold, KeyBump)
                              ELSE keys[q].ttl
  BY <1>1, ExtendFacts DEF KeysInv, KeysTyped
<1>3. \A q \in DOMAIN keys : /\ q \in Renewed
                             /\ keys'[q].ttl \in Nat \ {0} /\ keys'[q].ttl >= KeyThreshold
  BY <1>2, ExtendedLonger, KeyConstants DEF KeysInv, KeysTyped
<1>4. instanceTtl' \in Nat /\ instanceTtl' >= KeyThreshold
  BY <1>1, ExtendedLonger DEF KeysInv, KeysTyped
<1>5. KeysTyped'
  BY <1>1, <1>2, <1>3, <1>4 DEF KeysInv, KeysTyped
<1>6. StoredIsGiven'
  BY <1>1, <1>2 DEF KeysInv, StoredIsGiven, Has
<1>7. TimeLeft'
  <2>1. unwatched \in Nat /\ TimeLeft
    BY DEF KeysInv, KeysTyped
  <2>2. unwatched' \in Nat
    BY <1>1, <2>1
  <2>3. \A q \in DOMAIN keys' : keys'[q].ttl + unwatched' >= KeyThreshold
    BY <1>2, <1>3, <2>2, KeyConstants
  <2>4. instanceTtl' + unwatched' >= KeyThreshold
    <3>. DEFINE i == instanceTtl'
                u == unwatched'
    <3>1. i \in Nat /\ u \in Nat /\ i >= KeyThreshold
      BY <1>4, <2>2
    <3>. HIDE DEF i, u
    <3>2. i + u >= KeyThreshold
      BY <3>1, KeyConstants
    <3>. QED BY <3>2 DEF i, u
  <2>5. unwatched' < KeyThreshold => unwatched < KeyThreshold
    BY <1>1
  <2>. QED BY <1>1, <1>2, <2>1, <2>3, <2>4, <2>5 DEF TimeLeft, Has
<1>. QED BY <1>5, <1>6, <1>7 DEF KeysInv

(***************************************************************************)
(* A ledger passes: below the threshold nothing had only one ledger left.  *)
(***************************************************************************)
LEMMA LedgerStep == ASSUME KeysInv, LedgerPasses PROVE KeysInv'
<1>1. /\ Alive /\ keys' = Age(keys)
      /\ instanceTtl' = instanceTtl - 1
      /\ unwatched' = IF unwatched < KeyThreshold THEN unwatched + 1 ELSE unwatched
      /\ given' = given /\ rotations' = rotations
  BY DEF LedgerPasses
<1>2. /\ Shaped(keys')
      /\ \A q : q \in DOMAIN keys' <=> q \in DOMAIN keys /\ keys[q].ttl > 1
      /\ \A q \in DOMAIN keys' : keys'[q].v = keys[q].v /\ keys'[q].ttl = keys[q].ttl - 1
  <2>1. Shaped(keys) /\ \A q \in DOMAIN keys : keys[q].ttl \in Nat
    BY DEF KeysInv, KeysTyped
  <2>. QED BY <1>1, <2>1, AgeFacts
<1>3. /\ instanceTtl \in Nat \ {0} /\ unwatched \in Nat
      /\ \A q \in DOMAIN keys : keys[q].ttl \in Nat \ {0}
  BY <1>1 DEF KeysInv, KeysTyped, Alive
<1>4. KeysTyped'
  <2>1. \A q \in DOMAIN keys' : q \in Renewed /\ keys'[q].ttl \in Nat \ {0}
    BY <1>2, <1>3 DEF KeysInv, KeysTyped
  <2>2. instanceTtl' \in Nat /\ unwatched' \in Nat
    BY <1>1, <1>3
  <2>. QED BY <1>1, <1>2, <2>1, <2>2 DEF KeysInv, KeysTyped
<1>5. StoredIsGiven'
  BY <1>1, <1>2 DEF KeysInv, StoredIsGiven, Has
<1>6. TimeLeft'
  <2>. SUFFICES ASSUME unwatched' < KeyThreshold
                PROVE  /\ \A q \in DOMAIN keys' : keys'[q].ttl + unwatched' >= KeyThreshold
                       /\ instanceTtl' + unwatched' >= KeyThreshold
                       /\ \A n \in Names : given'[n] # NoKey => Has(keys', SlotNamed(n))
    BY DEF TimeLeft
  <2>1. unwatched' = unwatched + 1 /\ unwatched < KeyThreshold /\ unwatched + 1 < KeyThreshold
    BY <1>1
  <2>2. TimeLeft
    BY DEF KeysInv
  <2>3. \A q \in DOMAIN keys : keys[q].ttl + unwatched >= KeyThreshold
    BY <2>1, <2>2 DEF TimeLeft
  <2>4. \A q \in DOMAIN keys : keys[q].ttl > 1
    BY <1>3, <2>1, <2>3, KeyConstants
  <2>5. \A q \in DOMAIN keys' : keys'[q].ttl + unwatched' >= KeyThreshold
    BY <1>2, <1>3, <2>1, <2>3, KeyConstants
  <2>6. instanceTtl' + unwatched' >= KeyThreshold
    <3>1. instanceTtl + unwatched >= KeyThreshold
      BY <1>1, <2>1, <2>2 DEF TimeLeft
    <3>. QED BY <1>1, <1>3, <2>1, <3>1, KeyConstants
  <2>7. \A n \in Names : given'[n] # NoKey => Has(keys', SlotNamed(n))
    BY <1>1, <1>2, <2>1, <2>2, <2>4 DEF TimeLeft, Has
  <2>. QED BY <2>5, <2>6, <2>7
<1>. QED BY <1>4, <1>5, <1>6 DEF KeysInv

(***************************************************************************)
(* KeysInv holds for ever: the keys that are stored are the ones last      *)
(* accepted, and what is renewed in time stays.                            *)
(***************************************************************************)
THEOREM KeysInvariant == KeysSpec => []KeysInv
<1>1. KeysInv /\ [KeysNext]_keysVars => KeysInv'
  <2>. SUFFICES ASSUME KeysInv, [KeysNext]_keysVars PROVE KeysInv'
    OBVIOUS
  <2>1. CASE DoInitialize
    BY <2>1, InitializeStep
  <2>2. ASSUME NEW slotKind \in VkKinds, NEW t \in KeyTierArgs, NEW key \in KeyData,
               RotateVk(slotKind, t, key)
        PROVE  KeysInv'
    BY <2>2, RotateStep
  <2>3. CASE BumpVks
    BY <2>3, BumpStep
  <2>4. CASE LedgerPasses
    BY <2>4, LedgerStep
  <2>5. CASE UNCHANGED keysVars
    BY <2>5 DEF keysVars, KeysInv, KeysTyped, StoredIsGiven, TimeLeft, Alive
  <2>. QED BY <2>1, <2>2, <2>3, <2>4, <2>5 DEF KeysNext
<1>. QED BY <1>1, KeysInitInv, PTL DEF KeysSpec

(***************************************************************************)
(* WatchedKeysLive, for every threshold and bump: a proof is verified      *)
(* under the key last accepted for its statement, and one call of bump_vks *)
(* in less than LEDGER_THRESHOLD ledgers keeps every key and the admin.    *)
(***************************************************************************)
LEMMA LoadedFacts ==
    ASSUME NEW s \in DOMAIN KindOf, NEW t \in KeyTiers
    PROVE  /\ NameUnder(s, t) \in Names
           /\ Loaded(s, t) = Get(keys, SlotNamed(NameUnder(s, t)), NoKey)
<1>1. /\ s \in {"membership", "update", "democracy update", "admin update"}
      /\ s = "membership" => KindOf[s] = "Membership"
      /\ s = "update" => KindOf[s] = "Update"
      /\ s = "democracy update" => KindOf[s] = "UpdateByType"
      /\ s = "admin update" => KindOf[s] = "AdminUpdate"
  BY DEF KindOf
<1>2. NameUnder(s, t) \in Names
  BY <1>1, NameFacts DEF NameUnder
<1>3. /\ NameUnder(s, t)[1] = KindOf[s]
      /\ NameUnder(s, t)[2] = IF s = "admin update" THEN 0 ELSE t
  BY DEF NameUnder
<1>4. Loaded(s, t) = Get(keys, SlotNamed(NameUnder(s, t)), NoKey)
  BY <1>1, <1>3 DEF Loaded, SlotNamed
<1>. QED BY <1>2, <1>4

THEOREM WatchedKeysLiveAlways == KeysSpec => []WatchedKeysLive
<1>1. KeysInv => WatchedKeysLive
  <2>. SUFFICES ASSUME KeysInv PROVE WatchedKeysLive
    OBVIOUS
  <2>1. ASSUME NEW s \in DOMAIN KindOf, NEW t \in KeyTiers PROVE LatestOrNone(s, t)
    BY LoadedFacts DEF LatestOrNone, Get, KeysInv, StoredIsGiven
  <2>2. ASSUME Watched PROVE Alive
    <3>1. instanceTtl + unwatched >= KeyThreshold /\ unwatched < KeyThreshold
      BY <2>2 DEF Watched, KeysInv, TimeLeft, NoneGiven
    <3>. QED BY <3>1, KeyConstants DEF Alive, KeysInv, KeysTyped
  <2>3. ASSUME Watched, NEW s \in DOMAIN KindOf, NEW t \in KeyTiers,
               given[NameUnder(s, t)] # NoKey
        PROVE  Loaded(s, t) # NoKey
    <3>1. Has(keys, SlotNamed(NameUnder(s, t)))
      BY <2>3, LoadedFacts DEF Watched, KeysInv, TimeLeft
    <3>. QED BY <2>3, <3>1, LoadedFacts DEF Get, KeysInv, StoredIsGiven
  <2>. QED BY <2>1, <2>2, <2>3 DEF WatchedKeysLive
<1>. QED BY <1>1, KeysInvariant, PTL

-------------------------------------------------------------------------------
(***************************************************************************)
(* PushGateways, for any registrations, credentials' lives and delays.     *)
(* The storage key, once it is in its file, stays, and every row is sealed *)
(* under it; a cached credential that was issued promptly and is still     *)
(* used is valid for longer than a prompt request takes; and so is the one *)
(* that a request under way carries, less the time it has waited.          *)
(***************************************************************************)
KeyIsWritten == files["storage"] \in Nat

KeyFiles == {"keypair", "storage"}

Credentials == [left : Nat, valid : Nat, prompt : BOOLEAN]

\* A credential that is used again is valid for longer than a prompt request takes.
LastsARequest(c) ==
    /\ c \in Credentials
    /\ c.left > 0 /\ c.prompt => c.valid > Prompt /\ c.valid >= c.left + Prompt

Processes ==
    [at : {"down", "keypair", "storage", "up"}, writing : BOOLEAN,
     keypair : Nat \cup {NoFile}, storage : Nat \cup {NoFile}, clients : SUBSET Platforms]

ProcessFits ==
    /\ process \in Processes
    /\ process.at = "storage" /\ process.writing => files["storage"] = Short
    /\ process.at = "up" => KeyIsWritten /\ process.storage = files["storage"]

RowFits(s) ==
    table[s] # NoEntry =>
        /\ KeyIsWritten
        /\ table[s].platform \in Platforms
        /\ table[s].token.under = files["storage"] /\ table[s].token.text # Undeciphered
        /\ table[s].key.under = files["storage"] /\ table[s].key.text = s
        /\ table[s].platform = "android-up" => ValidateEndpointUrl(table[s].token.text)

JobFits(job) ==
    /\ job.sub \in Subs /\ job.platform \in Platforms
    /\ job.platform = "android-up" \/ CanBeRead(job.sub, job.payload)

\* A request under way, and its answer.
RequestFits ==
    /\ push = [job |-> push.job, stage |-> push.stage, waited |-> push.waited,
               credential |-> push.credential]
    /\ push.waited \in Nat /\ push.credential \in Credentials
    /\ push.stage = "exchanged" => /\ push.credential.left > 2 * Prompt
                                   /\ push.credential.valid + push.waited >= push.credential.left
    /\ push.stage = "posted" /\ push.job.platform # "android-up" /\ push.credential.prompt =>
           push.credential.valid + push.waited > Prompt

\* Unless something failed, the answer is one that the gateway gives for a valid
\* credential, or the request was late.
AnswerFits ==
    /\ push.lived \in BOOLEAN /\ push.failed \in BOOLEAN
    /\ ~push.failed => \E isValid \in BOOLEAN :
                          /\ push.answer \in Answers(push.job.platform, isValid, push.lived)
                          /\ isValid \/ push.late

PushFits ==
    push # NoPush =>
        /\ JobFits(push.job)
        /\ \/ push.stage \in {"exchange", "exchanged", "posted"} /\ RequestFits
           \/ push.stage = "answered" /\ AnswerFits

GatewaysInv ==
    /\ files \in [KeyFiles -> Nat \cup {NoFile, Short}] /\ runs \in Nat
    /\ ProcessFits
    /\ table = [s \in Subs |-> table[s]] /\ \A s \in Subs : RowFits(s)
    /\ LastsARequest(jwt) /\ LastsARequest(access)
    /\ PushFits
    /\ PushesReachTheDevice

LEMMA GatewaysInitHolds == GatewaysInit => GatewaysInv
PROOF
<1> SUFFICES ASSUME GatewaysInit PROVE GatewaysInv
    OBVIOUS
<1>1. files \in [KeyFiles -> Nat \cup {NoFile, Short}] /\ runs \in Nat
    BY DEF GatewaysInit, KeyFiles
<1>2. ProcessFits
    BY DEF GatewaysInit, ProcessFits, Processes, Stopped
<1>3. table = [s \in Subs |-> table[s]] /\ \A s \in Subs : RowFits(s)
    BY DEF GatewaysInit, RowFits
<1>4. LastsARequest(jwt) /\ LastsARequest(access)
    BY DEF GatewaysInit, NoCredential, LastsARequest, Credentials
<1> QED BY <1>1, <1>2, <1>3, <1>4 DEF GatewaysInit, GatewaysInv, PushFits, PushesReachTheDevice

\* The process starts, stops, and reads or writes its keys: rows stay readable,
\* because a key that is written is never written again.
LEMMA KeysOfTheProcessHold ==
    ASSUME GatewaysInv,
           \/ Start \/ Crash
           \/ \E kf \in KeyFiles : LoadKey(kf) \/ CreateKeyFile(kf) \/ WriteKeyFile(kf)
    PROVE  GatewaysInv'
PROOF
<1>1. UNCHANGED <<table, outcome>>
    BY DEF Start, Crash, LoadKey, CreateKeyFile, WriteKeyFile, store
<1>2. \/ UNCHANGED <<jwt, access, push>>
      \/ jwt' = NoCredential /\ access' = NoCredential /\ push' = NoPush
    BY DEF Start, Crash, LoadKey, CreateKeyFile, WriteKeyFile
<1>3. LastsARequest(jwt)' /\ LastsARequest(access)' /\ PushFits'
    <2>1. CASE UNCHANGED <<jwt, access, push>>
        BY <2>1 DEF GatewaysInv, LastsARequest, PushFits, RequestFits, AnswerFits
    <2>2. CASE jwt' = NoCredential /\ access' = NoCredential /\ push' = NoPush
        BY <2>2 DEF LastsARequest, NoCredential, Credentials, PushFits
    <2> QED BY <1>2, <2>1, <2>2
<1>4. PushesReachTheDevice'
    BY <1>1 DEF GatewaysInv, PushesReachTheDevice
<1> DEFINE
        Kept == /\ files' \in [KeyFiles -> Nat \cup {NoFile, Short}] /\ runs' \in Nat
                /\ ProcessFits'
                /\ KeyIsWritten => files'["storage"] = files["storage"]
<1>5. Stopped \in Processes /\ Stopped.at = "down"
    BY DEF Stopped, Processes
<1>6. ASSUME Start
      PROVE  Kept
    <2>1. process' \in Processes /\ process'.at = "keypair"
        BY <1>5, <1>6 DEF Start, Processes
    <2> QED BY <1>6, <2>1 DEF Start, store, GatewaysInv, ProcessFits
<1>7. ASSUME NEW kf \in KeyFiles, NEW key \in Nat, Proceed(kf, key), process.at = kf,
             runs' \in Nat, files' \in [KeyFiles -> Nat \cup {NoFile, Short}],
             KeyIsWritten => files'["storage"] = files["storage"],
             kf = "storage" => files'["storage"] = key
      PROVE  Kept
    <2>1. process \in Processes
        BY DEF GatewaysInv, ProcessFits
    <2>2. CASE kf = "keypair"
        <3>1. process' = [process EXCEPT !.keypair = key, !.at = "storage", !.writing = FALSE]
            BY <1>7, <2>2 DEF Proceed
        <3>2. process' \in Processes /\ process'.at = "storage" /\ ~process'.writing
            BY <2>1, <3>1 DEF Processes
        <3> QED BY <1>7, <3>2 DEF ProcessFits
    <2>3. CASE kf = "storage"
        <3>1. PICK apns \in ApnsClients, fcm \in FcmClients :
                process' = [process EXCEPT !.storage = key, !.at = "up", !.writing = FALSE,
                                           !.clients = apns \cup fcm]
            BY <1>7, <2>3 DEF Proceed
        <3>2. apns \cup fcm \in SUBSET Platforms
            BY DEF ApnsClients, FcmClients, Platforms
        <3>3. process' \in Processes /\ process'.at = "up" /\ process'.storage = key
            BY <2>1, <3>1, <3>2 DEF Processes
        <3> QED BY <1>7, <2>3, <3>3 DEF ProcessFits, KeyIsWritten
    <2> QED BY <2>2, <2>3 DEF KeyFiles
<1>8. ASSUME NEW kf \in KeyFiles, LoadKey(kf)
      PROVE  Kept
    <2>1. CASE files[kf] = Short
        BY <1>5, <1>8, <2>1 DEF LoadKey, store, GatewaysInv, ProcessFits
    <2>2. CASE files[kf] # Short
        <3>1. /\ process.at = kf /\ files[kf] \in Nat /\ UNCHANGED <<files, runs>>
              /\ Proceed(kf, files[kf]) /\ runs \in Nat
              /\ files \in [KeyFiles -> Nat \cup {NoFile, Short}]
            BY <1>8, <2>2 DEF LoadKey, store, GatewaysInv
        <3> QED BY <1>7, <3>1
    <2> QED BY <2>1, <2>2
<1>9. ASSUME NEW kf \in KeyFiles, CreateKeyFile(kf)
      PROVE  Kept
    <2>1. process' \in Processes /\ process'.at = kf
        BY <1>9 DEF CreateKeyFile, GatewaysInv, ProcessFits, Processes
    <2>2. /\ files' \in [KeyFiles -> Nat \cup {NoFile, Short}]
          /\ KeyIsWritten => files'["storage"] = files["storage"]
          /\ kf = "storage" => files'["storage"] = Short
        BY <1>9, NamesAreDistinct DEF CreateKeyFile, GatewaysInv, KeyIsWritten, KeyFiles
    <2> QED BY <1>9, <2>1, <2>2 DEF CreateKeyFile, GatewaysInv, ProcessFits, KeyFiles
<1>10. ASSUME NEW kf \in KeyFiles, WriteKeyFile(kf)
       PROVE  Kept
    <2>1. /\ files' = [files EXCEPT ![kf] = runs] /\ runs' = runs /\ Proceed(kf, runs)
          /\ process.at = kf /\ process.writing /\ runs \in Nat
        BY <1>10 DEF WriteKeyFile, GatewaysInv
    <2>2. kf = "storage" => files["storage"] = Short
        BY <2>1 DEF GatewaysInv, ProcessFits
    <2>3. /\ files' \in [KeyFiles -> Nat \cup {NoFile, Short}]
          /\ KeyIsWritten => files'["storage"] = files["storage"]
          /\ kf = "storage" => files'["storage"] = runs
        BY <2>1, <2>2, NamesAreDistinct DEF GatewaysInv, KeyFiles, KeyIsWritten
    <2> QED BY <1>7, <2>1, <2>3
<1>11. ASSUME Crash
       PROVE  Kept
    BY <1>5, <1>11 DEF Crash, store, GatewaysInv, ProcessFits
<1>12. Kept
    BY <1>6, <1>8, <1>9, <1>10, <1>11
<1> HIDE DEF Kept
<1>13. \A s \in Subs : RowFits(s)'
    <2>1. KeyIsWritten => files'["storage"] = files["storage"]
        BY <1>12 DEF Kept
    <2> QED BY <1>1, <2>1 DEF GatewaysInv, RowFits, KeyIsWritten
<1> QED BY <1>1, <1>3, <1>4, <1>12, <1>13 DEF GatewaysInv, Kept

LEMMA RegistrationsHold ==
    ASSUME GatewaysInv,
           \/ HandleInfo
           \/ \E s \in Subs : TokenLapses(s) \/ \E envelope \in Envelopes(s) :
                                                 HandleSubscription(s, envelope)
    PROVE  GatewaysInv'
PROOF
<1>1. UNCHANGED <<files, process, runs, jwt, access, push, outcome>>
    BY DEF HandleInfo, TokenLapses, HandleSubscription, store
<1>2. /\ files' \in [KeyFiles -> Nat \cup {NoFile, Short}] /\ runs' \in Nat /\ ProcessFits'
      /\ LastsARequest(jwt)' /\ LastsARequest(access)'
    BY <1>1 DEF GatewaysInv, ProcessFits, KeyIsWritten, LastsARequest
<1>3. PushFits' /\ PushesReachTheDevice'
    BY <1>1 DEF GatewaysInv, PushFits, RequestFits, AnswerFits, PushesReachTheDevice
<1>4. (table = [s \in Subs |-> table[s]])' /\ \A s \in Subs : RowFits(s)'
    <2>1. CASE UNCHANGED table
        BY <1>1, <2>1 DEF GatewaysInv, RowFits, KeyIsWritten
    <2>2. ASSUME NEW s \in Subs, NEW envelope \in Envelopes(s), HandleSubscription(s, envelope)
          PROVE  (table = [x \in Subs |-> table[x]])' /\ \A x \in Subs : RowFits(x)'
        <3> DEFINE body == DecryptRegistrationEnvelope(envelope, process.keypair)
                   row  == [platform |-> body.platform,
                            token    |-> EncryptForStorage(body.token, process.storage),
                            key      |-> EncryptForStorage(s, process.storage)]
        <3>1. process.at = "up" /\ body # Undeciphered /\ body.platform \in Platforms
              /\ (body.platform = "android-up" => ValidateEndpointUrl(body.token))
              /\ table' = [table EXCEPT ![s] = row]
            BY <2>2 DEF HandleSubscription
        <3>2. body = BodyOf[s]
            BY <3>1 DEF DecryptRegistrationEnvelope, Envelopes
        <3>3. KeyIsWritten /\ process.storage = files["storage"]
            BY <3>1 DEF GatewaysInv, ProcessFits
        <3>4. /\ row.platform \in Platforms
              /\ row.token.under = files["storage"] /\ row.token.text # Undeciphered
              /\ row.key.under = files["storage"] /\ row.key.text = s
              /\ row.platform = "android-up" => ValidateEndpointUrl(row.token.text)
            BY <3>1, <3>2, <3>3, NamesAreDistinct DEF EncryptForStorage
        <3> HIDE DEF row
        <3> QED BY <1>1, <3>1, <3>3, <3>4 DEF GatewaysInv, RowFits, KeyIsWritten
    <2> QED BY <2>1, <2>2 DEF HandleInfo, TokenLapses, store
<1> QED BY <1>2, <1>3, <1>4 DEF GatewaysInv

\* A row that stands opens, to what the device can read.
LEMMA JobOfARow ==
    ASSUME GatewaysInv, process.at = "up", NEW s \in Subs, table[s] # NoEntry,
           NEW eventId, NEW isLarge \in BOOLEAN
    PROVE  /\ JobFits(Job(s, eventId, isLarge))
           /\ Undeciphered \notin {Job(s, eventId, isLarge).key, Job(s, eventId, isLarge).token}
           /\ Job(s, eventId, isLarge).platform = "android-up" =>
                 ValidateEndpointUrl(Job(s, eventId, isLarge).token)
PROOF
<1>1. /\ table[s].platform \in Platforms
      /\ table[s].token.under = process.storage /\ table[s].token.text # Undeciphered
      /\ table[s].key.under = process.storage /\ table[s].key.text = s
      /\ table[s].platform = "android-up" => ValidateEndpointUrl(table[s].token.text)
    BY DEF GatewaysInv, RowFits, ProcessFits
<1> DEFINE sealed == EncryptNotification(s, eventId, isLarge)
<1>2. DecryptFromStorage(table[s].key, process.storage) = s
      /\ DecryptFromStorage(table[s].token, process.storage) # Undeciphered
      /\ DecryptFromStorage(table[s].token, process.storage) = table[s].token.text
    BY <1>1 DEF DecryptFromStorage
<1>3. CanBeRead(s, BuildPayload(sealed, eventId))
    BY DEF CanBeRead, BuildPayload, EncryptNotification
<1>4. /\ Job(s, eventId, isLarge).sub = s /\ Job(s, eventId, isLarge).platform = table[s].platform
      /\ Job(s, eventId, isLarge).key = s
      /\ Job(s, eventId, isLarge).token = DecryptFromStorage(table[s].token, process.storage)
      /\ table[s].platform # "android-up" =>
            Job(s, eventId, isLarge).payload = BuildPayload(sealed, eventId)
    BY <1>2 DEF Job
<1> QED BY <1>1, <1>2, <1>3, <1>4, NamesAreDistinct DEF JobFits

\* A request that sets out with a credential that lasts.
LEMMA PostedFits ==
    ASSUME NEW job, JobFits(job), NEW c \in Credentials,
           c.prompt => c.valid > Prompt \/ job.platform = "android-up",
           push' = Posted(job, c)
    PROVE  PushFits'
PROOF
<1>1. push' = [job |-> job, stage |-> "posted", waited |-> 0, credential |-> c]
    BY DEF Posted
<1>2. 0 \in Nat /\ (job.platform # "android-up" /\ c.prompt => c.valid + 0 > Prompt)
    BY GatewaysAssumption DEF Credentials
<1>3. RequestFits'
    BY <1>1, <1>2 DEF RequestFits
<1> QED BY <1>1, <1>3 DEF PushFits

LEMMA DispatchHolds ==
    ASSUME GatewaysInv, NEW s \in Subs, NEW eventId, NEW isLarge \in BOOLEAN,
           Dispatch(s, eventId, isLarge)
    PROVE  GatewaysInv'
PROOF
<1> DEFINE job == Job(s, eventId, isLarge)
<1>1. /\ process.at = "up" /\ table[s] # NoEntry /\ UNCHANGED <<files, process, runs>>
      /\ SkipRow(job) \/ SendApns(job) \/ SendFcm(job) \/ SendUnifiedPush(job)
    BY DEF Dispatch
<1>2. JobFits(job) /\ Undeciphered \notin {job.key, job.token}
      /\ (job.platform = "android-up" => ValidateEndpointUrl(job.token))
    BY <1>1, JobOfARow
<1> HIDE DEF job
<1>3. UNCHANGED <<table, access>> /\ outcome' = NoOutcome
    BY <1>1, <1>2 DEF SkipRow, SendApns, SendFcm, SendUnifiedPush
<1>4. jwt \in Credentials /\ access \in Credentials
    BY DEF GatewaysInv, LastsARequest
<1>5. LastsARequest(jwt)' /\ PushFits'
    <2>1. CASE SendApns(job)
        <3>1. jwt' = GenerateJwt /\ push' = Posted(job, jwt')
            BY <2>1 DEF SendApns
        <3>2. jwt' \in Credentials
              /\ (jwt'.prompt => jwt'.valid > Prompt /\ jwt'.valid >= jwt'.left + Prompt)
            BY <3>1, <1>4, GatewaysAssumption, PromptAssumption
               DEF GenerateJwt, GatewaysInv, LastsARequest, Credentials
        <3> QED BY <3>1, <3>2, <1>2, PostedFits DEF LastsARequest
    <2>2. CASE SendFcm(job)
        <3>1. CASE access.left > 0
            <4>1. access.prompt => access.valid > Prompt
                BY <3>1 DEF GatewaysInv, LastsARequest
            <4> QED BY <1>2, <1>4, <2>2, <3>1, <4>1, PostedFits DEF SendFcm, GatewaysInv, LastsARequest
        <3>2. CASE ~(access.left > 0)
            <4>1. push' = [job |-> job, stage |-> "exchange", waited |-> 0,
                           credential |-> NoCredential]
                BY <2>2, <3>2 DEF SendFcm
            <4>2. 0 \in Nat /\ NoCredential \in Credentials
                BY GatewaysAssumption DEF NoCredential, Credentials
            <4>3. RequestFits'
                BY <4>1, <4>2 DEF RequestFits
            <4> QED BY <1>2, <2>2, <4>1, <4>3 DEF SendFcm, PushFits, GatewaysInv, LastsARequest
        <3> QED BY <3>1, <3>2
    <2>3. CASE SendUnifiedPush(job)
        <3>1. NoCredential \in Credentials
            BY DEF NoCredential, Credentials
        <3> QED BY <1>2, <2>3, <3>1, PostedFits DEF SendUnifiedPush, GatewaysInv, LastsARequest
    <2> QED BY <1>1, <1>2, <2>1, <2>2, <2>3 DEF SkipRow
<1> QED BY <1>1, <1>3, <1>5 DEF GatewaysInv, ProcessFits, KeyIsWritten, RowFits, LastsARequest,
                                PushesReachTheDevice

\* What is left of the invariant when only the push, and what the relay keeps of
\* its credentials, changes.
LEMMA PushFrame ==
    ASSUME GatewaysInv, UNCHANGED <<files, process, runs, table, jwt, outcome>>,
           PushFits', LastsARequest(access)'
    PROVE  GatewaysInv'
BY DEF GatewaysInv, ProcessFits, KeyIsWritten, RowFits, LastsARequest, PushesReachTheDevice

LEMMA ExchangeHolds ==
    ASSUME GatewaysInv, (\E life \in FcmLives : ExchangeIssues(life)) \/ ExchangeAnswered
    PROVE  GatewaysInv'
PROOF
<1>1. UNCHANGED <<files, process, runs, table, jwt, outcome>>
    BY DEF ExchangeIssues, ExchangeAnswered, store
<1>2. push # NoPush /\ PushFits /\ JobFits(push.job)
    BY DEF ExchangeIssues, ExchangeAnswered, InStage, GatewaysInv, PushFits
<1>3. ASSUME NEW life \in FcmLives, ExchangeIssues(life)
      PROVE  PushFits' /\ LastsARequest(access)'
    <2>1. push.stage = "exchange" /\ RequestFits /\ access' = access
        BY <1>2, <1>3 DEF ExchangeIssues, InStage, PushFits
    <2>2. push' = [job |-> push.job, stage |-> "exchanged", waited |-> push.waited,
                   credential |-> [left |-> life, valid |-> life, prompt |-> TRUE]]
        BY <1>3, <2>1 DEF ExchangeIssues, RequestFits
    <2>3. life \in Nat /\ life > 2 * Prompt
        BY GatewaysAssumption, PromptAssumption
    <2>4. push.waited \in Nat /\ life + push.waited >= life
        BY <2>1, <2>3, GatewaysAssumption DEF RequestFits
    <2>5. RequestFits'
        BY <2>2, <2>3, <2>4 DEF RequestFits, Credentials
    <2> QED BY <1>2, <2>1, <2>2, <2>5 DEF PushFits, GatewaysInv, LastsARequest
<1>4. CASE ExchangeAnswered
    <2> DEFINE c == push.credential  w == push.waited
    <2>1. push.stage = "exchanged" /\ access' = LessMargin(c, w) /\ push' = Posted(push.job, access')
        BY <1>4 DEF ExchangeAnswered, InStage
    <2>2. /\ c \in Credentials /\ c.left > 2 * Prompt /\ c.valid + w >= c.left
          /\ w \in Nat
        BY <1>2, <2>1 DEF PushFits, RequestFits
    <2> HIDE DEF c, w
    <2>3. access' = [left |-> IF c.left > FcmMargin THEN c.left - FcmMargin ELSE 0,
                     valid |-> c.valid, prompt |-> w <= Prompt]
        BY <2>1 DEF LessMargin
    <2>4. c.left \in Nat /\ c.valid \in Nat
        BY <2>2 DEF Credentials
    <2> DEFINE left == c.left  valid == c.valid  prompt == (w <= Prompt)
    <2>5. /\ left \in Nat /\ valid \in Nat /\ left > 2 * Prompt /\ valid + w >= left
          /\ w \in Nat /\ prompt \in BOOLEAN /\ (prompt => w <= Prompt)
        BY <2>2, <2>4
    <2>6. access' = [left |-> IF left > FcmMargin THEN left - FcmMargin ELSE 0, valid |-> valid,
                     prompt |-> prompt]
        BY <2>3
    <2> HIDE DEF left, valid, prompt
    <2>7. /\ left > FcmMargin => left - FcmMargin \in Nat
          /\ prompt => /\ valid > Prompt
                       /\ left > FcmMargin => valid >= (left - FcmMargin) + Prompt
        BY <2>5, GatewaysAssumption, PromptAssumption
    <2>8. LastsARequest(access') /\ access' \in Credentials /\ (access'.prompt => access'.valid > Prompt)
        BY <2>5, <2>6, <2>7 DEF LastsARequest, Credentials
    <2>9. PushFits'
        BY <1>2, <2>1, <2>8, PostedFits
    <2> QED BY <1>1, <2>8, <2>9, PushFrame DEF LastsARequest
<1> QED BY <1>1, <1>3, <1>4, PushFrame

\* The gateway finds the credential of a prompt request valid, unless it, or
\* something before it, fails.
LEMMA DecisionHolds ==
    ASSUME GatewaysInv, GatewayDecides \/ GatewayErrs
    PROVE  GatewaysInv'
PROOF
<1> DEFINE lives == push.job.sub \in live  isValid == push.credential.valid > 0
<1>1. UNCHANGED <<files, process, runs, table, jwt, access, outcome>>
    BY DEF GatewayDecides, GatewayErrs, store
<1>2. push # NoPush /\ JobFits(push.job) /\ push.stage = "posted" /\ RequestFits
    BY DEF GatewayDecides, GatewayErrs, InStage, GatewaysInv, PushFits
<1>3. isValid \/ Late \/ push.job.platform = "android-up"
    <2>1. push.waited \in Nat /\ push.credential.valid \in Nat /\ Prompt \in Nat
        BY <1>2, PromptAssumption DEF RequestFits, Credentials
    <2>2. CASE push.credential.prompt /\ ~(push.waited > Prompt)
              /\ push.job.platform # "android-up"
        <3>1. push.credential.valid + push.waited > Prompt
            BY <1>2, <2>2 DEF RequestFits
        <3> QED BY <2>1, <2>2, <3>1
    <2> QED BY <2>2 DEF Late
<1>4. PICK answer, failed :
          /\ failed \in BOOLEAN
          /\ push' = [job |-> push.job, stage |-> "answered", answer |-> answer,
                      lived |-> lives, failed |-> failed, late |-> Late]
          /\ ~failed => answer \in Answers(push.job.platform, isValid, lives)
    <2>1. CASE GatewayDecides
        BY <2>1 DEF GatewayDecides, Answering
    <2>2. CASE GatewayErrs
        <3>1. PICK answer : Answering(answer, TRUE)
            BY <2>2 DEF GatewayErrs
        <3> QED BY <3>1 DEF Answering
    <2> QED BY <2>1, <2>2
<1>5. ~failed => \E valid \in BOOLEAN :
                    answer \in Answers(push.job.platform, valid, lives) /\ (valid \/ Late)
    <2>1. push.job.platform = "android-up" =>
              Answers(push.job.platform, isValid, lives) = Answers(push.job.platform, TRUE, lives)
        BY DEF Answers
    <2>2. isValid \in BOOLEAN
        OBVIOUS
    <2> HIDE DEF isValid, lives
    <2> QED BY <1>3, <1>4, <2>1, <2>2
<1>6. lives \in BOOLEAN
    OBVIOUS
<1> HIDE DEF lives, isValid
<1>7. PushFits'
    BY <1>2, <1>4, <1>5, <1>6 DEF PushFits, AnswerFits
<1> QED BY <1>1, <1>7, PushFrame DEF GatewaysInv, LastsARequest

\* What the end of a push needs of its result.
Deserved(job, verdict, lived, late) ==
    /\ verdict \in {"success", "gone", "error"}
    /\ verdict = "success" => lived /\ (job.platform = "android-up" \/ CanBeRead(job.sub, job.payload))
    /\ verdict = "gone" => ~lived
    /\ verdict = "error" => late \/ (job.platform = "ios" /\ ~lived)

LEMMA EndHolds ==
    ASSUME GatewaysInv, NEW job, NEW verdict, NEW lived, NEW failed, NEW late,
           End(job, verdict, lived, failed, late), failed \/ Deserved(job, verdict, lived, late),
           UNCHANGED <<files, process, runs, jwt, access>>
    PROVE  GatewaysInv'
PROOF
<1>1. ASSUME failed
      PROVE  PushesReachTheDevice'
    BY <1>1 DEF End, PushesReachTheDevice
<1>2. ASSUME ~failed
      PROVE  PushesReachTheDevice'
    <2>1. /\ outcome'.result = verdict /\ outcome'.lived = lived /\ outcome'.late = late
          /\ outcome'.platform = job.platform
          /\ outcome'.readable = (job.platform = "android-up" \/ CanBeRead(job.sub, job.payload))
        BY <1>2 DEF End
    <2> QED BY <1>2, <2>1 DEF PushesReachTheDevice, Deserved
<1>3. push' = NoPush /\ (table' = table \/ table' = [table EXCEPT ![job.sub] = NoEntry])
    BY DEF End
<1>4. (table = [s \in Subs |-> table[s]])' /\ \A s \in Subs : RowFits(s)'
    BY <1>3 DEF GatewaysInv, RowFits, KeyIsWritten
<1>5. PushesReachTheDevice'
    BY <1>1, <1>2
<1> QED BY <1>3, <1>4, <1>5 DEF GatewaysInv, ProcessFits, KeyIsWritten, LastsARequest, PushFits

LEMMA PushEndsHold ==
    ASSUME GatewaysInv, PushAnswered \/ PushFailsToArrive
    PROVE  GatewaysInv'
PROOF
<1>1. UNCHANGED <<files, process, runs, jwt, access>> /\ push # NoPush /\ JobFits(push.job)
    BY DEF PushAnswered, PushFailsToArrive, InStage, GatewaysInv, PushFits
<1>2. CASE PushFailsToArrive
    <2>1. End(push.job, "error", TRUE, TRUE, FALSE)
        BY <1>2 DEF PushFailsToArrive
    <2> QED BY <1>1, <2>1, EndHolds
<1>3. CASE PushAnswered
    <2> DEFINE verdict == ResultOf(push.job.platform, push.answer)
    <2>1. End(push.job, verdict, push.lived, push.failed, push.late) /\ AnswerFits
        BY <1>3 DEF PushAnswered, InStage, GatewaysInv, PushFits
    <2>2. push.job.platform \in Platforms
        BY <1>1 DEF JobFits
    <2>3. ASSUME ~push.failed
          PROVE  Deserved(push.job, verdict, push.lived, push.late)
        <3>1. PICK isValid \in BOOLEAN :
                  /\ push.answer \in Answers(push.job.platform, isValid, push.lived)
                  /\ isValid \/ push.late
            BY <2>1, <2>3 DEF AnswerFits
        <3>2. /\ verdict \in {"success", "gone", "error"}
              /\ verdict = "success" => push.lived
              /\ verdict = "gone" => ~push.lived
              /\ verdict = "error" => push.late \/ (push.job.platform = "ios" /\ ~push.lived)
            <4>1. CASE push.job.platform = "ios"
                <5>1. push.answer.status \in IF ~isValid THEN {403}
                                            ELSE IF push.lived THEN {200} ELSE {400, 410}
                    BY <4>1, <3>1 DEF Answers, Says
                <5>2. verdict = ApnsResult(push.answer)
                    BY <4>1 DEF ResultOf
                <5> QED BY <4>1, <5>1, <5>2, <3>1 DEF ApnsResult
            <4>2. CASE push.job.platform = "android-fcm"
                <5>1. /\ push.answer.status \in IF ~isValid THEN {401}
                                               ELSE IF push.lived THEN {200} ELSE {400, 404}
                      /\ push.answer.unregistered <=> isValid /\ ~push.lived
                    BY <4>2, <3>1 DEF Answers, Says
                <5>2. verdict = FcmResult(push.answer)
                    BY <4>2 DEF ResultOf
                <5> QED BY <5>1, <5>2, <3>1 DEF FcmResult
            <4>3. CASE push.job.platform = "android-up"
                <5>1. push.answer.status \in IF push.lived THEN {200, 202} ELSE {404, 410}
                    BY <4>3, <3>1 DEF Answers, Says
                <5>2. verdict = UpResult(push.answer)
                    BY <4>3 DEF ResultOf
                <5> QED BY <5>1, <5>2 DEF UpResult
            <4> QED BY <4>1, <4>2, <4>3, <2>2 DEF Platforms
        <3> HIDE DEF verdict
        <3> QED BY <1>1, <3>2 DEF Deserved, JobFits
    <2> HIDE DEF verdict
    <2> QED BY <1>1, <2>1, <2>3, EndHolds
<1> QED BY <1>2, <1>3

LEMMA AgedLasts ==
    ASSUME NEW c \in Credentials
    PROVE  /\ Aged(c) \in Credentials
           /\ Aged(c).valid + 1 >= c.valid
           /\ LastsARequest(c) => LastsARequest(Aged(c))
PROOF
<1> DEFINE left == c.left  valid == c.valid  prompt == c.prompt
<1>1. left \in Nat /\ valid \in Nat /\ prompt \in BOOLEAN
    BY DEF Credentials
<1>2. Aged(c) = [left |-> IF left > 0 THEN left - 1 ELSE 0,
                 valid |-> IF valid > 0 THEN valid - 1 ELSE 0, prompt |-> prompt]
    BY DEF Aged
<1>3. LastsARequest(c) => (left > 0 /\ prompt => valid > Prompt /\ valid >= left + Prompt)
    BY DEF LastsARequest
<1> HIDE DEF left, valid, prompt
<1>4. Aged(c) \in Credentials
    BY <1>1, <1>2 DEF Credentials
<1>5. Aged(c).valid + 1 >= valid
    BY <1>1, <1>2
<1>6. ASSUME LastsARequest(c), Aged(c).left > 0, Aged(c).prompt
      PROVE  Aged(c).valid > Prompt /\ Aged(c).valid >= Aged(c).left + Prompt
    <2>1. left > 0 /\ prompt
        BY <1>1, <1>2, <1>6
    <2>2. Aged(c).left = left - 1 /\ valid >= left + Prompt
        BY <1>2, <1>3, <1>6, <2>1
    <2>3. left - 1 > 0 /\ Prompt \in Nat
        BY <1>6, <2>2, PromptAssumption
    <2>4. Aged(c).valid = valid - 1
        BY <1>1, <1>2, <2>2, <2>3
    <2> QED BY <1>1, <2>2, <2>3, <2>4
<1> QED BY <1>4, <1>5, <1>6 DEF LastsARequest, left, valid, prompt

LEMMA TickHolds == GatewaysInv /\ Tick => GatewaysInv'
PROOF
<1> SUFFICES ASSUME GatewaysInv, Tick PROVE GatewaysInv'
    OBVIOUS
<1>1. UNCHANGED <<files, process, runs, table, outcome>> /\ jwt' = Aged(jwt) /\ access' = Aged(access)
    BY DEF Tick, store
<1>2. LastsARequest(jwt') /\ LastsARequest(access')
    BY <1>1, AgedLasts DEF GatewaysInv, LastsARequest
<1>3. PushFits'
    <2>1. CASE push' = push
        BY <2>1 DEF GatewaysInv, PushFits, RequestFits, AnswerFits
    <2>2. CASE push' # push
        <3> DEFINE c == push.credential  w == push.waited  v == Aged(c).valid
        <3>1. /\ push # NoPush /\ push.stage # "answered"
              /\ push' = [push EXCEPT !.waited = w + 1, !.credential.valid = v]
            BY <2>2 DEF Tick, InStage
        <3>2. JobFits(push.job) /\ push.stage \in {"exchange", "exchanged", "posted"} /\ RequestFits
            BY <3>1 DEF GatewaysInv, PushFits
        <3>3. /\ push = [job |-> push.job, stage |-> push.stage, waited |-> w, credential |-> c]
              /\ w \in Nat /\ c \in Credentials
            BY <3>2 DEF RequestFits
        <3>4. push' = [job |-> push.job, stage |-> push.stage, waited |-> w + 1,
                       credential |-> [left |-> c.left, valid |-> v, prompt |-> c.prompt]]
            <4>1. c = [left |-> c.left, valid |-> c.valid, prompt |-> c.prompt]
                BY <3>3 DEF Credentials
            <4> HIDE DEF v
            <4> QED BY <3>1, <3>3, <4>1
        <3>5. v \in Nat /\ v + 1 >= c.valid /\ c.left \in Nat /\ c.valid \in Nat /\ c.prompt \in BOOLEAN
            BY <3>3, AgedLasts DEF Credentials
        <3>6. /\ push.stage = "exchanged" => c.left > 2 * Prompt /\ c.valid + w >= c.left
              /\ push.stage = "posted" /\ push.job.platform # "android-up" /\ c.prompt => c.valid + w > Prompt
            BY <3>2 DEF RequestFits
        <3> DEFINE left == c.left  valid == c.valid  prompt == c.prompt
        <3>7. /\ v \in Nat /\ left \in Nat /\ valid \in Nat /\ v + 1 >= valid /\ w \in Nat
              /\ prompt \in BOOLEAN
            BY <3>1, <3>3, <3>5
        <3> HIDE DEF c, w, v, left, valid, prompt
        <3>8. /\ w + 1 \in Nat
              /\ valid + w >= left => v + (w + 1) >= left
              /\ valid + w > Prompt => v + (w + 1) > Prompt
            BY <3>7, PromptAssumption
        <3>9. RequestFits'
            BY <3>4, <3>5, <3>6, <3>8 DEF RequestFits, Credentials, left, valid, prompt
        <3> QED BY <3>2, <3>4, <3>9 DEF PushFits
    <2> QED BY <2>1, <2>2
<1> QED BY <1>1, <1>2, <1>3 DEF GatewaysInv, ProcessFits, KeyIsWritten, RowFits,
                                PushesReachTheDevice

LEMMA GatewaysStepHolds == GatewaysInv /\ [GatewaysNext]_gatewayVars => GatewaysInv'
PROOF
<1> SUFFICES ASSUME GatewaysInv, [GatewaysNext]_gatewayVars PROVE GatewaysInv'
    OBVIOUS
<1>1. CASE \/ Start \/ Crash
           \/ \E kf \in KeyFiles : LoadKey(kf) \/ CreateKeyFile(kf) \/ WriteKeyFile(kf)
    BY <1>1, KeysOfTheProcessHold
<1>2. CASE \/ HandleInfo
           \/ \E s \in Subs : TokenLapses(s) \/ \E envelope \in Envelopes(s) :
                                                 HandleSubscription(s, envelope)
    BY <1>2, RegistrationsHold
<1>3. ASSUME NEW s \in Subs, NEW eventId \in {"e"}, NEW isLarge \in BOOLEAN,
             Dispatch(s, eventId, isLarge)
      PROVE  GatewaysInv'
    BY <1>3, DispatchHolds
<1>4. CASE (\E life \in FcmLives : ExchangeIssues(life)) \/ ExchangeAnswered
    BY <1>4, ExchangeHolds
<1>5. CASE GatewayDecides \/ GatewayErrs
    BY <1>5, DecisionHolds
<1>6. CASE PushAnswered \/ PushFailsToArrive
    BY <1>6, PushEndsHold
<1>7. CASE Tick
    BY <1>7, TickHolds
<1>8. CASE UNCHANGED gatewayVars
    <2>1. UNCHANGED <<files, process, runs, table, jwt, access, push, outcome>>
        BY <1>8 DEF gatewayVars, store
    <2>2. PushFits' /\ LastsARequest(access)'
        BY <2>1 DEF GatewaysInv, PushFits, RequestFits, AnswerFits, LastsARequest
    <2> QED BY <2>1, <2>2, PushFrame
<1> QED BY <1>1, <1>2, <1>3, <1>4, <1>5, <1>6, <1>7, <1>8 DEF GatewaysNext, KeyFiles

\* The storage key outlives every restart and opens every row, and the credential
\* that a prompt request carries is valid until the request is decided.
THEOREM GatewaysInvariant == GatewaysSpec => []GatewaysInv
PROOF
<1> QED BY GatewaysInitHolds, GatewaysStepHolds, PTL DEF GatewaysSpec

\* When neither the network nor a gateway fails, a push ends by what its device's
\* token deserves: no restart, cached credential or encrypted row costs a live device
\* its notification, unless the request was not prompt (main.rs, generate_jwt,
\* refresh_access_token and the three send_push).
THEOREM PushesReachTheDeviceAlways == GatewaysSpec => []PushesReachTheDevice
PROOF
<1>1. GatewaysInv => PushesReachTheDevice
    BY DEF GatewaysInv
<1> QED BY <1>1, GatewaysInvariant, PTL

(***************************************************************************)
(* The C binding and its caller, for any requests, arguments and null      *)
(* output pointers: every buffer handed out is freed, and freed once.      *)
(*                                                                         *)
(* A call hands out buffers 1, 2, ... in that order, and what is on the    *)
(* heap is known at every point of it: while the call runs and after it    *)
(* was refused, what the outputs point at; after it returned, what the     *)
(* caller has not copied yet; and between two calls nothing.               *)
(***************************************************************************)
SlotsWellFormed ==
    /\ slots \in Seq(Nat)
    /\ \A i \in DOMAIN slots : slots[i] \in {0, i}

RunningCall ==
    /\ ~message /\ taken = << >>
    /\ DOMAIN heap = Written
    /\ \E k \in 0 .. Len(slots) : Written = 1 .. k

ReturnedCall ==
    /\ ~message
    /\ Written = DOMAIN slots
    /\ Len(taken) \in 0 .. Len(slots)
    /\ DOMAIN heap = (Len(taken) + 1) .. Len(slots)

TakenIsASequence == pc \in {"running", "returned"} => \E S : taken \in Seq(S)

BindingsInv ==
    /\ pc \in {"idle", "running", "returned", "refused", "answered"}
    /\ ~damaged /\ message \in BOOLEAN
    /\ SlotsWellFormed /\ TakenIsASequence
    /\ pc = "running" => RunningCall
    /\ pc = "returned" => ReturnedCall
    /\ pc = "refused" => DOMAIN heap = Written
    /\ pc \in {"idle", "answered"} => DOMAIN heap = {} /\ ~message

(***************************************************************************)
(* What every C function writes is numbered from one on.                   *)
(***************************************************************************)
Numbered(answer) == \E n \in Nat : DOMAIN answer.out = 1 .. n

LEMMA AnswersAreNumbered ==
    ASSUME NEW reads, NEW a, NEW b, NEW c
    PROVE  /\ Numbered(AnswerIf(reads, << >>))
           /\ Numbered(AnswerIf(reads, <<a>>))
           /\ Numbered(AnswerIf(reads, <<a, b>>))
           /\ Numbered(AnswerIf(reads, <<a, b, c>>))
           /\ Numbered(Gives(<<a>>))
<1>1. /\ DOMAIN << >> = 1 .. 0
      /\ DOMAIN <<a>> = 1 .. 1
      /\ DOMAIN <<a, b>> = 1 .. 2
      /\ DOMAIN <<a, b, c>> = 1 .. 3
  OBVIOUS
<1>2. /\ AnswerIf(reads, << >>).out = << >>
      /\ AnswerIf(reads, <<a>>).out \in {<< >>, <<a>>}
      /\ AnswerIf(reads, <<a, b>>).out \in {<< >>, <<a, b>>}
      /\ AnswerIf(reads, <<a, b, c>>).out \in {<< >>, <<a, b, c>>}
      /\ Gives(<<a>>).out = <<a>>
  BY DEF AnswerIf, Gives, Refused
<1> QED  BY <1>1, <1>2 DEF Numbered

LEMMA EveryCallIsNumbered ==
    ASSUME NEW r \in Asked
    PROVE  Numbered(COf(r))
<1>1. r.f \in {"leafHash", "publicKey", "merkleRoot", "nostrKey", "nostrSign", "nostrVerify",
               "contractFormat", "sha256Commitment", "poseidonCommitment", "testingKey",
               "testingUpdateKey", "membershipProof", "updateProof", "parse"}
  BY AskedAssumption
<1>2. CASE r.f = "leafHash"
  <2>1. COf(r) = SepComputeLeafHash(r)  BY <1>2 DEF COf
  <2> QED  BY <2>1, AnswersAreNumbered DEF SepComputeLeafHash
<1>3. CASE r.f = "publicKey"
  <2>1. COf(r) = SepComputePublicKey(r)  BY <1>3 DEF COf
  <2> QED  BY <2>1, AnswersAreNumbered DEF SepComputePublicKey
<1>4. CASE r.f = "merkleRoot"
  <2>1. COf(r) = SepComputeMerkleRoot(r)  BY <1>4 DEF COf
  <2> QED  BY <2>1, AnswersAreNumbered DEF SepComputeMerkleRoot
<1>5. CASE r.f = "nostrKey"
  <2>1. COf(r) = SepNostrDerivePublicKey(r)  BY <1>5 DEF COf
  <2> QED  BY <2>1, AnswersAreNumbered DEF SepNostrDerivePublicKey
<1>6. CASE r.f = "nostrSign"
  <2>1. COf(r) = SepNostrSignEventId(r)  BY <1>6 DEF COf
  <2> QED  BY <2>1, AnswersAreNumbered DEF SepNostrSignEventId
<1>7. CASE r.f = "nostrVerify"
  <2>1. COf(r) = SepNostrVerifyEventSignature(r)  BY <1>7 DEF COf
  <2> QED  BY <2>1, AnswersAreNumbered DEF SepNostrVerifyEventSignature
<1>8. CASE r.f = "contractFormat"
  <2>1. COf(r) = SepProofToContractFormat(r)  BY <1>8 DEF COf
  <2> QED  BY <2>1, AnswersAreNumbered DEF SepProofToContractFormat, ContractFormat
<1>9. CASE r.f = "sha256Commitment"
  <2>1. COf(r) = SepComputeSha256Commitment(r)  BY <1>9 DEF COf
  <2> QED  BY <2>1, AnswersAreNumbered DEF SepComputeSha256Commitment
<1>10. CASE r.f = "poseidonCommitment"
  <2>1. COf(r) = SepComputePoseidonCommitment(r)  BY <1>10 DEF COf
  <2> QED  BY <2>1, AnswersAreNumbered DEF SepComputePoseidonCommitment
<1>11. CASE r.f = "testingKey"
  <2>1. COf(r) = SepGenerateTestingProvingKey(r)  BY <1>11 DEF COf
  <2> QED  BY <2>1, AnswersAreNumbered DEF SepGenerateTestingProvingKey
<1>12. CASE r.f = "testingUpdateKey"
  <2>1. COf(r) = SepGenerateTestingUpdateProvingKey(r)  BY <1>12 DEF COf
  <2> QED  BY <2>1, AnswersAreNumbered DEF SepGenerateTestingUpdateProvingKey
<1>13. CASE r.f = "membershipProof"
  <2>1. COf(r) = SepGenerateMembershipProof(r)  BY <1>13 DEF COf
  <2> QED  BY <2>1, AnswersAreNumbered DEF SepGenerateMembershipProof
<1>14. CASE r.f = "updateProof"
  <2>1. COf(r) = SepGenerateUpdateProof(r)  BY <1>14 DEF COf
  <2> QED  BY <2>1, AnswersAreNumbered DEF SepGenerateUpdateProof
<1>15. CASE r.f = "parse"
  <2>1. COf(r) = SepParseUpdatePublicInputs(r)  BY <1>15 DEF COf
  <2> QED  BY <2>1, AnswersAreNumbered DEF SepParseUpdatePublicInputs
<1> QED
  BY <1>1, <1>2, <1>3, <1>4, <1>5, <1>6, <1>7, <1>8, <1>9, <1>10, <1>11, <1>12, <1>13, <1>14,
     <1>15

(***************************************************************************)
(* The heap with one more buffer, and with one less.                       *)
(***************************************************************************)
LEMMA HeapGrows ==
    ASSUME NEW i, BufferFromVec(i)
    PROVE  DOMAIN heap' = DOMAIN heap \cup {i}
BY DEF BufferFromVec

LEMMA HeapShrinks ==
    ASSUME NEW handle, handle \in DOMAIN heap, ~damaged, FreeBuffer(handle)
    PROVE  /\ ~damaged'
           /\ DOMAIN heap' = DOMAIN heap \ {handle}
BY DEF FreeBuffer

(***************************************************************************)
(* The outputs written are the first ones, so that their number says which *)
(* one is next.                                                            *)
(***************************************************************************)
LEMMA NextOutput ==
    ASSUME SlotsWellFormed, Written # DOMAIN slots,
           NEW k \in Nat, k <= Len(slots), Written = 1 .. k
    PROVE  /\ Cardinality(Written) + 1 = k + 1
           /\ k + 1 \in DOMAIN slots
           /\ k + 1 \in 1 .. Len(slots)
<1>1. Len(slots) \in Nat /\ DOMAIN slots = 1 .. Len(slots)  BY DEF SlotsWellFormed
<1>2. Cardinality(1 .. k) = k
  <2>1. 1 \in Int /\ k \in Int  OBVIOUS
  <2>2. Cardinality(1 .. k) = IF 1 > k THEN 0 ELSE k - 1 + 1  BY ONLY <2>1, FS_Interval, Zenon
  <2> QED  BY <2>2
<1>3. k # Len(slots)  BY <1>1
<1>4. k + 1 \in 1 .. Len(slots)
  <2>1. PICK n \in Nat : n = Len(slots)  BY <1>1
  <2>2. k \in Nat /\ k <= n /\ k # n  BY <1>3, <2>1
  <2>3. k + 1 \in 1 .. n  BY ONLY <2>2, n \in Nat
  <2> QED  BY <2>1, <2>3
<1>5. Cardinality(Written) = k  BY <1>2, Zenon
<1> QED  BY <1>1, <1>4, <1>5

LEMMA OutputIsWritten ==
    ASSUME SlotsWellFormed, NEW i \in DOMAIN slots, slots' = [slots EXCEPT ![i] = i]
    PROVE  /\ SlotsWellFormed'
           /\ Len(slots') = Len(slots)
           /\ Written' = Written \cup {i}
<1>1. Len(slots) \in Nat /\ DOMAIN slots = 1 .. Len(slots) /\ i \in Nat  BY DEF SlotsWellFormed
<1>2. slots' \in Seq(Nat) /\ DOMAIN slots' = DOMAIN slots  BY <1>1 DEF SlotsWellFormed
<1>3. \A j \in DOMAIN slots : slots'[j] = IF j = i THEN i ELSE slots[j]  OBVIOUS
<1> QED  BY <1>1, <1>2, <1>3 DEF SlotsWellFormed, Written

LEMMA OutputIsCleared ==
    ASSUME SlotsWellFormed, NEW i \in DOMAIN slots, slots' = [slots EXCEPT ![i] = 0]
    PROVE  /\ SlotsWellFormed'
           /\ Written' = Written \ {i}
<1>1. Len(slots) \in Nat /\ DOMAIN slots = 1 .. Len(slots) /\ i \in Nat  BY DEF SlotsWellFormed
<1>2. slots' \in Seq(Nat) /\ DOMAIN slots' = DOMAIN slots  BY <1>1 DEF SlotsWellFormed
<1>3. \A j \in DOMAIN slots : slots'[j] = IF j = i THEN 0 ELSE slots[j]  OBVIOUS
<1> QED  BY <1>1, <1>2, <1>3 DEF SlotsWellFormed, Written

LEMMA BindingsInitHolds == BindingsInit => BindingsInv
<1> SUFFICES ASSUME BindingsInit PROVE BindingsInv  OBVIOUS
<1> USE DEF BindingsInit
<1>1. DOMAIN << >> = {}  OBVIOUS
<1>2. << >> \in Seq(Nat)  OBVIOUS
<1>3. SlotsWellFormed  BY <1>1, <1>2 DEF SlotsWellFormed
<1>4. TakenIsASequence  BY DEF TakenIsASequence
<1> QED  BY <1>1, <1>3, <1>4 DEF BindingsInv

LEMMA BindingsStep == BindingsInv /\ [BindingsNext]_bindingVars => BindingsInv'
<1> SUFFICES ASSUME BindingsInv, [BindingsNext]_bindingVars PROVE BindingsInv'  OBVIOUS
<1>1. SlotsWellFormed /\ Len(slots) \in Nat /\ DOMAIN slots = 1 .. Len(slots)
  BY DEF BindingsInv, SlotsWellFormed
<1>2. ASSUME Ask PROVE BindingsInv'
  <2>1. PICK r \in Asked : slots' = [i \in DOMAIN COf(r).out |-> 0]  BY <1>2 DEF Ask
  <2>2. PICK n \in Nat : DOMAIN COf(r).out = 1 .. n  BY EveryCallIsNumbered DEF Numbered
  <2>3. slots' = [i \in 1 .. n |-> 0]  BY <2>1, <2>2
  <2>4. slots' \in Seq(Nat) /\ Len(slots') = n /\ DOMAIN slots' = 1 .. n  BY <2>3
  <2>5. SlotsWellFormed'  BY <2>3, <2>4 DEF SlotsWellFormed
  <2>6. Written' = {}  BY <2>3, <2>4 DEF Written
  <2>7. RunningCall'
    <3>1. ~message' /\ taken' = << >> /\ DOMAIN heap' = {}  BY <1>2 DEF Ask, BindingsInv
    <3>2. Written' = 1 .. 0 /\ 0 \in 0 .. Len(slots')  BY <2>4, <2>6
    <3> QED  BY <2>6, <3>1, <3>2 DEF RunningCall
  <2>8. << >> \in Seq({})  OBVIOUS
  <2> QED  BY <1>2, <2>5, <2>7, <2>8 DEF BindingsInv, Ask, TakenIsASequence
<1>3. ASSUME RefuseCall PROVE BindingsInv'
  <2>1. UNCHANGED <<slots, heap, damaged, taken>> /\ pc' = "refused" /\ message' \in BOOLEAN
    BY <1>3 DEF RefuseCall, WriteError
  <2>2. Written' = Written /\ SlotsWellFormed'  BY <1>1, <2>1 DEF Written, SlotsWellFormed
  <2>3. DOMAIN heap = Written  BY <1>3 DEF BindingsInv, RunningCall, RefuseCall
  <2> QED  BY <2>1, <2>2, <2>3 DEF BindingsInv, TakenIsASequence
<1>4. ASSUME WriteBuffer PROVE BindingsInv'
  <2>1. RunningCall /\ Written # DOMAIN slots  BY <1>4 DEF WriteBuffer, BindingsInv
  <2>2. PICK k \in Nat : k <= Len(slots) /\ Written = 1 .. k
    <3>1. PICK n \in Nat : n = Len(slots)  BY <1>1
    <3>2. \E k \in 0 .. n : Written = 1 .. k  BY <2>1, <3>1 DEF RunningCall
    <3>3. \A k \in 0 .. n : k \in Nat /\ k <= n  OBVIOUS
    <3> QED  BY <3>1, <3>2, <3>3
  <2>3. /\ Cardinality(Written) + 1 = k + 1 /\ k + 1 \in DOMAIN slots
        /\ k + 1 \in 1 .. Len(slots)
    BY <1>1, <2>1, <2>2, NextOutput
  <2>4. UNCHANGED <<damaged, taken>>  BY <1>4 DEF WriteBuffer
  <2>5. CASE k + 1 \in nulls
    <3>1. UNCHANGED <<slots, heap>> /\ pc' = "refused" /\ message' \in BOOLEAN
      BY <1>4, <2>3, <2>5 DEF WriteBuffer, WriteError
    <3>2. Written' = Written /\ SlotsWellFormed'  BY <1>1, <3>1 DEF Written, SlotsWellFormed
    <3>3. DOMAIN heap' = Written'  BY <2>1, <3>1, <3>2 DEF RunningCall
    <3> QED  BY <2>4, <3>1, <3>2, <3>3 DEF BindingsInv, TakenIsASequence
  <2>6. CASE k + 1 \notin nulls
    <3>1. /\ slots' = [slots EXCEPT ![k + 1] = k + 1] /\ BufferFromVec(k + 1)
          /\ UNCHANGED <<message, pc>>
      BY <1>4, <2>3, <2>6 DEF WriteBuffer
    <3>2. SlotsWellFormed' /\ Len(slots') = Len(slots) /\ Written' = Written \cup {k + 1}
      BY <1>1, <2>3, <3>1, OutputIsWritten
    <3>3. DOMAIN heap' = Written'  BY <2>1, <3>1, <3>2, HeapGrows DEF RunningCall
    <3>4. Written' = 1 .. k + 1  BY <2>2, <2>3, <3>2
    <3>5. RunningCall'
      <4>1. k + 1 \in 0 .. Len(slots')  BY <2>3, <3>2
      <4>2. ~message' /\ taken' = << >>  BY <2>1, <2>4, <3>1 DEF RunningCall
      <4> QED  BY <3>3, <3>4, <4>1, <4>2 DEF RunningCall
    <3>6. pc' = "running"  BY <1>4, <3>1 DEF WriteBuffer
    <3>7. taken' = << >> /\ << >> \in Seq({})  BY <2>1, <2>4 DEF RunningCall
    <3> QED  BY <2>4, <3>1, <3>2, <3>5, <3>6, <3>7 DEF BindingsInv, TakenIsASequence
  <2> QED  BY <2>5, <2>6
<1>5. ASSUME Return PROVE BindingsInv'
  <2>1. /\ UNCHANGED <<slots, heap, message, damaged, taken>> /\ pc' = "returned"
        /\ Written = DOMAIN slots /\ RunningCall
    BY <1>5 DEF Return, BindingsInv
  <2>2. Written' = Written /\ SlotsWellFormed'  BY <1>1, <2>1 DEF Written, SlotsWellFormed
  <2>3. taken' = << >> /\ << >> \in Seq({})  BY <2>1 DEF RunningCall
  <2>4. ReturnedCall'  BY <1>1, <2>1, <2>2, <2>3 DEF ReturnedCall, RunningCall
  <2> QED  BY <2>1, <2>2, <2>3, <2>4 DEF BindingsInv, TakenIsASequence
<1>6. ASSUME Consume PROVE BindingsInv'
  <2> DEFINE t == Len(taken)
             handle == slots[t + 1]
  <2>1. /\ ReturnedCall /\ t < Len(slots)
        /\ taken' = Append(taken, heap[handle]) /\ FreeBuffer(handle)
        /\ UNCHANGED <<slots, message, pc>> /\ pc = "returned"
    BY <1>6 DEF Consume, BindingsInv
  <2>2. t \in Nat /\ t + 1 \in DOMAIN slots  BY <1>1, <2>1 DEF ReturnedCall
  <2>3. handle = t + 1  BY <1>1, <2>1, <2>2 DEF ReturnedCall, Written, SlotsWellFormed
  <2>4. PICK S : taken \in Seq(S)  BY <2>1 DEF BindingsInv, TakenIsASequence
  <2>5. /\ taken' \in Seq(S \cup {heap[handle]})
        /\ Len(taken') = t + 1
    <3>1. taken \in Seq(S \cup {heap[handle]}) /\ heap[handle] \in S \cup {heap[handle]}
      BY <2>4
    <3> QED  BY <2>1, <3>1
  <2>6. ~damaged' /\ DOMAIN heap' = DOMAIN heap \ {t + 1}
    <3>1. handle \in DOMAIN heap  BY <1>1, <2>1, <2>2, <2>3 DEF ReturnedCall
    <3> QED  BY <2>1, <2>3, <3>1, HeapShrinks DEF BindingsInv
  <2>7. DOMAIN heap' = (t + 2) .. Len(slots)  BY <1>1, <2>1, <2>2, <2>6 DEF ReturnedCall
  <2>8. Written' = Written /\ SlotsWellFormed'  BY <1>1, <2>1 DEF Written, SlotsWellFormed
  <2>9. ReturnedCall'
    <3>1. Len(taken') \in 0 .. Len(slots') /\ DOMAIN heap' = (Len(taken') + 1) .. Len(slots')
      BY <1>1, <2>1, <2>2, <2>5, <2>7
    <3> QED  BY <2>1, <2>8, <3>1 DEF ReturnedCall
  <2> QED  BY <2>1, <2>5, <2>6, <2>8, <2>9 DEF BindingsInv, TakenIsASequence
<1>7. ASSUME FreeWritten PROVE BindingsInv'
  <2>1. PICK i \in DOMAIN slots :
          slots[i] # 0 /\ FreeBuffer(slots[i]) /\ slots' = [slots EXCEPT ![i] = 0]
    BY <1>7 DEF FreeWritten
  <2>2. UNCHANGED <<message, pc>> /\ pc = "refused" /\ DOMAIN heap = Written
    BY <1>7 DEF FreeWritten, BindingsInv
  <2>3. slots[i] = i /\ i \in Written  BY <1>1, <2>1 DEF SlotsWellFormed, Written
  <2>4. SlotsWellFormed' /\ Written' = Written \ {i}  BY <1>1, <2>1, OutputIsCleared
  <2>5. ~damaged' /\ DOMAIN heap' = Written'
    BY <2>1, <2>2, <2>3, <2>4, HeapShrinks DEF BindingsInv
  <2> QED  BY <2>2, <2>4, <2>5 DEF BindingsInv, TakenIsASequence
<1>8. CASE FreeError \/ JavaCall \/ Settle \/ UNCHANGED bindingVars
  <2>1. CASE FreeError
    <3>1. UNCHANGED <<pc, slots, heap, damaged>> /\ message' = FALSE /\ pc = "refused"
      BY <2>1 DEF FreeError
    <3>2. Written' = Written /\ SlotsWellFormed'  BY <1>1, <3>1 DEF Written, SlotsWellFormed
    <3> QED  BY <3>1, <3>2 DEF BindingsInv, TakenIsASequence
  <2>2. CASE JavaCall
    <3>1. UNCHANGED <<slots, heap, message, damaged>> /\ pc' = "answered"
      BY <2>2 DEF JavaCall
    <3>2. DOMAIN heap = {} /\ ~message
      <4>1. CASE pc = "returned" /\ Len(taken) = Len(slots)
        <5>1. ReturnedCall  BY <4>1 DEF BindingsInv
        <5> QED  BY <1>1, <4>1, <5>1 DEF ReturnedCall
      <4>2. CASE pc = "refused" /\ Written = {} /\ ~message
        BY <4>2 DEF BindingsInv
      <4> QED  BY <2>2, <4>1, <4>2 DEF JavaCall
    <3>3. SlotsWellFormed'  BY <1>1, <3>1 DEF SlotsWellFormed
    <3> QED  BY <3>1, <3>2, <3>3 DEF BindingsInv, TakenIsASequence
  <2>3. CASE Settle
    <3>1. /\ UNCHANGED <<heap, message, damaged>> /\ pc' = "idle" /\ pc = "answered"
          /\ slots' = << >>
      BY <2>3 DEF Settle
    <3>2. SlotsWellFormed'
      <4>1. << >> \in Seq(Nat) /\ DOMAIN << >> = {}  OBVIOUS
      <4> QED  BY <3>1, <4>1 DEF SlotsWellFormed
    <3> QED  BY <3>1, <3>2 DEF BindingsInv, TakenIsASequence
  <2>4. CASE UNCHANGED bindingVars
    <3>1. UNCHANGED <<pc, slots, heap, message, damaged, taken>>  BY <2>4 DEF bindingVars
    <3>2. /\ Written' = Written
          /\ SlotsWellFormed' = SlotsWellFormed
          /\ TakenIsASequence' = TakenIsASequence
      BY <3>1 DEF Written, SlotsWellFormed, TakenIsASequence
    <3>3. RunningCall' = RunningCall /\ ReturnedCall' = ReturnedCall
      BY <3>1, <3>2 DEF RunningCall, ReturnedCall
    <3> QED  BY <3>1, <3>2, <3>3 DEF BindingsInv
  <2> QED  BY <1>8, <2>1, <2>2, <2>3, <2>4
<1> QED
  BY <1>2, <1>3, <1>4, <1>5, <1>6, <1>7, <1>8 DEF BindingsNext

(***************************************************************************)
(* At every point of a call the heap holds what the outputs point at, or   *)
(* what is left to copy, and between two calls nothing (write_buffer,      *)
(* run_ffi, RustBridge.swift).                                             *)
(***************************************************************************)
THEOREM BindingsInvariant == BindingsSpec => []BindingsInv
BY BindingsInitHolds, BindingsStep, PTL DEF BindingsSpec

(***************************************************************************)
(* Whatever output a call fails at, and whatever it was asked, its caller  *)
(* ends with every buffer and error string freed, and none is freed twice  *)
(* (write_buffer, RustBridge.swift).                                       *)
(***************************************************************************)
THEOREM FreedOnceAlways == BindingsSpec => []FreedOnce
<1>1. BindingsInv => FreedOnce  BY DEF BindingsInv, FreedOnce
<1> QED  BY <1>1, BindingsInvariant, PTL

(***************************************************************************)
(* PushWatcher, for every number of devices, events, tags and requests,    *)
(* and for a ring of any size.  One invariant carries all three results:   *)
(* the table holds rows, the watcher's record has the shape its program    *)
(* counter says, whoever could have outdated the REQs is still to be heard *)
(* of, and what was pushed is in the ring or forgotten.                    *)
(***************************************************************************)
Settled ==
    /\ unsignalled = 0 /\ ~signalled /\ up /\ ~blurred
    /\ ~At("connecting") /\ ~At("subscribing")

\* A filter with a tag that leads to every row with the filter.
Leads(filter) == \E tag \in filter : filter \cap Like[tag] # {}

Covered == \A i \in Registered : Leads(rows[i].filter) => rows[i].filter \subseteq subscribed

Busy == At("query") \/ At("push")

Remembered == ToSet(seen) \cup forgotten

\* What an event that is not forgotten may have been pushed: once, while it is in
\* the ring, and to a subscription that the watcher is through with.
OncePushed(i, e) ==
    (pushed[<<i, e>>] > 0 /\ e \notin forgotten) =>
        /\ pushed[<<i, e>>] = 1
        /\ e \in ToSet(seen)
        /\ (Busy /\ watcher.event = e) => i \in watcher.done
        /\ (At("push") /\ watcher.event = e) => watcher.sub.id # i

RowsTyped == rows \in [Ids -> Rows \cup {NoRow}]

WatcherShaped ==
    /\ At("query") => watcher = Dispatching
    /\ At("push") => watcher.sub.id \in watcher.done

SeenIsRing == \E S : seen \in Seq(S)

PushTyped ==
    /\ RowsTyped
    /\ unsignalled \in Nat
    /\ WatcherShaped
    /\ SeenIsRing
    /\ silent => ~up
    /\ pushed \in [Ids \X Events -> Nat]
    /\ Busy => watcher.event \in Remembered

PushInv ==
    /\ PushTyped
    /\ Settled => Covered
    /\ \A i \in Ids : \A e \in Events : OncePushed(i, e)

-------------------------------------------------------------------------------
(* The ring and the table.                                                 *)

LEMMA RingKeeps ==
    ASSUME NEW S, NEW s \in Seq(S), NEW e
    PROVE  /\ Append(s, e) \in Seq(S \cup {e})
           /\ Tail(Append(s, e)) \in Seq(S \cup {e})
           /\ \A x \in ToSet(s) : x \in ToSet(Append(s, e))
           /\ e \in ToSet(Append(s, e))
           /\ \A x \in ToSet(Append(s, e)) :
                x \in ToSet(Tail(Append(s, e))) \/ x = Head(Append(s, e))
PROOF
<1> DEFINE r == Append(s, e)
<1>1. /\ s \in Seq(S \cup {e}) /\ e \in S \cup {e}
    OBVIOUS
<1>2. r \in Seq(S \cup {e}) /\ Len(r) = Len(s) + 1 /\ Len(s) \in Nat
    BY <1>1
<1>3. r # <<>> /\ Tail(r) \in Seq(S \cup {e}) /\ Len(Tail(r)) = Len(r) - 1
    BY <1>2
<1>4. (\A n \in 1 .. Len(s) : r[n] = s[n]) /\ r[Len(s) + 1] = e
    BY <1>1
<1>5. \A n \in 1 .. Len(Tail(r)) : Tail(r)[n] = r[n + 1]
    BY <1>2, <1>3
<1>6. Head(r) = r[1]
    OBVIOUS
<1>7. DOMAIN s = 1 .. Len(s) /\ DOMAIN r = 1 .. Len(r) /\ DOMAIN Tail(r) = 1 .. Len(Tail(r))
    BY <1>2, <1>3
<1>8. \A x \in ToSet(s) : x \in ToSet(r)
    BY <1>2, <1>4, <1>7 DEF ToSet
<1>9. e \in ToSet(r)
    BY <1>2, <1>4, <1>7 DEF ToSet
<1>10. ASSUME NEW x \in ToSet(r)
       PROVE  x \in ToSet(Tail(r)) \/ x = Head(r)
    <2>1. PICK n \in 1 .. Len(r) : x = r[n]
        BY <1>7 DEF ToSet
    <2>2. CASE n = 1
        BY <2>1, <2>2, <1>6
    <2>3. CASE n # 1
        <3>1. n - 1 \in 1 .. Len(Tail(r)) /\ (n - 1) + 1 = n
            BY <2>3, <1>2, <1>3
        <3>2. Tail(r)[n - 1] = x
            BY <2>1, <3>1, <1>5
        <3> QED BY <3>1, <3>2, <1>7 DEF ToSet
    <2> QED BY <2>2, <2>3
<1> QED BY <1>2, <1>3, <1>8, <1>9, <1>10

\* A stamp or a window's end keeps a row a row, with its filter.
LEMMA StampKeeps ==
    ASSUME RowsTyped, NEW i \in Registered, NEW b \in BOOLEAN
    PROVE  /\ [rows EXCEPT ![i].recent = b] \in [Ids -> Rows \cup {NoRow}]
           /\ \A j \in Ids : [rows EXCEPT ![i].recent = b][j] = NoRow <=> rows[j] = NoRow
           /\ \A j \in Registered : [rows EXCEPT ![i].recent = b][j].filter = rows[j].filter
PROOF
<1>1. /\ \A j \in Registered : rows[j] \in Rows /\ j \in Ids
      /\ \A r \in Rows : r # NoRow
    BY NoRowAssumption DEF RowsTyped, Registered, Rows
<1>2. rows[i] \in Rows /\ i \in Ids
    BY <1>1
<1>3. [rows[i] EXCEPT !.recent = b] \in Rows
      /\ [rows[i] EXCEPT !.recent = b].filter = rows[i].filter
    BY <1>2 DEF Rows
<1>4. [rows EXCEPT ![i].recent = b] = [rows EXCEPT ![i] = [rows[i] EXCEPT !.recent = b]]
    BY <1>2 DEF RowsTyped
<1> QED BY <1>1, <1>2, <1>3, <1>4 DEF RowsTyped, Registered

-------------------------------------------------------------------------------
(* The steps.                                                              *)

\* What a step leaves of the invariant when it touches neither the watcher nor
\* what the watcher has pushed and seen.
LEMMA PushedFrame ==
    ASSUME PushInv, UNCHANGED <<watcher, seen, forgotten, pushed>>
    PROVE  /\ WatcherShaped' /\ SeenIsRing'
           /\ (pushed \in [Ids \X Events -> Nat])'
           /\ (Busy => watcher.event \in Remembered)'
           /\ (\A i \in Ids : \A e \in Events : OncePushed(i, e))'
PROOF
<1>1. ASSUME NEW i \in Ids, NEW e \in Events
      PROVE  OncePushed(i, e)'
    BY DEF PushInv, OncePushed, Busy, At
<1> QED BY <1>1 DEF PushInv, PushTyped, WatcherShaped, SeenIsRing, Busy, Remembered, At, Dispatching

LEMMA InitHolds == Init => PushInv
PROOF
<1> SUFFICES ASSUME Init PROVE PushInv
    OBVIOUS
<1>1. RowsTyped
    BY DEF Init, RowsTyped
<1>2. seen \in Seq({})
    BY DEF Init
<1>3. \A p \in Ids \X Events : pushed[p] = 0
    BY DEF Init
<1>4. ASSUME NEW i \in Ids, NEW e \in Events
      PROVE  OncePushed(i, e)
    BY <1>3 DEF OncePushed
<1> QED BY <1>1, <1>2, <1>4 DEF Init, PushInv, PushTyped, WatcherShaped, SeenIsRing, Settled, At, Busy

LEMMA DevicesHold == PushInv /\ Devices => PushInv'
PROOF
<1> SUFFICES ASSUME PushInv, NEW i \in Ids,
                    \/ \E token \in Tokens, filter \in Filters : Subscribe(i, token, filter)
                    \/ \E filter \in Filters : Update(i, filter)
                    \/ Unsubscribe(i)
             PROVE  PushInv'
    BY DEF Devices
<1>1. unsignalled' = unsignalled + 1 /\ UNCHANGED <<relay, watcher, seen, history>>
    BY DEF Subscribe, Update, Unsubscribe, Request
<1>2. unsignalled \in Nat /\ unsignalled' \in Nat /\ unsignalled' # 0
    BY <1>1 DEF PushInv, PushTyped
<1>3. RowsTyped'
    <2>1. ASSUME NEW token \in Tokens, NEW filter \in Filters, Subscribe(i, token, filter)
          PROVE  RowsTyped'
        BY <2>1 DEF PushInv, PushTyped, RowsTyped, Rows, Row, Subscribe, InsertSubscription
    <2>2. ASSUME NEW filter \in Filters, Update(i, filter)
          PROVE  RowsTyped'
        <3>1. rows[i] \in Rows /\ [rows[i] EXCEPT !.filter = filter] \in Rows
            BY <2>2 DEF PushInv, PushTyped, RowsTyped, Registered, Rows, Update,
                        UpdateSubscriptionFilter
        <3>2. rows' = [rows EXCEPT ![i] = [rows[i] EXCEPT !.filter = filter]]
            BY <2>2 DEF PushInv, PushTyped, RowsTyped, Update, UpdateSubscriptionFilter
        <3> QED BY <3>1, <3>2 DEF PushInv, PushTyped, RowsTyped
    <2>3. CASE Unsubscribe(i)
        BY <2>3 DEF PushInv, PushTyped, RowsTyped, Unsubscribe, DeleteSubscription
    <2> QED BY <2>1, <2>2, <2>3
<1>4. ~Settled'
    BY <1>2 DEF Settled
<1> QED BY <1>1, <1>2, <1>3, <1>4, PushedFrame DEF PushInv, PushTyped, history, relay

LEMMA SurroundingsHold ==
    ASSUME PushInv,
           \/ Signal \/ LinkDies \/ Notice
           \/ \E token \in Tokens : TokenDies(token)
           \/ \E i \in Ids : WindowEnds(i) \/ DeleteStale(i)
           \/ \E e \in Events : Publish(e)
    PROVE  PushInv'
PROOF
<1> DEFINE SameFilters ==
        \A i \in Ids : rows'[i] # NoRow => rows[i] # NoRow /\ rows'[i].filter = rows[i].filter
<1>1. UNCHANGED <<watcher, seen, history>>
    BY DEF Signal, LinkDies, Notice, TokenDies, WindowEnds, DeleteStale, Publish, history
<1>2. unsignalled' \in Nat /\ (silent => ~up)'
    BY DEF Signal, LinkDies, Notice, TokenDies, WindowEnds, DeleteStale, Publish, PushInv, PushTyped,
           relay
<1>3. RowsTyped' /\ SameFilters
    <2>1. CASE UNCHANGED rows
        BY <2>1 DEF PushInv, PushTyped, RowsTyped, Rows
    <2>2. ASSUME NEW i \in Ids, WindowEnds(i)
          PROVE  RowsTyped' /\ SameFilters
        <3>1. rows' = [rows EXCEPT ![i].recent = FALSE] /\ i \in Registered /\ RowsTyped
            BY <2>2 DEF WindowEnds, PushInv, PushTyped
        <3> QED BY <3>1, StampKeeps DEF RowsTyped, Rows, Registered
    <2>3. ASSUME NEW i \in Ids, DeleteStale(i)
          PROVE  RowsTyped' /\ SameFilters
        BY <2>3 DEF DeleteStale, PushInv, PushTyped, RowsTyped, Rows
    <2> QED BY <2>1, <2>2, <2>3 DEF Signal, LinkDies, Notice, TokenDies, Publish
<1>4. Settled' => Settled /\ subscribed' = subscribed
    <2>1. CASE Signal
        BY <2>1 DEF Signal, Settled
    <2>2. CASE LinkDies
        BY <2>2 DEF LinkDies, Settled
    <2> QED BY <2>1, <2>2, <1>1 DEF Notice, TokenDies, WindowEnds, DeleteStale, Publish, Settled, At,
                               relay, history
<1>5. (Settled => Covered)'
    BY <1>3, <1>4 DEF PushInv, Covered, Registered
<1> QED BY <1>1, <1>2, <1>3, <1>5, PushedFrame DEF PushInv, PushTyped, history

LEMMA FindableLeads ==
    ASSUME NEW i \in Registered
    PROVE  Leads(rows[i].filter) <=> Findable(i)
PROOF
<1> QED BY DEF Leads, Findable, SubscriptionsFor

\* Connecting, asking, and asking again.
LEMMA SubscribingHolds ==
    ASSUME PushInv, Connect \/ SendSubscriptions \/ Refresh \/ Disconnected
    PROVE  PushInv'
PROOF
<1>1. UNCHANGED <<rows, unsignalled, seen, pushed, forgotten>> /\ (silent' => ~up')
    BY DEF Connect, SendSubscriptions, Refresh, Disconnected, relay, history, PushInv, PushTyped
<1>2. watcher'.pc \in {"idle", "connecting", "subscribing"}
    BY DEF Connect, SendSubscriptions, Refresh, Disconnected, Idle
<1>3. PushTyped'
    BY <1>1, <1>2 DEF PushInv, PushTyped, RowsTyped, Rows, WatcherShaped, At, SeenIsRing, Busy
<1>4. ~Busy /\ ~Busy' /\ ~At("push")'
    BY <1>2 DEF Busy, At, Connect, SendSubscriptions, Refresh, Disconnected
<1>5. ASSUME NEW i \in Ids, NEW e \in Events
      PROVE  OncePushed(i, e)'
    BY <1>1, <1>4 DEF PushInv, OncePushed
<1>6. (Settled => Covered)'
    <2>1. CASE SendSubscriptions
        <3> SUFFICES ASSUME Settled' PROVE Covered'
            OBVIOUS
        <3>1. watcher' # [pc |-> "connecting"] /\ ~blurred' /\ up' /\ ~silent'
            BY <1>1 DEF Settled, At
        <3>2. subscribed' = TagsFor(Whole) \/ Whole = {}
            BY <2>1, <3>1 DEF SendSubscriptions
        <3>3. ASSUME NEW i \in Registered, Leads(rows[i].filter)
              PROVE  i \in Whole
            <4>1. PICK tag \in rows[i].filter : i \in SubscriptionsFor(tag)
                BY <3>3, FindableLeads DEF Findable
            <4>2. tag \in TagsFor(Registered)
                BY <4>1 DEF TagsFor
            <4> QED BY <4>1, <4>2 DEF Whole
        <3>4. Registered' = Registered
            BY <1>1 DEF Registered
        <3>5. ASSUME NEW i \in Registered, Leads(rows[i].filter)
              PROVE  rows[i].filter \subseteq subscribed'
            <4>1. i \in Whole /\ subscribed' = TagsFor(Whole)
                BY <3>2, <3>3, <3>5
            <4> QED BY <4>1 DEF TagsFor
        <3> QED BY <3>4, <3>5, <1>1 DEF Covered, Leads
    <2>2. CASE Connect \/ Refresh \/ Disconnected
        <3>1. watcher'.pc = "subscribing" \/ watcher'.pc = "connecting"
            BY <2>2 DEF Connect, Refresh, Disconnected
        <3> QED BY <3>1 DEF Settled, At
    <2> QED BY <2>1, <2>2
<1> QED BY <1>3, <1>5, <1>6 DEF PushInv

\* An event that is taken up was pushed to nobody, or is one that was forgotten.
LEMMA ReceiveHolds == PushInv /\ Receive => PushInv'
PROOF
<1> SUFFICES ASSUME PushInv, Receive PROVE PushInv'
    OBVIOUS
<1>1. UNCHANGED <<rows, unsignalled, signalled, up, silent, subscribed, pushed, blurred>> /\ At("idle")
    BY DEF Receive
<1>2. (Settled => Covered)'
    BY <1>1 DEF PushInv, Settled, Covered, Leads, Registered, At
<1>3. RowsTyped' /\ (unsignalled \in Nat)' /\ (silent => ~up)'
      /\ (pushed \in [Ids \X Events -> Nat])'
    BY <1>1 DEF PushInv, PushTyped, RowsTyped, Rows
<1>4. CASE UNCHANGED <<watcher, seen, forgotten>>
    BY <1>1, <1>2, <1>3, <1>4, PushedFrame DEF PushInv, PushTyped
<1>5. CASE ~UNCHANGED <<watcher, seen, forgotten>>
    <2> DEFINE e == Head(wire)  ring == Append(seen, e)
    <2>1. /\ e \notin ToSet(seen)
          /\ seen' = IF Len(ring) > RingSize THEN Tail(ring) ELSE ring
          /\ forgotten' = forgotten \cup (IF Len(ring) > RingSize THEN {Head(ring)} ELSE {})
          /\ watcher' = [pc |-> "query", event |-> e, tags |-> TagsOf[e], done |-> {},
                         queue |-> {}]
        BY <1>5 DEF Receive
    <2>2. PICK S : seen \in Seq(S)
        BY DEF PushInv, PushTyped, SeenIsRing
    <2> HIDE DEF e
    <2>3. SeenIsRing'
        BY <2>1, <2>2, RingKeeps DEF SeenIsRing
    <2>4. \A x \in ToSet(seen) \cup {e} : x \in ToSet(seen') \cup forgotten'
        BY <2>1, <2>2, RingKeeps
    <2>5. forgotten \subseteq forgotten'
        BY <2>1
    <2>6. WatcherShaped' /\ (Busy => watcher.event \in Remembered)'
        BY <2>1, <2>4 DEF WatcherShaped, At, Dispatching, Remembered
    <2>7. ASSUME NEW i \in Ids, NEW x \in Events
          PROVE  OncePushed(i, x)'
        <3> SUFFICES ASSUME pushed[<<i, x>>] > 0, x \notin forgotten'
                     PROVE  /\ pushed[<<i, x>>] = 1 /\ x \in ToSet(seen')
                            /\ watcher'.event # x /\ watcher'.pc = "query"
            BY <1>1, <2>1 DEF OncePushed, At
        <3>1. pushed[<<i, x>>] = 1 /\ x \in ToSet(seen)
            BY <2>5 DEF PushInv, OncePushed
        <3> QED BY <3>1, <2>1, <2>4
    <2> QED BY <1>2, <1>3, <2>3, <2>6, <2>7 DEF PushInv, PushTyped
<1> QED BY <1>4, <1>5

\* Working off an event's rows changes neither the table nor the ring.
LEMMA HandleHolds ==
    ASSUME PushInv,
           \/ \E tag \in Tags : Query(tag)
           \/ At("query") /\ \E sub \in watcher.queue : Skip(sub) \/ StartPush(sub)
           \/ FinishEvent
    PROVE  PushInv'
PROOF
<1>1. UNCHANGED <<rows, unsignalled, signalled, relay, seen, history>> /\ At("query")
    BY DEF Query, Skip, StartPush, FinishEvent
<1>2. watcher = Dispatching
    BY <1>1 DEF PushInv, PushTyped, WatcherShaped
<1> DEFINE Queries ==
        /\ watcher' = [pc |-> "query", event |-> watcher.event, tags |-> watcher'.tags,
                       done |-> watcher'.done, queue |-> watcher'.queue]
        /\ watcher.done \subseteq watcher'.done
    Pushes == \E sub \in watcher.queue : sub.id \notin watcher.done /\ watcher' = Pushing(sub)
<1>3. Queries \/ Pushes \/ watcher' = Idle
    <2>1. ASSUME NEW tag \in Tags, Query(tag)
          PROVE  Queries
        <3>1. PICK tags, queue :
                  \/ watcher' = [watcher EXCEPT !.tags = tags, !.queue = queue]
                  \/ watcher' = [watcher EXCEPT !.tags = tags]
            BY <2>1 DEF Query
        <3>2. watcher' = [Dispatching EXCEPT !.tags = tags, !.queue = queue]
              \/ watcher' = [Dispatching EXCEPT !.tags = tags]
            BY <3>1, <1>2
        <3>3. \E T, Q : watcher' = [pc |-> "query", event |-> watcher.event, tags |-> T,
                                   done |-> watcher.done, queue |-> Q]
            BY <3>2 DEF Dispatching
        <3> QED BY <3>3
    <2>2. ASSUME NEW sub \in watcher.queue, Skip(sub)
          PROVE  Queries
        <3>1. watcher' = [Dispatching EXCEPT !.queue = @ \ {sub}, !.done = @ \cup {sub.id}]
            BY <2>2, <1>2 DEF Skip
        <3> QED BY <3>1 DEF Dispatching
    <2>3. ASSUME NEW sub \in watcher.queue, StartPush(sub)
          PROVE  Pushes
        BY <2>3 DEF StartPush
    <2> QED BY <2>1, <2>2, <2>3 DEF FinishEvent
<1>4. /\ At("query")' => watcher' = [pc |-> "query", event |-> watcher'.event,
                                     tags |-> watcher'.tags, done |-> watcher'.done,
                                     queue |-> watcher'.queue]
      /\ At("push")' => watcher'.sub.id \in watcher'.done /\ watcher'.sub.id \notin watcher.done
      /\ Busy' => watcher'.event = watcher.event /\ watcher.done \subseteq watcher'.done
      /\ ~At("connecting")' /\ ~At("subscribing")'
    <2>1. CASE Queries
        BY <2>1 DEF At, Busy
    <2>2. CASE Pushes
        BY <2>2 DEF Pushing, At, Busy
    <2>3. CASE watcher' = Idle
        BY <2>3 DEF Idle, At, Busy
    <2> QED BY <2>1, <2>2, <2>3, <1>3
<1> HIDE DEF Queries, Pushes
<1>5. PushTyped'
    BY <1>1, <1>4 DEF PushInv, PushTyped, RowsTyped, Rows, WatcherShaped, SeenIsRing, Busy,
                      Remembered, Dispatching, relay, history
<1>6. (Settled => Covered)'
    BY <1>1 DEF PushInv, Settled, Covered, Leads, Registered, At, relay, history
<1>7. ASSUME NEW i \in Ids, NEW e \in Events
      PROVE  OncePushed(i, e)'
    <2>1. OncePushed(i, e)
        BY DEF PushInv
    <2> QED BY <2>1, <1>1, <1>4 DEF OncePushed, Busy, history
<1> QED BY <1>5, <1>6, <1>7 DEF PushInv

\* A push adds at most one to a pair that is not counted yet.
LEMMA PushedHolds ==
    ASSUME PushInv, NEW n \in {0, 1}, Pushed(n),
           RowsTyped', Settled => Covered'
    PROVE  PushInv'
PROOF
<1> DEFINE i0 == watcher.sub.id  e0 == watcher.event
<1>1. /\ At("push") /\ watcher' = Dispatching
      /\ UNCHANGED <<unsignalled, signalled, relay, seen, forgotten, blurred>>
      /\ pushed' = [pushed EXCEPT ![<<i0, e0>>] = IF @ < 2 THEN @ + n ELSE @]
    BY DEF Pushed
<1>2. watcher'.pc = "query" /\ watcher'.event = e0 /\ watcher'.done = watcher.done
    BY <1>1 DEF Dispatching
<1>3. WatcherShaped' /\ (Busy => watcher.event \in Remembered)'
    <2>1. e0 \in Remembered /\ UNCHANGED Remembered
        BY <1>1 DEF PushInv, PushTyped, Busy, Remembered
    <2>2. WatcherShaped'
        BY <1>1, <1>2 DEF WatcherShaped, At, Dispatching
    <2> QED BY <2>1, <2>2, <1>2
<1>4. pushed \in [Ids \X Events -> Nat] /\ (pushed \in [Ids \X Events -> Nat])'
    <2> DEFINE count == IF pushed[<<i0, e0>>] < 2 THEN pushed[<<i0, e0>>] + n
                                                 ELSE pushed[<<i0, e0>>]
    <2>1. pushed \in [Ids \X Events -> Nat]
        BY DEF PushInv, PushTyped
    <2>2. <<i0, e0>> \in Ids \X Events => count \in Nat
        BY <2>1
    <2>3. pushed' = [pushed EXCEPT ![<<i0, e0>>] = count]
        BY <1>1
    <2> HIDE DEF count, i0, e0
    <2> QED BY <2>1, <2>2, <2>3
<1>5. SeenIsRing' /\ (unsignalled \in Nat)' /\ (silent => ~up)'
    BY <1>1 DEF PushInv, PushTyped, SeenIsRing, relay
<1>6. (Settled => Covered)'
    BY <1>1, <1>2 DEF Settled, At, relay
<1>7. ASSUME NEW i \in Ids, NEW e \in Events
      PROVE  OncePushed(i, e)'
    <2> SUFFICES ASSUME pushed'[<<i, e>>] > 0, e \notin forgotten
                 PROVE  /\ pushed'[<<i, e>>] = 1 /\ e \in ToSet(seen)
                        /\ e0 = e => i \in watcher.done
        BY <1>1, <1>2 DEF OncePushed, At
    <2>1. OncePushed(i, e) /\ <<i, e>> \in Ids \X Events /\ pushed[<<i, e>>] \in Nat
        BY <1>4 DEF PushInv
    <2>2. CASE <<i, e>> = <<i0, e0>>
        <3>1. i = i0 /\ e = e0
            BY <2>2
        <3>2. ~(pushed[<<i, e>>] > 0)
            BY <1>1, <2>1, <3>1 DEF OncePushed
        <3>3. pushed'[<<i, e>>] = IF pushed[<<i, e>>] < 2 THEN pushed[<<i, e>>] + n
                                                          ELSE pushed[<<i, e>>]
            BY <1>1, <1>4, <2>1, <2>2
        <3>4. pushed'[<<i, e>>] = 1
            BY <3>2, <3>3, <2>1
        <3>5. e \in ToSet(seen) /\ i \in watcher.done
            BY <1>1, <3>1 DEF PushInv, PushTyped, WatcherShaped, Busy, Remembered
        <3> QED BY <3>4, <3>5
    <2>3. CASE <<i, e>> # <<i0, e0>>
        <3>1. pushed'[<<i, e>>] = pushed[<<i, e>>]
            BY <1>1, <1>4, <2>1, <2>3
        <3> QED BY <3>1, <2>1, <1>1 DEF OncePushed, Busy
    <2> QED BY <2>2, <2>3
<1> QED BY <1>3, <1>4, <1>5, <1>6, <1>7 DEF PushInv, PushTyped

LEMMA PushHolds == PushInv /\ (PushSucceeds \/ PushFails \/ PushGone) => PushInv'
PROOF
<1>1. ASSUME PushInv, PushFails
      PROVE  PushInv'
    <2>1. Pushed(0) /\ UNCHANGED rows
        BY <1>1 DEF PushFails
    <2>2. RowsTyped' /\ (Settled => Covered')
        BY <1>1, <2>1 DEF PushInv, PushTyped, RowsTyped, Rows, Covered, Registered, Pushed, relay
    <2> QED BY <1>1, <2>1, <2>2, PushedHolds
<1>2. ASSUME PushInv, PushGone
      PROVE  PushInv'
    <2>1. Pushed(0) /\ rows' = [rows EXCEPT ![watcher.sub.id] = NoRow]
        BY <1>2 DEF PushGone, DeleteSubscription
    <2>2. RowsTyped' /\ (Settled => Covered')
        BY <1>2, <2>1 DEF PushInv, PushTyped, RowsTyped, Rows, Covered, Registered, Pushed, relay
    <2> QED BY <1>2, <2>1, <2>2, PushedHolds
<1>3. ASSUME PushInv, PushSucceeds
      PROVE  PushInv'
    <2>1. /\ Pushed(1)
          /\ \/ UNCHANGED rows
             \/ \E i \in Registered : rows' = [rows EXCEPT ![i].recent = TRUE]
        BY <1>3 DEF PushSucceeds
    <2>2. CASE UNCHANGED rows
        <3>1. RowsTyped' /\ (Settled => Covered')
            BY <1>3, <2>1, <2>2 DEF PushInv, PushTyped, RowsTyped, Rows, Covered, Registered,
                                    Pushed, relay
        <3> QED BY <1>3, <2>1, <3>1, PushedHolds
    <2>3. ASSUME NEW i \in Registered, rows' = [rows EXCEPT ![i].recent = TRUE]
          PROVE  PushInv'
        <3>1. /\ RowsTyped'
              /\ \A j \in Ids : rows'[j] # NoRow => j \in Registered
              /\ \A j \in Registered : rows'[j].filter = rows[j].filter
            BY <1>3, <2>3, StampKeeps DEF PushInv, PushTyped, RowsTyped, Rows, Registered
        <3>2. Settled => Covered'
            BY <1>3, <2>1, <3>1 DEF PushInv, Covered, Registered, Pushed, relay
        <3> QED BY <1>3, <2>1, <3>1, <3>2, PushedHolds
    <2> QED BY <2>1, <2>2, <2>3
<1> QED BY <1>1, <1>2, <1>3

\* A panic leaves a task that does nothing more.
LEMMA PanicHolds == ASSUME PushInv, NEW sub, Panic(sub) PROVE PushInv'
PROOF
<1>1. /\ UNCHANGED <<rows, unsignalled, seen, history>>
      /\ watcher'.pc = "ended" /\ up' = FALSE /\ ~Settled'
    BY DEF Panic, Settled
<1>2. PushTyped'
    BY <1>1 DEF PushInv, PushTyped, RowsTyped, Rows, WatcherShaped, SeenIsRing, At, Busy, history
<1>3. ASSUME NEW i \in Ids, NEW e \in Events
      PROVE  OncePushed(i, e)'
    BY <1>1 DEF PushInv, OncePushed, Busy, At, history
<1> QED BY <1>1, <1>2, <1>3 DEF PushInv

LEMMA RestartHolds == PushInv /\ Restart => PushInv'
PROOF
<1> SUFFICES ASSUME PushInv, Restart PROVE PushInv'
    OBVIOUS
<1>1. /\ UNCHANGED <<rows, pushed>> /\ watcher'.pc = "connecting" /\ seen' = <<>> /\ up' = FALSE
      /\ unsignalled' = 0 /\ forgotten' = forgotten \cup ToSet(seen)
    BY DEF Restart
<1>2. seen' \in Seq({})
    BY <1>1
<1>3. PushTyped'
    BY <1>1, <1>2 DEF PushInv, PushTyped, RowsTyped, Rows, WatcherShaped, SeenIsRing, At, Busy
<1>4. ~Settled'
    BY <1>1 DEF Settled, At
<1>5. ASSUME NEW i \in Ids, NEW e \in Events
      PROVE  OncePushed(i, e)'
    BY <1>1 DEF PushInv, OncePushed
<1> QED BY <1>3, <1>4, <1>5 DEF PushInv

LEMMA StepHolds == PushInv /\ [Next]_vars => PushInv'
PROOF
<1> SUFFICES ASSUME PushInv, [Next]_vars PROVE PushInv'
    OBVIOUS
<1>1. CASE Devices
    BY <1>1, DevicesHold
<1>2. CASE \/ Signal \/ LinkDies \/ Notice
           \/ \E token \in Tokens : TokenDies(token)
           \/ \E i \in Ids : WindowEnds(i) \/ DeleteStale(i)
           \/ \E e \in Events : Publish(e)
    BY <1>2, SurroundingsHold
<1>3. CASE Connect \/ SendSubscriptions \/ Refresh \/ Disconnected
    BY <1>3, SubscribingHolds
<1>4. CASE Receive
    BY <1>4, ReceiveHolds
<1>5. CASE \/ \E tag \in Tags : Query(tag)
           \/ At("query") /\ \E sub \in watcher.queue : Skip(sub) \/ StartPush(sub)
           \/ FinishEvent
    BY <1>5, HandleHolds
<1>6. CASE PushSucceeds \/ PushFails \/ PushGone
    BY <1>6, PushHolds
<1>7. CASE Restart
    BY <1>7, RestartHolds
<1>8. ASSUME NEW sub, Panic(sub)
      PROVE  PushInv'
    BY <1>8, PanicHolds
<1>9. CASE UNCHANGED vars
    <2>1. UNCHANGED <<rows, unsignalled, relay, watcher, seen, history, signalled>>
        BY <1>9 DEF vars
    <2>2. RowsTyped' /\ (Settled => Covered)'
        BY <2>1 DEF PushInv, PushTyped, RowsTyped, Rows, Settled, Covered, Leads, Registered, At, relay,
                    history
    <2> QED BY <2>1, <2>2, PushedFrame DEF PushInv, PushTyped, relay, history
<1> QED BY <1>1, <1>2, <1>3, <1>4, <1>5, <1>6, <1>7, <1>8, <1>9 DEF Next, Listen, Awaited

-------------------------------------------------------------------------------
(* The results.                                                            *)

\* The table, the watcher's record and the ring stay what they are declared to
\* be, and the two halves of the invariant hold along with that.
THEOREM PushInvariant == Spec => []PushInv
PROOF
<1> QED BY InitHolds, StepHolds, PTL DEF Spec

\* No order of registrations, refreshes, lost connections and restarts leaves a
\* registered tag unasked for once nothing is under way (run_watcher).
THEOREM RegisteredTagsAreWatchedAlways == Spec => []RegisteredTagsAreWatched
PROOF
<1>1. PushInv => RegisteredTagsAreWatched
    BY FindableLeads DEF PushInv, RegisteredTagsAreWatched, Settled, Covered, At
<1> QED BY <1>1, PushInvariant, PTL

\* Whatever number of tags, REQs and replays lead an event to a subscription, it
\* is pushed once while the ring remembers it, whatever the ring's size
\* (handle_message).
THEOREM PushedOnceAlways == Spec => []PushedOnce
PROOF
<1>1. ASSUME PushInv, NEW i \in Ids, NEW e \in Events, pushed[<<i, e>>] > 1
      PROVE  e \in forgotten
    <2>1. pushed[<<i, e>>] \in Nat
        BY <1>1 DEF PushInv, PushTyped
    <2> QED BY <1>1, <2>1 DEF PushInv, OncePushed
<1>2. PushInv => PushedOnce
    BY <1>1 DEF PushedOnce
<1> QED BY <1>2, PushInvariant, PTL

===============================================================================
