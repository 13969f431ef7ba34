------------------------------ MODULE CoreBindings ------------------------------
(***************************************************************************)
(* What the clients call of the core library: keys, rosters, commitments   *)
(* and Groth16 proofs (src/src/prover, src/src/commitment, src/src/merkle) *)
(* and Nostr signatures.  A function that can fail comes as two operators, *)
(* whether it succeeds and what it returns.  32 bytes are an item          *)
(* [v, over]: a value, and whether the bytes are too large a number for    *)
(* the field that reads them, so that a function which reduces takes the   *)
(* item for its value and one that checks refuses it.                      *)
(*                                                                         *)
(* The two bindings of the core library, written by hand beside one        *)
(* another: the C functions (src/src/ffi.rs) with the buffers they hand    *)
(* out and RustBridge.swift's way of taking them back, and the Java ones   *)
(* (src/src/jni_ffi.rs), which pack several results into one array.        *)
(*                                                                         *)
(* One request at a time is put to both.  Lengths that the SDKs check      *)
(* before they call are not checked here: any C or Java caller may call.   *)
(***************************************************************************)
EXTENDS Groth16Circuits

CONSTANTS Width     \* bits of an epoch, 64 in the program

ASSUME WidthAssumption == Width \in Nat \ {0}

Item(v)    == [v |-> v, over |-> FALSE]
ModOrder(i) == i.v

U64(n) == n % 2^Width

\* bytes_be_to_field_checked
IsCanonical(item) == ~item.over

-------------------------------------------------------------------------------
(* Members and trees.  A member is a public key, here its position in the  *)
(* order of public keys, and a leaf that somebody gave with it.            *)

LeafHash(secret) == HashOne(secret)

PublicKey(secret) == secret[2]

InOrder(members) == SortSeq(members, LAMBDA a, b : a.key < b.key)

BuildsTree(members, depth) ==
    /\ \A i, j \in DOMAIN members : members[i].key = members[j].key => i = j
    /\ Len(members) <= 2^depth

Leaves(members) == LET ms == InOrder(members) IN [i \in DOMAIN ms |-> ms[i].leaf]

TreeRoot(members, depth) == Root(Leaves(members), depth)

-------------------------------------------------------------------------------
(* Commitments.  SHA-256 takes a salt's bytes, Poseidon its value.         *)

Sha256Commitment(root, epoch, saltItem) == <<"sha256", root, U64(epoch), saltItem>>

PoseidonCommitment(root, epoch, saltItem) ==
    Commitment(root, U64(epoch), ModOrder(saltItem))

-------------------------------------------------------------------------------
(* Proofs.  A proof is what its witness proves and whether the witness     *)
(* satisfies the circuit: a release build proves without looking.          *)

Proof(holds, inputs) == <<"proof", holds, inputs>>

\* verify, verify_update
VerifiesFor(proof, inputs) == proof[2] /\ proof[3] = inputs

CanProve(members, secret, depth) ==
    /\ BuildsTree(members, depth)
    /\ \E i \in DOMAIN members :
          members[i].key = PublicKey(secret) /\ members[i].leaf = LeafHash(secret)

Position(members, secret) ==
    LET ms == InOrder(members)
    IN  (CHOOSE i \in DOMAIN ms : ms[i].key = PublicKey(secret)) - 1

Witness(members, secret, epoch, saltItem, depth) ==
    LET at == Position(members, secret)
    IN  [key |-> secret, root |-> TreeRoot(members, depth), depth |-> depth,
         path |-> MerklePath(Leaves(members), depth, at), index |-> at,
         epoch |-> epoch, salt |-> ModOrder(saltItem)]

\* prove: the proof, and the commitment that it is for.
Prove(members, secret, epoch, saltItem, depth) ==
    LET w == Witness(members, secret, epoch, saltItem, depth)
    IN  [proof |-> Proof(MembershipHolds(w), MembershipInputs(w)),
         commitment |-> PoseidonCommitment(w.root, epoch, saltItem)]

CanProveUpdate(old, new, secret, depth) ==
    CanProve(old, secret, depth) /\ BuildsTree(new, depth)

\* UpdatePublicInputs::to_scalars
ToScalars(inputs) == <<inputs.c_old, Num(inputs.epoch_old), inputs.c_new>>

\* prove_update computes c_new for an epoch that may have gone round to zero;
\* the circuit counts in the field, and what it is given must agree.
ProveUpdate(old, new, secret, epoch, saltOld, saltNew, depth) ==
    LET w      == Witness(old, secret, epoch, saltOld, depth) @@
                      [rootNew |-> TreeRoot(new, depth), saltNew |-> ModOrder(saltNew)]
        inputs == [c_old     |-> PoseidonCommitment(w.root, epoch, saltOld),
                   epoch_old |-> epoch,
                   c_new     |-> PoseidonCommitment(w.rootNew, epoch + 1, saltNew)]
    IN  [proof  |-> Proof(UpdateHolds(w) /\ UpdateInputs(w) = ToScalars(inputs),
                          ToScalars(inputs)),
         inputs |-> inputs]

\* UpdatePublicInputs: a version, c_old, the epoch, c_new.
WireVersion == 2

Serialize(inputs) == <<WireVersion, Item(inputs.c_old), U64(inputs.epoch_old), Item(inputs.c_new)>>

Deserializes(wire) ==
    /\ Len(wire) = 4 /\ wire[1] = WireVersion
    /\ IsCanonical(wire[2]) /\ IsCanonical(wire[4])

Deserialize(wire) ==
    [c_old |-> ModOrder(wire[2]), epoch_old |-> wire[3], c_new |-> ModOrder(wire[4])]

\* The compressed proof, and its three points one by one.
ProofBytes(proof) == <<<<"a", proof>>, <<"b", proof>>, <<"c", proof>>>>

ContractFormat(bytes) == <<<<bytes[1]>>, <<bytes[2]>>, <<bytes[3]>>>>

\* A testing key is of one circuit and depth, and a seed makes it again.
TestingKey(circuit, depth, seed) == <<<<"key", circuit, depth, seed>>>>

-------------------------------------------------------------------------------
(* Nostr keys and signatures over the id of an event, which is hashed      *)
(* already (sign_prehash, verify_prehash).                                 *)

NostrPublicKey(secret) == <<"nostr", secret>>

NostrSignature(secret, eventId) == <<"signed", NostrPublicKey(secret), eventId>>

-------------------------------------------------------------------------------
(* The bindings.                                                           *)

CONSTANTS Asked     \* the requests that are made

VARIABLES
    request,    \* what both bindings are asked
    pc,         \* of the C call: idle, running, returned, refused, answered
    result,     \* what the C function's closure has computed
    nulls,      \* output pointers that the caller left null
    slots,      \* the caller's outputs: handles of buffers, 0 before they are written
    heap,       \* buffers handed out and not yet freed: handle -> content
    message,    \* the error string is handed out
    damaged,    \* something was freed that was not there to be freed
    taken,      \* the outputs copied by the caller so far
    fromJava    \* the other binding's answer

bindingVars == <<request, pc, result, nulls, slots, heap, message, damaged, taken, fromJava>>

-------------------------------------------------------------------------------
(* Arguments.  A buffer is the items that its bytes hold, whether bytes    *)
(* are left over, and whether its pointer is null.                         *)

Holds(items) == [items |-> items, extra |-> FALSE, null |-> FALSE]

OnlyItem(b) == b.items[1].v

HoldsOne(b) == Len(b.items) = 1 /\ ~b.extra

Members(keys, hashes) ==
    [i \in DOMAIN keys.items |-> [key |-> keys.items[i].v, leaf |-> hashes.items[i].v]]

Refused      == [ok |-> FALSE, out |-> << >>]
Gives(out)   == [ok |-> TRUE, out |-> out]
AnswerIf(reads, out) == IF reads THEN Gives(out) ELSE Refused

-------------------------------------------------------------------------------
(* The C functions: what each closure reads, and what it will write.       *)

ReadBytes(b)           == ~b.null
ReadsFr(b)             == ReadBytes(b) /\ HoldsOne(b) /\ IsCanonical(b.items[1])
ReadsSecretKey(b)      == ReadBytes(b) /\ HoldsOne(b)
ReadsArray32(b)        == ReadBytes(b) /\ HoldsOne(b)
ReadsSalt(b)           == ReadBytes(b) /\ HoldsOne(b)
ReadsFieldVector(b)    ==
    ReadBytes(b) /\ ~b.extra /\ \A i \in DOMAIN b.items : IsCanonical(b.items[i])
ReadsPublicKeyVector(b) == ReadBytes(b) /\ ~b.extra

BuildsMembers(keys, hashes) ==
    /\ ReadsPublicKeyVector(keys) /\ ReadsFieldVector(hashes)
    /\ Len(keys.items) = Len(hashes.items)

\* A secp256k1 key or point, a proving key, a proof: decoded or not, with no
\* look at what follows it.
Decodes(b) == ReadBytes(b) /\ b.items # << >> /\ IsCanonical(b.items[1])

SepComputeLeafHash(a) == AnswerIf(ReadsSecretKey(a.secret), <<<<LeafHash(OnlyItem(a.secret))>>>>)

SepComputePublicKey(a) == AnswerIf(ReadsSecretKey(a.secret), <<<<PublicKey(OnlyItem(a.secret))>>>>)

SepComputeMerkleRoot(a) ==
    AnswerIf(/\ BuildsMembers(a.keys, a.hashes)
             /\ BuildsTree(Members(a.keys, a.hashes), a.depth),
             <<<<TreeRoot(Members(a.keys, a.hashes), a.depth)>>>>)

SepNostrDerivePublicKey(a) ==
    AnswerIf(ReadsArray32(a.secret) /\ Decodes(a.secret),
             <<<<NostrPublicKey(OnlyItem(a.secret))>>>>)

SepNostrSignEventId(a) ==
    AnswerIf(ReadsArray32(a.secret) /\ ReadsArray32(a.eventId) /\ Decodes(a.secret),
             <<<<NostrSignature(OnlyItem(a.secret), OnlyItem(a.eventId))>>>>)

SepNostrVerifyEventSignature(a) ==
    AnswerIf(/\ ReadsArray32(a.public) /\ ReadsArray32(a.eventId) /\ ReadsArray32(a.signature)
             /\ Decodes(a.public)
             /\ OnlyItem(a.signature) = <<"signed", OnlyItem(a.public), OnlyItem(a.eventId)>>,
             << >>)

SepProofToContractFormat(a) ==
    AnswerIf(Decodes(a.proof), ContractFormat(ProofBytes(OnlyItem(a.proof))))

SepComputeSha256Commitment(a) ==
    AnswerIf(ReadsFr(a.root) /\ ReadsSalt(a.salt),
             <<<<Sha256Commitment(OnlyItem(a.root), a.epoch, a.salt.items[1])>>>>)

SepComputePoseidonCommitment(a) ==
    AnswerIf(ReadsFr(a.root) /\ ReadsSalt(a.salt),
             <<<<PoseidonCommitment(OnlyItem(a.root), a.epoch, a.salt.items[1])>>>>)

SepGenerateTestingProvingKey(a) == Gives(<<TestingKey("membership", a.depth, a.seed)>>)

SepGenerateTestingUpdateProvingKey(a) == Gives(<<TestingKey("update", a.depth, a.seed)>>)

SepGenerateMembershipProof(a) ==
    LET members == Members(a.keys, a.hashes)
        p == Prove(members, OnlyItem(a.secret), a.epoch, a.salt.items[1], a.depth)
    IN  AnswerIf(/\ Decodes(a.provingKey) /\ BuildsMembers(a.keys, a.hashes)
                 /\ ReadsSecretKey(a.secret) /\ ReadsSalt(a.salt)
                 /\ CanProve(members, OnlyItem(a.secret), a.depth),
                 <<ProofBytes(p.proof), <<p.commitment>>>>)

SepGenerateUpdateProof(a) ==
    LET old == Members(a.keys, a.hashes)
        new == Members(a.keysNew, a.hashesNew)
        p == ProveUpdate(old, new, OnlyItem(a.secret), a.epoch, a.salt.items[1],
                         a.saltNew.items[1], a.depth)
    IN  AnswerIf(/\ Decodes(a.provingKey)
                 /\ BuildsMembers(a.keys, a.hashes) /\ BuildsMembers(a.keysNew, a.hashesNew)
                 /\ ReadsSecretKey(a.secret) /\ ReadsSalt(a.salt) /\ ReadsSalt(a.saltNew)
                 /\ CanProveUpdate(old, new, OnlyItem(a.secret), a.depth),
                 <<ProofBytes(p.proof), Serialize(p.inputs)>>)

\* The epoch is copied from the wire, not from what was read of it.
SepParseUpdatePublicInputs(a) ==
    AnswerIf(~a.null /\ Deserializes(a.wire),
             LET inputs == Deserialize(a.wire)
             IN  <<<<inputs.c_old>>, <<a.wire[3]>>, <<inputs.c_new>>>>)

COf(r) ==
    CASE r.f = "leafHash"            -> SepComputeLeafHash(r)
      [] r.f = "publicKey"           -> SepComputePublicKey(r)
      [] r.f = "merkleRoot"          -> SepComputeMerkleRoot(r)
      [] r.f = "nostrKey"            -> SepNostrDerivePublicKey(r)
      [] r.f = "nostrSign"           -> SepNostrSignEventId(r)
      [] r.f = "nostrVerify"         -> SepNostrVerifyEventSignature(r)
      [] r.f = "contractFormat"      -> SepProofToContractFormat(r)
      [] r.f = "sha256Commitment"    -> SepComputeSha256Commitment(r)
      [] r.f = "poseidonCommitment"  -> SepComputePoseidonCommitment(r)
      [] r.f = "testingKey"          -> SepGenerateTestingProvingKey(r)
      [] r.f = "testingUpdateKey"    -> SepGenerateTestingUpdateProvingKey(r)
      [] r.f = "membershipProof"     -> SepGenerateMembershipProof(r)
      [] r.f = "updateProof"         -> SepGenerateUpdateProof(r)
      [] r.f = "parse"               -> SepParseUpdatePublicInputs(r)

\* Who asks, asks one of these.
ASSUME AskedAssumption ==
    \A r \in Asked :
        r.f \in {"leafHash", "publicKey", "merkleRoot", "nostrKey", "nostrSign", "nostrVerify",
                 "contractFormat", "sha256Commitment", "poseidonCommitment", "testingKey",
                 "testingUpdateKey", "membershipProof", "updateProof", "parse"}

-------------------------------------------------------------------------------
(* The Java functions.  A null array reads as an empty one, lengths are    *)
(* what refuses it, and an exception answers for every refusal.            *)

GetBytes(b) == IF b.null THEN Holds(<< >>) ELSE b

ParsesSecretKey(b) == HoldsOne(GetBytes(b))

ParsesSalt(b) == HoldsOne(GetBytes(b))

\* A defect: the bytes are reduced, as a secret key's are.
ParsesAnyFr(b) == HoldsOne(GetBytes(b))

ParsesFr(b) == HoldsOne(GetBytes(b)) /\ IsCanonical(b.items[1])

Deserialized(b) == GetBytes(b).items # << >> /\ IsCanonical(b.items[1])

ParsesMembers(keys, hashes) ==
    LET ks == GetBytes(keys)  hs == GetBytes(hashes)
    IN  /\ ~ks.extra /\ ~hs.extra
        /\ \A i \in DOMAIN hs.items : IsCanonical(hs.items[i])
        /\ Len(ks.items) = Len(hs.items)

\* Every part after its length.
PackTwo(a, b)      == <<Len(a)>> \o a \o <<Len(b)>> \o b
PackThree(a, b, c) == PackTwo(a, b) \o <<Len(c)>> \o c

\* A signed 64-bit number that has the bits of an epoch, and back.
ToLong(n) == IF n < 2^(Width - 1) THEN n ELSE n - 2^Width

JavaComputeLeafHash(a) ==
    AnswerIf(ParsesSecretKey(a.secret), <<LeafHash(OnlyItem(a.secret))>>)

JavaComputePublicKey(a) ==
    AnswerIf(ParsesSecretKey(a.secret), <<PublicKey(OnlyItem(a.secret))>>)

JavaComputeMerkleRoot(a) ==
    AnswerIf(/\ ParsesMembers(a.keys, a.hashes)
             /\ BuildsTree(Members(a.keys, a.hashes), a.depth),
             <<TreeRoot(Members(a.keys, a.hashes), a.depth)>>)

JavaNostrDerivePublicKey(a) == AnswerIf(ParsesFr(a.secret), <<NostrPublicKey(OnlyItem(a.secret))>>)

JavaNostrSignEventId(a) ==
    AnswerIf(ParsesFr(a.secret) /\ HoldsOne(GetBytes(a.eventId)),
             <<NostrSignature(OnlyItem(a.secret), OnlyItem(a.eventId))>>)

\* Nothing to hand out, but an array is what the function returns.
JavaNostrVerifyEventSignature(a) ==
    AnswerIf(/\ ParsesFr(a.public) /\ HoldsOne(GetBytes(a.eventId))
             /\ HoldsOne(GetBytes(a.signature))
             /\ OnlyItem(a.signature) = <<"signed", OnlyItem(a.public), OnlyItem(a.eventId)>>,
             <<1>>)

JavaProofToContractFormat(a) ==
    AnswerIf(Deserialized(a.proof),
             LET parts == ContractFormat(ProofBytes(OnlyItem(a.proof)))
             IN  PackThree(parts[1], parts[2], parts[3]))

JavaComputeSha256Commitment(a, epoch) ==
    AnswerIf(ParsesFr(a.root) /\ ParsesSalt(a.salt),
             <<Sha256Commitment(OnlyItem(a.root), U64(epoch), a.salt.items[1])>>)

JavaComputePoseidonCommitment(a, epoch) ==
    AnswerIf(ParsesFr(a.root) /\ ParsesSalt(a.salt),
             <<PoseidonCommitment(OnlyItem(a.root), U64(epoch), a.salt.items[1])>>)

JavaGenerateTestingProvingKey(a) == Gives(TestingKey("membership", a.depth, a.seed))

JavaGenerateTestingUpdateProvingKey(a) == Gives(TestingKey("update", a.depth, a.seed))

JavaGenerateMembershipProof(a, epoch) ==
    LET members == Members(a.keys, a.hashes)
        p == Prove(members, OnlyItem(a.secret), U64(epoch), a.salt.items[1], a.depth)
    IN  AnswerIf(/\ Deserialized(a.provingKey) /\ ParsesMembers(a.keys, a.hashes)
                 /\ ParsesSecretKey(a.secret) /\ ParsesSalt(a.salt)
                 /\ CanProve(members, OnlyItem(a.secret), a.depth),
                 PackTwo(ProofBytes(p.proof), <<p.commitment>>))

JavaGenerateUpdateProof(a, epoch) ==
    LET old == Members(a.keys, a.hashes)
        new == Members(a.keysNew, a.hashesNew)
        p == ProveUpdate(old, new, OnlyItem(a.secret), U64(epoch), a.salt.items[1],
                         a.saltNew.items[1], a.depth)
    IN  AnswerIf(/\ Deserialized(a.provingKey)
                 /\ ParsesMembers(a.keys, a.hashes) /\ ParsesMembers(a.keysNew, a.hashesNew)
                 /\ ParsesSecretKey(a.secret) /\ ParsesSalt(a.salt) /\ ParsesSalt(a.saltNew)
                 /\ CanProveUpdate(old, new, OnlyItem(a.secret), a.depth),
                 PackTwo(ProofBytes(p.proof), Serialize(p.inputs)))

JavaParseUpdatePublicInputs(a) ==
    AnswerIf(~a.null /\ Deserializes(a.wire),
             LET inputs == Deserialize(a.wire)
             IN  PackThree(<<inputs.c_old>>, <<a.wire[3]>>, <<inputs.c_new>>))

JavaOf(r) ==
    CASE r.f = "leafHash"            -> JavaComputeLeafHash(r)
      [] r.f = "publicKey"           -> JavaComputePublicKey(r)
      [] r.f = "merkleRoot"          -> JavaComputeMerkleRoot(r)
      [] r.f = "nostrKey"            -> JavaNostrDerivePublicKey(r)
      [] r.f = "nostrSign"           -> JavaNostrSignEventId(r)
      [] r.f = "nostrVerify"         -> JavaNostrVerifyEventSignature(r)
      [] r.f = "contractFormat"      -> JavaProofToContractFormat(r)
      [] r.f = "sha256Commitment"    -> JavaComputeSha256Commitment(r, ToLong(r.epoch))
      [] r.f = "poseidonCommitment"  -> JavaComputePoseidonCommitment(r, ToLong(r.epoch))
      [] r.f = "testingKey"          -> JavaGenerateTestingProvingKey(r)
      [] r.f = "testingUpdateKey"    -> JavaGenerateTestingUpdateProvingKey(r)
      [] r.f = "membershipProof"     -> JavaGenerateMembershipProof(r, ToLong(r.epoch))
      [] r.f = "updateProof"         -> JavaGenerateUpdateProof(r, ToLong(r.epoch))
      [] r.f = "parse"               -> JavaParseUpdatePublicInputs(r)

\* SEPProofGenerator's unpack functions: lengths first, as many as expected.
Unpacked(packed, parts) ==
    LET from[i \in 1..parts] == IF i = 1 THEN 1 ELSE from[i - 1] + 1 + packed[from[i - 1]]
    IN  [i \in 1..parts |-> SubSeq(packed, from[i] + 1, from[i] + packed[from[i]])]

Parts(f) ==
    CASE f \in {"membershipProof", "updateProof"} -> 2
      [] f \in {"contractFormat", "parse"}        -> 3
      [] OTHER                                    -> 1

\* What a Kotlin caller has: the parts, and for a verification that it held.
InKotlin(f, answer) ==
    IF ~answer.ok THEN Refused
    ELSE IF f = "nostrVerify" THEN Gives(<< >>)
    ELSE IF Parts(f) = 1 THEN Gives(<<answer.out>>)
    ELSE Gives(Unpacked(answer.out, Parts(f)))

-------------------------------------------------------------------------------
(* The C call and its caller.  Handles of buffers are 1, 2, ...; 0 is an   *)
(* output that still holds its null pointer, and output 0 the error.       *)

BindingsInit ==
    /\ request = [f |-> "none"] /\ pc = "idle" /\ result = Refused
    /\ nulls = {} /\ slots = << >> /\ heap = << >>
    /\ message = FALSE /\ damaged = FALSE /\ taken = << >> /\ fromJava = Refused

Ask ==
    /\ pc = "idle"
    /\ \E r \in Asked :
         /\ request' = r /\ result' = COf(r)
         /\ nulls' \in SUBSET (0 .. Len(COf(r).out))
         /\ slots' = [i \in DOMAIN COf(r).out |-> 0]
    /\ pc' = "running" /\ taken' = << >>
    /\ UNCHANGED <<heap, message, damaged, fromJava>>

\* write_error
WriteError ==
    /\ message' = (0 \notin nulls)
    /\ pc' = "refused"

RefuseCall ==
    /\ pc = "running" /\ ~result.ok
    /\ WriteError
    /\ UNCHANGED <<request, result, nulls, slots, heap, damaged, taken, fromJava>>

\* A buffer of its own for the caller, who has to free it.
BufferFromVec(i) ==
    heap' = [h \in DOMAIN heap \cup {i} |-> IF h = i THEN result.out[i] ELSE heap[h]]

Written == {i \in DOMAIN slots : slots[i] # 0}

\* A defect: the buffer is made before its pointer is looked at.
WriteBufferFirst ==
    /\ pc = "running" /\ result.ok /\ Written # DOMAIN slots
    /\ LET i == Cardinality(Written) + 1 IN
       /\ BufferFromVec(i)
       /\ IF i \in nulls THEN WriteError /\ UNCHANGED slots
          ELSE slots' = [slots EXCEPT ![i] = i] /\ UNCHANGED <<message, pc>>
    /\ UNCHANGED <<request, result, nulls, damaged, taken, fromJava>>

\* write_buffer, for the next output.
WriteBuffer ==
    /\ pc = "running" /\ result.ok /\ Written # DOMAIN slots
    /\ LET i == Cardinality(Written) + 1 IN
       IF i \in nulls
       THEN WriteError /\ UNCHANGED <<slots, heap>>
       ELSE /\ slots' = [slots EXCEPT ![i] = i]
            /\ BufferFromVec(i)
            /\ UNCHANGED <<message, pc>>
    /\ UNCHANGED <<request, result, nulls, damaged, taken, fromJava>>

Return ==
    /\ pc = "running" /\ result.ok /\ Written = DOMAIN slots
    /\ pc' = "returned"
    /\ UNCHANGED <<request, result, nulls, slots, heap, message, damaged, taken, fromJava>>

\* sep_byte_buffer_free of a pointer that is not null
FreeBuffer(handle) ==
    /\ damaged' = (damaged \/ handle \notin DOMAIN heap)
    /\ heap' = [h \in DOMAIN heap \ {handle} |-> heap[h]]

\* consumeBuffer: copy, then free.
Consume ==
    /\ pc = "returned" /\ Len(taken) < Len(slots)
    /\ LET handle == slots[Len(taken) + 1] IN
       taken' = Append(taken, heap[handle]) /\ FreeBuffer(handle)
    /\ UNCHANGED <<request, pc, result, nulls, slots, message, fromJava>>

\* The branch of every call that failed: free what was written, then the error.
FreeWritten ==
    /\ pc = "refused"
    /\ \E i \in DOMAIN slots :
         /\ slots[i] # 0 /\ \A j \in 1 .. i - 1 : slots[j] = 0
         /\ FreeBuffer(slots[i])
         /\ slots' = [slots EXCEPT ![i] = 0]
    /\ UNCHANGED <<request, pc, result, nulls, message, taken, fromJava>>

FreeError ==
    /\ pc = "refused" /\ Written = {} /\ message
    /\ message' = FALSE
    /\ UNCHANGED <<request, pc, result, nulls, slots, heap, damaged, taken, fromJava>>

\* The C caller has its answer; the Java one is asked for the same.
JavaCall ==
    /\ \/ pc = "returned" /\ Len(taken) = Len(slots)
       \/ pc = "refused" /\ Written = {} /\ ~message
    /\ fromJava' = InKotlin(request.f, JavaOf(request))
    /\ result' = IF pc = "returned" THEN Gives(taken) ELSE Refused
    /\ pc' = "answered"
    /\ UNCHANGED <<request, nulls, slots, heap, message, damaged, taken>>

\* Nothing of a call is kept.
Settle ==
    /\ pc = "answered" /\ pc' = "idle"
    /\ request' = [f |-> "none"] /\ result' = Refused /\ fromJava' = Refused
    /\ nulls' = {} /\ slots' = << >> /\ taken' = << >>
    /\ UNCHANGED <<heap, message, damaged>>

BindingsNext ==
    Ask \/ RefuseCall \/ WriteBuffer \/ Return \/ Consume \/ FreeWritten \/ FreeError
        \/ JavaCall \/ Settle

BindingsSpec == BindingsInit /\ [][BindingsNext]_bindingVars

-------------------------------------------------------------------------------
(* Properties *)

BufferArguments ==
    {"secret", "keys", "hashes", "eventId", "public", "signature", "proof", "root",
     "salt", "provingKey", "keysNew", "hashesNew", "saltNew"}

\* A request that hands over a null pointer or leaves an output null, which the
\* C functions refuse and the Java ones take for empty or cannot be given.
HandsOverNull ==
    \/ nulls \ {0} # {}
    \/ \E x \in BufferArguments \cap DOMAIN request : request[x].null

\* An epoch whose successor is zero: no proof of that update can hold.
LastEpoch == request.f = "updateProof" /\ request.epoch = 2^Width - 1

ProvenBy(out) == out[1][1][2]

AnsweredProofHolds(out) ==
    CASE request.f = "membershipProof" ->
            VerifiesFor(ProvenBy(out), <<out[2][1], Num(request.epoch)>>)
      [] request.f = "updateProof" ->
            Deserializes(out[2]) /\ VerifiesFor(ProvenBy(out), ToScalars(Deserialize(out[2])))
      [] OTHER -> TRUE

\* A Swift and a Kotlin client that ask the same get the same: either both are
\* refused or both have equal results, whatever was packed, copied or converted
\* on the way; and a proof they are given verifies with the public inputs that
\* came with it (src/src/ffi.rs, src/src/jni_ffi.rs).
ClientsAgree ==
    pc = "answered" /\ ~HandsOverNull =>
        /\ result = fromJava
        /\ fromJava.ok /\ ~LastEpoch => AnsweredProofHolds(fromJava.out)

\* Whatever output a call failed at, its caller ends with every buffer and error
\* string freed, and none freed twice (write_buffer, RustBridge.swift).
FreedOnce ==
    /\ ~damaged
    /\ pc \in {"idle", "answered"} => DOMAIN heap = {} /\ ~message

===============================================================================
