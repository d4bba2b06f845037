-------------------------- MODULE ShardWorkerProofs --------------------------
(***************************************************************************)
(* What TLAPS proves of ShardWorkerClients for every number of workers,    *)
(* shards, sequences and tokens, every limit and every length of input.    *)
(***************************************************************************)
EXTENDS ShardWorkerClients, FiniteSetTheorems, SequenceTheorems, TLAPS

----------------------------------------------------------------------------
(***************************************************************************)
(* Type correctness.                                                       *)
(***************************************************************************)

LEMMA ConstantTypes ==
    /\ MaxOpenPerShard \in Nat \ {0} /\ MaximumSequenceLength \in Nat \ {0}
    /\ IsFiniteSet(SequenceIDs) /\ NoOwner \notin Owners
BY ShardAssumption

LEMMA InputType ==
    ASSUME NEW input \in Inputs
    PROVE  input \in Seq(Tokens) \ {<<>>} /\ Len(input) >= 1
<1>1. PICK length \in 1..MaxInput : input \in [1..length -> Tokens]
  BY DEF Inputs
<1>2. length \in Nat /\ length >= 1
  BY <1>1, ClientAssumption
<1>3. input \in Seq(Tokens)
  BY <1>1, <1>2
<1>4. Len(input) = length
  BY <1>1, <1>2, <1>3
<1> QED
  BY <1>2, <1>3, <1>4, EmptySeq

\* What a mutation leaves of its sequence: the input behind what was there, and
\* the result the sequence keeps.
Behind(sequence, m) == sequence.cache \o m.input

Finished(m, failed, content) ==
    [mutation |-> m, failed |-> failed, content |-> IF failed THEN <<>> ELSE content]

LEMMA AdvancedType ==
    ASSUME NEW sequence \in SequenceState, NEW m \in Mutation, NEW failed \in BOOLEAN,
           Len(sequence.cache) = sequence.next, WithinLength(sequence, m)
    PROVE  /\ Advanced(sequence, m, failed) \in SequenceState
           /\ Behind(sequence, m) \in Contents
           /\ Len(Behind(sequence, m)) = Len(sequence.cache) + Len(m.input)
           /\ Advanced(sequence, m, failed).prefilled = TRUE
           /\ Advanced(sequence, m, failed).next = Len(Behind(sequence, m))
           /\ Advanced(sequence, m, failed).cache = Behind(sequence, m)
           /\ Advanced(sequence, m, failed).completed
                = Finished(m, failed, Behind(sequence, m))
           /\ Finished(m, failed, Behind(sequence, m)) \in Completed
<1> DEFINE content == Behind(sequence, m)
           result == Finished(m, failed, content)
           advanced == [owner |-> sequence.owner, prefilled |-> TRUE,
                        next |-> sequence.next + Len(m.input), cache |-> content,
                        completed |-> result]
<1>1. /\ sequence.cache \in Seq(Tokens) /\ sequence.next \in Nat
      /\ sequence.owner \in Owners \cup {NoOwner}
  BY DEF SequenceState, Contents
<1>2. m.input \in Seq(Tokens)
  BY DEF Mutation
<1>3. content \in Seq(Tokens) /\ Len(content) = Len(sequence.cache) + Len(m.input)
  BY <1>1, <1>2, ConcatProperties DEF Behind
<1>4. content \in Contents
  BY <1>1, <1>3 DEF WithinLength, Contents
<1>5. <<>> \in Contents
  BY EmptySeq, ConstantTypes DEF Contents
<1>6. result \in Completed
  BY <1>4, <1>5 DEF Completed, Finished
<1>7. sequence.next + Len(m.input) \in Nat /\ sequence.next + Len(m.input) = Len(content)
  BY <1>1, <1>2, <1>3
<1>8. advanced \in SequenceState
  <2> HIDE DEF content, result
  <2> QED
    BY <1>1, <1>4, <1>6, <1>7 DEF SequenceState
<1>9. Advanced(sequence, m, failed) = advanced
  BY DEF Advanced, Behind, Finished
<1>10. /\ advanced.prefilled = TRUE /\ advanced.cache = content
       /\ advanced.next = Len(content) /\ advanced.completed = result
  <2> HIDE DEF content, result
  <2> QED
    BY <1>7
<1> HIDE DEF advanced
<1> QED
  BY <1>3, <1>4, <1>6, <1>8, <1>9, <1>10

LEMMA NewSequenceType ==
    ASSUME NEW owner \in Owners \cup {NoOwner}
    PROVE  /\ NewSequence(owner) \in SequenceState
           /\ NewSequence(owner).completed = NoMutation
           /\ NewSequence(owner).cache = <<>>
           /\ NewSequence(owner).next = 0
           /\ NewSequence(owner).prefilled = FALSE
<1>1. <<>> \in Contents
  BY EmptySeq, ConstantTypes DEF Contents
<1> QED
  BY <1>1 DEF NewSequence, SequenceState

\* TypeOK, the part of the service and the part of its clients.
ServiceOK ==
    /\ loaded \in SUBSET Shards
    /\ sequences \in [Shards -> [SequenceIDs -> SequenceState \cup {Closed}]]
    /\ \A shard \in Shards :
         /\ shard \notin loaded => OpenOn(shard) = {}
         /\ Cardinality(OpenOn(shard)) <= MaxOpenPerShard

ClientsOK ==
    /\ answers \in [Shards -> [SequenceIDs -> SUBSET Answer]]
    /\ spoiled \in [Shards -> SUBSET SequenceIDs]
    /\ \A shard \in Shards, id \in SequenceIDs :
         sequences[shard][id] = Closed => answers[shard][id] = {}

LEMMA TypeParts ==
    /\ TypeOK <=> ServiceOK /\ ClientsOK
    /\ TypeOK' <=> ServiceOK' /\ ClientsOK'
<1>1. TypeOK <=> ServiceOK /\ ClientsOK
  BY DEF TypeOK, ServiceOK, ClientsOK
<1>2. TypeOK' <=> ServiceOK' /\ ClientsOK'
  BY DEF TypeOK, ServiceOK, ClientsOK
<1> QED
  BY <1>1, <1>2

LEMMA OpenOnFinite ==
    ASSUME NEW shard \in Shards
    PROVE  /\ IsFiniteSet(OpenOn(shard)) /\ Cardinality(OpenOn(shard)) \in Nat
           /\ IsFiniteSet(OpenOn(shard)') /\ Cardinality(OpenOn(shard)') \in Nat
<1>1. OpenOn(shard) \subseteq SequenceIDs /\ OpenOn(shard)' \subseteq SequenceIDs
  BY DEF OpenOn
<1> QED
  BY <1>1, ConstantTypes, FS_Subset, FS_CardinalityType

\* A step that changes one sequence of one shard.
Sets(shard, id, value) == sequences' = [sequences EXCEPT ![shard][id] = value]

LEMMA OneChanged ==
    ASSUME ServiceOK, NEW shard \in Shards, NEW id \in SequenceIDs,
           NEW value \in SequenceState \cup {Closed}, Sets(shard, id, value)
    PROVE  /\ sequences' \in [Shards -> [SequenceIDs -> SequenceState \cup {Closed}]]
           /\ sequences'[shard][id] = value
           /\ \A s \in Shards, i \in SequenceIDs :
                s # shard \/ i # id => sequences'[s][i] = sequences[s][i]
BY DEF ServiceOK, Sets

\* A sequence that changes its state and stays open, or is closed.
LEMMA ServiceShrinks ==
    ASSUME ServiceOK, loaded' = loaded,
           sequences' \in [Shards -> [SequenceIDs -> SequenceState \cup {Closed}]],
           \A s \in Shards, i \in SequenceIDs :
              sequences[s][i] = Closed => sequences'[s][i] = Closed
    PROVE  ServiceOK'
<1>1. \A s \in Shards : OpenOn(s)' \subseteq OpenOn(s)
  BY DEF OpenOn, IsOpen
<1>2. ASSUME NEW s \in Shards
      PROVE  Cardinality(OpenOn(s)') <= MaxOpenPerShard
  <2>1. Cardinality(OpenOn(s)') <= Cardinality(OpenOn(s))
    BY <1>1, OpenOnFinite, FS_Subset
  <2> QED
    BY <2>1, OpenOnFinite, ConstantTypes DEF ServiceOK
<1>3. \A s \in Shards : s \notin loaded' => OpenOn(s)' = {}
  BY <1>1 DEF ServiceOK
<1> QED
  BY <1>2, <1>3 DEF ServiceOK

LEMMA LoadKeeps ==
    ASSUME ServiceOK, NEW shard \in Shards, NEW status, LoadShard(shard, status)
    PROVE  ServiceOK'
<1>1. \A s \in Shards : OpenOn(s)' = OpenOn(s)
  BY DEF LoadShard, OpenOn, IsOpen
<1>2. loaded \subseteq loaded' /\ loaded' \subseteq Shards
  BY DEF LoadShard, ServiceOK
<1> QED
  BY <1>1, <1>2 DEF LoadShard, ServiceOK

LEMMA UnloadKeeps ==
    ASSUME ServiceOK, NEW shard \in Shards, NEW status, UnloadShard(shard, status)
    PROVE  ServiceOK'
<1>1. \A s \in Shards : OpenOn(s)' = OpenOn(s)
  BY DEF UnloadShard, OpenOn, IsOpen
<1>2. /\ loaded' \subseteq Shards
      /\ \A s \in loaded \ loaded' : OpenOn(s) = {}
  BY DEF UnloadShard, ServiceOK
<1> QED
  BY <1>1, <1>2 DEF UnloadShard, ServiceOK

LEMMA OpenKeeps ==
    ASSUME ServiceOK, NEW shard \in Shards, NEW id \in SequenceIDs,
           NEW owner \in Owners \cup {NoOwner}, NEW status,
           OpenSequence(shard, id, owner, status)
    PROVE  ServiceOK'
<1>1. CASE UNCHANGED sequences
  BY <1>1, ServiceShrinks DEF OpenSequence, ServiceOK
<1>2. CASE /\ shard \in loaded /\ ~IsOpen(shard, id) /\ HasRoom(shard)
           /\ sequences' = [sequences EXCEPT ![shard][id] = NewSequence(owner)]
  <2>1. NewSequence(owner) \in SequenceState \cup {Closed}
    BY NewSequenceType
  <2>2. /\ sequences' \in [Shards -> [SequenceIDs -> SequenceState \cup {Closed}]]
        /\ \A s \in Shards, i \in SequenceIDs :
             s # shard \/ i # id => sequences'[s][i] = sequences[s][i]
    <3>1. Sets(shard, id, NewSequence(owner))
      BY <1>2 DEF Sets
    <3> QED
      BY <2>1, <3>1, OneChanged
  <2>3. /\ \A s \in Shards \ {shard} : OpenOn(s)' = OpenOn(s)
        /\ OpenOn(shard)' \subseteq OpenOn(shard) \cup {id}
    BY <2>2 DEF OpenOn, IsOpen
  <2>4. Cardinality(OpenOn(shard)') <= MaxOpenPerShard
    <3>1. /\ IsFiniteSet(OpenOn(shard) \cup {id})
          /\ Cardinality(OpenOn(shard) \cup {id}) <= Cardinality(OpenOn(shard)) + 1
      <4> DEFINE open == OpenOn(shard)
      <4>1. IsFiniteSet(open) /\ Cardinality(open) \in Nat
        BY OpenOnFinite
      <4> HIDE DEF open
      <4>2. IsFiniteSet(open \cup {id})
        BY <4>1, FS_AddElement
      <4>3. Cardinality(open \cup {id}) = IF id \in open THEN Cardinality(open)
                                         ELSE Cardinality(open) + 1
        BY <4>1, FS_AddElement
      <4>4. Cardinality(open \cup {id}) <= Cardinality(open) + 1
        BY <4>1, <4>3
      <4> QED
        BY <4>2, <4>4 DEF open
    <3>2. Cardinality(OpenOn(shard)') <= Cardinality(OpenOn(shard) \cup {id})
      BY <2>3, <3>1, FS_Subset
    <3>3. Cardinality(OpenOn(shard) \cup {id}) \in Nat
      BY <3>1, FS_CardinalityType
    <3> QED
      BY <1>2, <3>1, <3>2, <3>3, OpenOnFinite, ConstantTypes DEF HasRoom
  <2>5. loaded' = loaded
    BY DEF OpenSequence
  <2> QED
    BY <1>2, <2>2, <2>3, <2>4, <2>5 DEF ServiceOK
<1> QED
  BY <1>1, <1>2 DEF OpenSequence

LEMMA CloseKeeps ==
    ASSUME ServiceOK, NEW shard \in Shards, NEW id \in SequenceIDs, NEW owner, NEW status,
           CloseSequence(shard, id, owner, status)
    PROVE  ServiceOK'
<1>1. CASE UNCHANGED sequences
  BY <1>1, ServiceShrinks DEF CloseSequence, ServiceOK
<1>2. CASE sequences' = [sequences EXCEPT ![shard][id] = Closed]
  <2>1. Sets(shard, id, Closed)
    BY <1>2 DEF Sets
  <2>2. /\ sequences' \in [Shards -> [SequenceIDs -> SequenceState \cup {Closed}]]
        /\ sequences'[shard][id] = Closed
        /\ \A s \in Shards, i \in SequenceIDs :
             s # shard \/ i # id => sequences'[s][i] = sequences[s][i]
    BY <2>1, OneChanged
  <2>3. \A s \in Shards, i \in SequenceIDs :
           sequences[s][i] = Closed => sequences'[s][i] = Closed
    BY <2>2
  <2>4. loaded' = loaded
    BY DEF CloseSequence
  <2> QED
    BY <2>2, <2>3, <2>4, ServiceShrinks
<1> QED
  BY <1>1, <1>2 DEF CloseSequence

LEMMA EndKeeps ==
    ASSUME ServiceOK, NEW worker \in Workers, EndProcess(worker)
    PROVE  ServiceOK'
<1>1. sequences' \in [Shards -> [SequenceIDs -> SequenceState \cup {Closed}]]
  BY DEF EndProcess, ServiceOK
<1>2. /\ \A s \in Shards : OpenOn(s)' \subseteq OpenOn(s)
      /\ \A s \in HostedOn(worker) : OpenOn(s)' = {}
  BY DEF EndProcess, ServiceOK, OpenOn, IsOpen, HostedOn
<1>3. ASSUME NEW s \in Shards
      PROVE  Cardinality(OpenOn(s)') <= MaxOpenPerShard
  <2>1. Cardinality(OpenOn(s)') <= Cardinality(OpenOn(s))
    BY <1>2, OpenOnFinite, FS_Subset
  <2> QED
    BY <2>1, OpenOnFinite, ConstantTypes DEF ServiceOK
<1>4. loaded' = loaded \ HostedOn(worker)
  BY DEF EndProcess
<1>5. \A s \in Shards : s \notin loaded' => OpenOn(s)' = {}
  BY <1>2, <1>4 DEF ServiceOK
<1> QED
  BY <1>1, <1>3, <1>4, <1>5 DEF ServiceOK

\* What an answered mutation did: nothing, or it advanced its sequence.
Advances(shard, id, m, failed) ==
    /\ IsOpen(shard, id)
    /\ Computable(shard, sequences[shard][id], m)
    /\ sequences' = [sequences EXCEPT ![shard][id] = Advanced(sequences[shard][id], m, failed)]

LEMMA MutateStep ==
    ASSUME ServiceOK, NEW shard \in Shards, NEW id \in SequenceIDs, NEW m, NEW status,
           Mutate(shard, id, m, status)
    PROVE  /\ loaded' = loaded
           /\ \/ /\ sequences' = sequences
                 /\ status = "ok" =>
                      /\ IsOpen(shard, id)
                      /\ Repeats(sequences[shard][id], m)
                      /\ ~sequences[shard][id].completed.failed
              \/ /\ Advances(shard, id, m, TRUE)
                 /\ status = "refused"
              \/ /\ Advances(shard, id, m, FALSE)
                 /\ status \in {"ok", "expired"}
<1>1. loaded' = loaded
  BY DEF Mutate
<1>2. CASE status \in {"expired", "refused"} /\ UNCHANGED sequences
  BY <1>1, <1>2
<1>3. CASE /\ Addressed(shard, id, m.sampled)
           /\ Repeats(sequences[shard][id], m)
           /\ ~sequences[shard][id].completed.failed
           /\ UNCHANGED sequences
  BY <1>1, <1>3 DEF Addressed
<1>4. CASE /\ Addressed(shard, id, m.sampled)
           /\ Computable(shard, sequences[shard][id], m)
           /\ Compute(shard, id, m, status)
  <2>1. PICK failed \in BOOLEAN :
          /\ status \in IF failed THEN {"refused"} ELSE {"ok", "expired"}
          /\ sequences' = [sequences EXCEPT
                             ![shard][id] = Advanced(sequences[shard][id], m, failed)]
    BY <1>4 DEF Compute, ServiceOK
  <2>2. CASE failed = TRUE
    BY <1>1, <1>4, <2>1, <2>2 DEF Advances, Addressed
  <2>3. CASE failed = FALSE
    BY <1>1, <1>4, <2>1, <2>3 DEF Advances, Addressed
  <2> QED
    BY <2>2, <2>3
<1> QED
  BY <1>2, <1>3, <1>4 DEF Mutate

\* An advanced sequence is one that changed, and no other did.
LEMMA AdvancesOne ==
    ASSUME ServiceOK, NEW shard \in Shards, NEW id \in SequenceIDs, NEW m \in Mutation,
           NEW failed \in BOOLEAN, Advances(shard, id, m, failed)
    PROVE  /\ sequences[shard][id] \in SequenceState
           /\ sequences'[shard][id] \in SequenceState
           /\ sequences'[shard][id] = Advanced(sequences[shard][id], m, failed)
           /\ sequences' \in [Shards -> [SequenceIDs -> SequenceState \cup {Closed}]]
           /\ \A s \in Shards, i \in SequenceIDs :
                s # shard \/ i # id => sequences'[s][i] = sequences[s][i]
<1>1. sequences[shard][id] \in SequenceState
  BY DEF Advances, IsOpen, ServiceOK
<1>2. /\ Len(sequences[shard][id].cache) = sequences[shard][id].next
      /\ WithinLength(sequences[shard][id], m)
  BY DEF Advances, Computable, InPlace
<1> DEFINE value == Advanced(sequences[shard][id], m, failed)
<1>3. value \in SequenceState
  BY <1>1, <1>2, AdvancedType
<1>4. Sets(shard, id, value)
  BY DEF Advances, Sets
<1> HIDE DEF value
<1>5. /\ sequences' \in [Shards -> [SequenceIDs -> SequenceState \cup {Closed}]]
      /\ sequences'[shard][id] = value
      /\ \A s \in Shards, i \in SequenceIDs :
           s # shard \/ i # id => sequences'[s][i] = sequences[s][i]
  BY <1>3, <1>4, OneChanged
<1> QED
  BY <1>1, <1>3, <1>5 DEF value

\* What an advanced sequence looks like.
LEMMA AdvancesTo ==
    ASSUME ServiceOK, NEW shard \in Shards, NEW id \in SequenceIDs, NEW m \in Mutation,
           NEW failed \in BOOLEAN, Advances(shard, id, m, failed)
    PROVE  /\ Behind(sequences[shard][id], m) \in Contents
           /\ Len(Behind(sequences[shard][id], m))
                = Len(sequences[shard][id].cache) + Len(m.input)
           /\ sequences'[shard][id].prefilled = TRUE
           /\ sequences'[shard][id].next = Len(Behind(sequences[shard][id], m))
           /\ sequences'[shard][id].cache = Behind(sequences[shard][id], m)
           /\ sequences'[shard][id].completed
                = Finished(m, failed, Behind(sequences[shard][id], m))
           /\ Finished(m, failed, Behind(sequences[shard][id], m)) \in Completed
<1>1. /\ Len(sequences[shard][id].cache) = sequences[shard][id].next
      /\ WithinLength(sequences[shard][id], m)
  BY DEF Advances, Computable, InPlace
<1>2. /\ sequences[shard][id] \in SequenceState
      /\ sequences'[shard][id] = Advanced(sequences[shard][id], m, failed)
  BY AdvancesOne
<1> DEFINE before == sequences[shard][id]
           after == sequences'[shard][id]
<1> HIDE DEF before, after
<1>3. before \in SequenceState /\ after = Advanced(before, m, failed)
  BY <1>2 DEF before, after
<1>4. Len(before.cache) = before.next /\ WithinLength(before, m)
  BY <1>1 DEF before
<1>5. /\ Behind(before, m) \in Contents
      /\ Len(Behind(before, m)) = Len(before.cache) + Len(m.input)
      /\ after.prefilled = TRUE
      /\ after.next = Len(Behind(before, m))
      /\ after.cache = Behind(before, m)
      /\ after.completed = Finished(m, failed, Behind(before, m))
      /\ Finished(m, failed, Behind(before, m)) \in Completed
  BY <1>3, <1>4, AdvancedType
<1> QED
  BY <1>5 DEF before, after

LEMMA MutateKeeps ==
    ASSUME ServiceOK, NEW shard \in Shards, NEW id \in SequenceIDs, NEW m \in Mutation,
           NEW status, Mutate(shard, id, m, status)
    PROVE  ServiceOK'
<1>1. loaded' = loaded
  BY MutateStep
<1>2. CASE sequences' = sequences
  BY <1>1, <1>2, ServiceShrinks DEF ServiceOK
<1>3. ASSUME NEW failed \in BOOLEAN, Advances(shard, id, m, failed)
      PROVE  ServiceOK'
  <2>1. /\ sequences' \in [Shards -> [SequenceIDs -> SequenceState \cup {Closed}]]
        /\ \A s \in Shards, i \in SequenceIDs :
             s # shard \/ i # id => sequences'[s][i] = sequences[s][i]
    BY <1>3, AdvancesOne
  <2>2. sequences[shard][id] # Closed
    BY <1>3 DEF Advances, IsOpen
  <2> QED
    BY <1>1, <2>1, <2>2, ServiceShrinks
<1> QED
  BY <1>2, <1>3, MutateStep

LEMMA ManageKeeps ==
    ASSUME ServiceOK, Manage
    PROVE  ServiceOK'
BY LoadKeeps, UnloadKeeps, OpenKeeps, CloseKeeps, EndKeeps
   DEF Manage, Load, Unload, Open, Close, End

LEMMA InitType == Init => TypeOK
<1> SUFFICES ASSUME Init PROVE TypeOK
  OBVIOUS
<1>1. \A shard \in Shards : OpenOn(shard) = {}
  BY DEF Init, ServiceInit, OpenOn, IsOpen
<1>2. \A shard \in Shards : Cardinality(OpenOn(shard)) <= MaxOpenPerShard
  <2>1. Cardinality({}) = 0
    BY FS_EmptySet
  <2> QED
    BY <1>1, <2>1, ConstantTypes
<1>3. ServiceOK
  BY <1>1, <1>2 DEF Init, ServiceInit, ServiceOK
<1>4. ClientsOK
  BY DEF Init, ClientsOK
<1> QED
  BY <1>3, <1>4, TypeParts

LEMMA ForgetKeeps ==
    ASSUME ClientsOK, ForgetClosed
    PROVE  ClientsOK'
BY DEF ClientsOK, ForgetClosed

\* The answer a client gets, of a mutation repeated or just computed.
LEMMA ResultIs ==
    ASSUME ServiceOK, NEW shard \in Shards, NEW id \in SequenceIDs, NEW m \in Mutation,
           Mutate(shard, id, m, "ok")
    PROVE  /\ IsOpen(shard, id)
           /\ Result(shard, id, m) \in Answer
           /\ \/ /\ sequences' = sequences
                 /\ sequences[shard][id].completed # NoMutation
                 /\ ~sequences[shard][id].completed.failed
                 /\ sequences[shard][id].completed.mutation = m
                 /\ Result(shard, id, m).content = sequences[shard][id].completed.content
              \/ /\ Advances(shard, id, m, FALSE)
                 /\ Result(shard, id, m).content = sequences[shard][id].cache \o m.input
<1>1. m.position \in Nat /\ m.input \in Seq(Tokens) \ {<<>>}
  BY DEF Mutation
<1>2. CASE /\ sequences' = sequences
           /\ IsOpen(shard, id)
           /\ Repeats(sequences[shard][id], m)
           /\ ~sequences[shard][id].completed.failed
  <2>1. sequences[shard][id].completed \in Completed
    BY <1>2 DEF ServiceOK, IsOpen, Repeats, SequenceState
  <2>2. sequences[shard][id].completed.content \in Contents
    BY <2>1 DEF Completed
  <2>3. Result(shard, id, m) \in Answer
    BY <1>1, <1>2, <2>2 DEF Result, Answer
  <2> QED
    BY <1>2, <2>3 DEF Result, Repeats
<1>3. CASE Advances(shard, id, m, FALSE)
  <2> DEFINE content == sequences[shard][id].cache \o m.input
  <2>1. /\ content \in Contents
        /\ sequences'[shard][id].completed =
             [mutation |-> m, failed |-> FALSE,
              content |-> IF FALSE THEN <<>> ELSE content]
    BY <1>3, AdvancesTo DEF Behind, Finished
  <2> HIDE DEF content
  <2>2. Result(shard, id, m) \in Answer /\ Result(shard, id, m).content = content
    BY <1>1, <2>1 DEF Result, Answer
  <2> QED
    BY <1>3, <2>2 DEF content, Advances
<1>4. \/ /\ sequences' = sequences
         /\ IsOpen(shard, id)
         /\ Repeats(sequences[shard][id], m)
         /\ ~sequences[shard][id].completed.failed
      \/ Advances(shard, id, m, FALSE)
  <2>1. "ok" # "refused"
    OBVIOUS
  <2> QED
    BY <2>1, MutateStep
<1> QED
  BY <1>2, <1>3, <1>4

LEMMA InferKeeps ==
    ASSUME TypeOK, NEW shard \in Shards, NEW id \in SequenceIDs, NEW m \in Mutation,
           Infer(shard, id, m)
    PROVE  TypeOK'
<1>1. ServiceOK /\ ClientsOK
  BY TypeParts
<1>2. PICK status \in Statuses :
        /\ Mutate(shard, id, m, status)
        /\ answers' = [answers EXCEPT ![shard][id] =
              IF status = "ok" THEN answers[shard][id] \cup {Result(shard, id, m)}
              ELSE answers[shard][id]]
        /\ spoiled' = [spoiled EXCEPT ![shard] =
              IF status = "refused" /\ sequences' # sequences THEN spoiled[shard] \cup {id}
              ELSE spoiled[shard]]
  BY <1>1 DEF Infer, ClientsOK
<1>3. ServiceOK'
  BY <1>1, <1>2, MutateKeeps
<1>4. spoiled' \in [Shards -> SUBSET SequenceIDs]
  BY <1>1, <1>2 DEF ClientsOK
<1>5. ASSUME NEW s \in Shards, NEW i \in SequenceIDs, sequences'[s][i] = Closed
      PROVE  sequences[s][i] = Closed
  <2>1. CASE sequences' = sequences
    BY <1>5, <2>1
  <2>2. ASSUME NEW failed \in BOOLEAN, Advances(shard, id, m, failed)
        PROVE  sequences[s][i] = Closed
    <3>1. /\ sequences'[shard][id] \in SequenceState
          /\ \A t \in Shards, j \in SequenceIDs :
               t # shard \/ j # id => sequences'[t][j] = sequences[t][j]
      BY <1>1, <2>2, AdvancesOne
    <3> QED
      BY <1>5, <3>1, NoConfusion
  <2> QED
    BY <1>1, <1>2, <2>1, <2>2, MutateStep
<1>6. CASE status = "ok"
  <2> DEFINE result == Result(shard, id, m)
  <2>1. IsOpen(shard, id) /\ result \in Answer
    BY <1>1, <1>2, <1>6, ResultIs
  <2> HIDE DEF result
  <2>2. answers' = [answers EXCEPT ![shard][id] = answers[shard][id] \cup {result}]
    BY <1>2, <1>6 DEF result
  <2>3. /\ answers' \in [Shards -> [SequenceIDs -> SUBSET Answer]]
        /\ \A s \in Shards, i \in SequenceIDs :
             s # shard \/ i # id => answers'[s][i] = answers[s][i]
    BY <1>1, <2>1, <2>2 DEF ClientsOK
  <2> QED
    BY <1>1, <1>3, <1>4, <1>5, <2>1, <2>3, TypeParts DEF ClientsOK, IsOpen
<1>7. CASE status # "ok"
  <2>1. answers' = answers
    BY <1>1, <1>2, <1>7 DEF ClientsOK
  <2> QED
    BY <1>1, <1>3, <1>4, <1>5, <2>1, TypeParts DEF ClientsOK
<1> QED
  BY <1>6, <1>7

\* Every request is one of these.
LEMMA Requests ==
    ASSUME Prefill \/ Decode
    PROVE  \E shard \in Shards, id \in SequenceIDs, m \in Mutation : Infer(shard, id, m)
<1>1. ASSUME NEW op \in {"prefill", "decode"}, NEW position \in Positions,
             NEW input \in Inputs, NEW sampled \in BOOLEAN
      PROVE  [op |-> op, position |-> position, input |-> input, sampled |-> sampled]
               \in Mutation
  <2>1. position \in Nat
    BY ConstantTypes DEF Positions
  <2>2. input \in Seq(Tokens) \ {<<>>}
    BY InputType
  <2> QED
    BY <2>1, <2>2 DEF Mutation
<1> QED
  BY <1>1 DEF Prefill, Decode

LEMMA StepType == TypeOK /\ [Next]_vars => TypeOK'
<1> SUFFICES ASSUME TypeOK, [Next]_vars PROVE TypeOK'
  OBVIOUS
<1>1. ServiceOK /\ ClientsOK
  BY TypeParts
<1>2. CASE Manage
  <2>1. ForgetClosed
    BY <1>2 DEF Manage
  <2> QED
    BY <1>1, <1>2, <2>1, ManageKeeps, ForgetKeeps, TypeParts
<1>3. CASE Prefill \/ Decode
  BY <1>3, Requests, InferKeeps
<1>4. CASE UNCHANGED vars
  BY <1>4 DEF vars, serviceVars, TypeOK, OpenOn, IsOpen
<1> QED
  BY <1>2, <1>3, <1>4 DEF Next

\* A sequence is open only on a loaded shard, on no shard more than the limit,
\* and a result is kept only for an open sequence (unloadShard, openSequence).
THEOREM TypeCorrect == Spec => []TypeOK
BY InitType, StepType, PTL DEF Spec

----------------------------------------------------------------------------
(***************************************************************************)
(* Every position is computed once.  What has to be kept along with it: a  *)
(* cache is as long as the next position, and the retained result, which   *)
(* may be answered later, is a result of the cache as those already        *)
(* answered are.                                                           *)
(***************************************************************************)

\* The retained result as the client that repeats its request gets it.
Retained(sequence) ==
    IF sequence.completed = NoMutation \/ sequence.completed.failed THEN {}
    ELSE {[position |-> sequence.completed.mutation.position,
           input |-> sequence.completed.mutation.input,
           content |-> sequence.completed.content]}

Known(shard, id) == answers[shard][id] \cup Retained(sequences[shard][id])

ResultsOf(known, cache) ==
    /\ known \subseteq Answer
    /\ \A answer \in known : IsResultOf(answer, cache)
    /\ \A answer, other \in known : answer.position = other.position => answer = other

ComputedInv ==
    \A shard \in Shards, id \in SequenceIDs : IsOpen(shard, id) =>
       LET sequence == sequences[shard][id]
       IN /\ Len(sequence.cache) = sequence.next
          /\ ~sequence.prefilled => sequence.cache = <<>>
          /\ ResultsOf(Known(shard, id), sequence.cache)

LEMMA ResultsOfSubset ==
    ASSUME NEW known, NEW fewer \in SUBSET known, NEW cache, ResultsOf(known, cache)
    PROVE  ResultsOf(fewer, cache)
BY DEF ResultsOf

\* The cache grows by the input, and the result is the only one for its position.
LEMMA ResultsGrow ==
    ASSUME NEW cache \in Contents, NEW input \in Seq(Tokens) \ {<<>>},
           cache \o input \in Contents,
           NEW known, ResultsOf(known, cache)
    PROVE  ResultsOf(known \cup {[position |-> Len(cache), input |-> input,
                                  content |-> cache \o input]},
                     cache \o input)
<1> DEFINE content == cache \o input
           result == [position |-> Len(cache), input |-> input, content |-> content]
<1>1. cache \in Seq(Tokens) /\ input \in Seq(Tokens) /\ Len(cache) \in Nat
  BY DEF Contents
<1>2. Len(input) \in Nat \ {0}
  BY EmptySeq
<1>3. /\ content \in Seq(Tokens)
      /\ Len(content) = Len(cache) + Len(input)
      /\ \A i \in 1..Len(cache) : content[i] = cache[i]
      /\ \A i \in 1..Len(input) : content[Len(cache) + i] = input[i]
  <2>1. \A i \in 1..(Len(cache) + Len(input)) :
          content[i] = IF i <= Len(cache) THEN cache[i] ELSE input[i - Len(cache)]
    BY <1>1, ConcatProperties
  <2> HIDE DEF content
  <2>2. \A i \in 1..Len(cache) : content[i] = cache[i]
    BY <1>1, <1>2, <2>1
  <2>3. ASSUME NEW i \in 1..Len(input) PROVE content[Len(cache) + i] = input[i]
    <3>1. /\ Len(cache) + i \in 1..(Len(cache) + Len(input))
          /\ ~(Len(cache) + i <= Len(cache))
          /\ (Len(cache) + i) - Len(cache) = i
      BY <1>1, <1>2
    <3> QED
      BY <2>1, <3>1
  <2>4. content \in Seq(Tokens) /\ Len(content) = Len(cache) + Len(input)
    BY <1>1, ConcatProperties DEF content
  <2> QED
    BY <2>2, <2>3, <2>4
<1>4. result \in Answer /\ IsResultOf(result, content)
  <2> HIDE DEF content
  <2>1. content \in Contents
    BY DEF content
  <2>2. result \in Answer
    BY <1>1, <2>1 DEF Answer
  <2>3. IsResultOf(result, content)
    <3>1. result.position = Len(cache) /\ result.input = input /\ result.content = content
      OBVIOUS
    <3> HIDE DEF result
    <3>2. Len(content) <= Len(content)
      BY <1>1, <1>2, <1>3
    <3> QED
      BY <1>3, <3>1, <3>2 DEF IsResultOf
  <2> QED
    BY <2>2, <2>3
<1>5. ASSUME NEW answer \in known
      PROVE  IsResultOf(answer, content) /\ answer.position < Len(cache)
  <2>1. answer \in Answer /\ IsResultOf(answer, cache)
    BY DEF ResultsOf
  <2>2. /\ answer.position \in Nat /\ Len(answer.input) \in Nat \ {0}
        /\ Len(answer.content) \in Nat
    <3>1. answer.input \in Seq(Tokens) \ {<<>>} /\ answer.content \in Contents
          /\ answer.position \in Nat
      BY <2>1 DEF Answer
    <3> QED
      BY <3>1, EmptySeq DEF Contents
  <2>3. /\ Len(answer.content) = answer.position + Len(answer.input)
        /\ Len(answer.content) <= Len(cache)
        /\ \A i \in 1..Len(answer.content) : answer.content[i] = cache[i]
        /\ \A i \in 1..Len(answer.input) :
             answer.input[i] = answer.content[answer.position + i]
    BY <2>1 DEF IsResultOf
  <2> HIDE DEF content
  <2>4. Len(answer.content) <= Len(content)
    BY <1>1, <1>2, <1>3, <2>2, <2>3
  <2>5. \A i \in 1..Len(answer.content) : answer.content[i] = content[i]
    BY <1>1, <1>3, <2>2, <2>3
  <2>6. answer.position < Len(cache)
    BY <1>1, <2>2, <2>3
  <2> QED
    BY <2>3, <2>4, <2>5, <2>6 DEF IsResultOf
<1>6. \A answer, other \in known : answer.position = other.position => answer = other
  BY DEF ResultsOf
<1>7. known \subseteq Answer
  BY DEF ResultsOf
<1>8. result.position = Len(cache) /\ \A answer \in known : answer.position \in Nat
  BY <1>7 DEF Answer
<1> HIDE DEF result, content
<1>9. \A answer, other \in known \cup {result} :
        answer.position = other.position => answer = other
  BY <1>1, <1>5, <1>6, <1>8
<1>10. ResultsOf(known \cup {result}, content)
  BY <1>4, <1>5, <1>7, <1>9 DEF ResultsOf
<1> QED
  BY <1>10 DEF result, content

\* Opening, closing and ending leave what stays open as it was.
LEMMA ManageComputed ==
    ASSUME ServiceOK, ClientsOK, ComputedInv, Manage
    PROVE  ComputedInv'
<1>1. ForgetClosed
  BY DEF Manage
<1>2. ASSUME NEW shard \in Shards, NEW id \in SequenceIDs, sequences'[shard][id] # Closed
      PROVE  \/ sequences'[shard][id] = sequences[shard][id]
             \/ /\ ~IsOpen(shard, id)
                /\ \E owner \in Owners \cup {NoOwner} :
                      sequences'[shard][id] = NewSequence(owner)
  <2>1. CASE sequences' = sequences
    BY <2>1
  <2>2. ASSUME NEW s \in Shards, NEW i \in SequenceIDs, NEW owner \in Owners \cup {NoOwner},
               ~IsOpen(s, i),
               sequences' = [sequences EXCEPT ![s][i] = NewSequence(owner)]
        PROVE  \/ sequences'[shard][id] = sequences[shard][id]
               \/ /\ ~IsOpen(shard, id)
                  /\ \E o \in Owners \cup {NoOwner} : sequences'[shard][id] = NewSequence(o)
    <3>1. NewSequence(owner) \in SequenceState \cup {Closed}
      BY NewSequenceType
    <3>2. /\ sequences'[s][i] = NewSequence(owner)
          /\ \A t \in Shards, j \in SequenceIDs :
               t # s \/ j # i => sequences'[t][j] = sequences[t][j]
      <4>1. Sets(s, i, NewSequence(owner))
        BY <2>2 DEF Sets
      <4> QED
        BY <3>1, <4>1, OneChanged
    <3> QED
      BY <2>2, <3>2
  <2>3. ASSUME NEW s \in Shards, NEW i \in SequenceIDs,
               sequences' = [sequences EXCEPT ![s][i] = Closed]
        PROVE  sequences'[shard][id] = sequences[shard][id]
    BY <1>2, <2>3, OneChanged
  <2>4. ASSUME NEW worker \in Workers, EndProcess(worker)
        PROVE  sequences'[shard][id] = sequences[shard][id]
    BY <1>2, <2>4 DEF EndProcess, ServiceOK
  <2>5. CASE Open
    BY <2>1, <2>2, <2>5 DEF Open, OpenSequence
  <2>6. CASE Close
    BY <2>1, <2>3, <2>6 DEF Close, CloseSequence
  <2>7. CASE Load \/ Unload
    BY <2>1, <2>7 DEF Load, Unload, LoadShard, UnloadShard
  <2> QED
    BY <2>4, <2>5, <2>6, <2>7 DEF Manage, End
<1> SUFFICES ASSUME NEW shard \in Shards, NEW id \in SequenceIDs, IsOpen(shard, id)'
             PROVE  LET sequence == sequences'[shard][id]
                    IN /\ Len(sequence.cache) = sequence.next
                       /\ ~sequence.prefilled => sequence.cache = <<>>
                       /\ ResultsOf(Known(shard, id)', sequence.cache)
  BY DEF ComputedInv
<1>3. sequences'[shard][id] # Closed
  BY DEF IsOpen
<1>4. answers'[shard][id] = answers[shard][id]
  BY <1>1, <1>3 DEF ForgetClosed
<1>5. CASE IsOpen(shard, id)
  <2>1. sequences'[shard][id] = sequences[shard][id]
    BY <1>2, <1>3, <1>5
  <2> QED
    BY <1>4, <1>5, <2>1 DEF ComputedInv, Known
<1>6. CASE ~IsOpen(shard, id)
  <2>1. PICK owner \in Owners \cup {NoOwner} : sequences'[shard][id] = NewSequence(owner)
    BY <1>2, <1>3, <1>6 DEF IsOpen
  <2>2. answers[shard][id] = {}
    BY <1>6 DEF ClientsOK, IsOpen
  <2>3. Known(shard, id)' = {}
    BY <1>4, <2>1, <2>2, NewSequenceType DEF Known, Retained
  <2> QED
    BY <2>1, <2>3, NewSequenceType, EmptySeq DEF ResultsOf
<1> QED
  BY <1>5, <1>6

LEMMA InferComputed ==
    ASSUME TypeOK, ComputedInv, NEW shard \in Shards, NEW id \in SequenceIDs,
           NEW m \in Mutation, Infer(shard, id, m)
    PROVE  ComputedInv'
<1>1. ServiceOK /\ ClientsOK
  BY TypeParts
<1>2. PICK status \in Statuses :
        /\ Mutate(shard, id, m, status)
        /\ answers' = [answers EXCEPT ![shard][id] =
              IF status = "ok" THEN answers[shard][id] \cup {Result(shard, id, m)}
              ELSE answers[shard][id]]
  BY <1>1 DEF Infer, ClientsOK
<1> DEFINE before == sequences[shard][id]
           after == sequences'[shard][id]
           content == before.cache \o m.input
           result == Result(shard, id, m)
           fresh == [position |-> Len(before.cache), input |-> m.input, content |-> content]
<1>3. result = [position |-> m.position, input |-> m.input, content |-> result.content]
  BY DEF Result
<1>4. \A s \in Shards, i \in SequenceIDs :
        s # shard \/ i # id =>
          answers'[s][i] = answers[s][i] /\ sequences'[s][i] = sequences[s][i]
  <2>1. \A s \in Shards, i \in SequenceIDs :
          s # shard \/ i # id => answers'[s][i] = answers[s][i]
    BY <1>1, <1>2 DEF ClientsOK
  <2>2. \A s \in Shards, i \in SequenceIDs :
          s # shard \/ i # id => sequences'[s][i] = sequences[s][i]
    BY <1>1, <1>2, MutateStep, AdvancesOne
  <2> QED
    BY <2>1, <2>2
<1>5. answers'[shard][id] = IF status = "ok" THEN answers[shard][id] \cup {result}
                            ELSE answers[shard][id]
  <2> HIDE DEF result
  <2> QED
    BY <1>1, <1>2 DEF ClientsOK, result
<1>6. ASSUME sequences' = sequences, IsOpen(shard, id)
      PROVE  Known(shard, id)' \subseteq Known(shard, id)
  <2>1. CASE status = "ok"
    <3>1. /\ before.completed # NoMutation
          /\ ~before.completed.failed
          /\ before.completed.mutation = m
          /\ result.content = before.completed.content
      <4>1. Mutate(shard, id, m, "ok")
        BY <1>2, <2>1
      <4>2. ~Advances(shard, id, m, FALSE)
        <5>1. SUFFICES ASSUME Advances(shard, id, m, FALSE) PROVE FALSE
          OBVIOUS
        <5>2. /\ Len(content) = Len(before.cache) + Len(m.input)
              /\ after.cache = content
              /\ before \in SequenceState
          BY <1>1, <5>1, AdvancesTo, AdvancesOne DEF Behind
        <5>3. Len(before.cache) \in Nat /\ Len(m.input) \in Nat \ {0}
          BY <5>2, EmptySeq DEF SequenceState, Contents, Mutation
        <5> HIDE DEF content
        <5>4. content = before.cache
          BY <1>6, <5>2
        <5>5. Len(content) = Len(before.cache)
          BY <5>4
        <5>6. Len(before.cache) = Len(before.cache) + Len(m.input)
          BY <5>2, <5>5
        <5>7. \A a \in Nat, b \in Nat \ {0} : a # a + b
          OBVIOUS
        <5> QED
          BY <5>3, <5>6, <5>7, Zenon
      <4> QED
        BY <1>1, <4>1, <4>2, ResultIs
    <3>2. result \in Retained(before)
      BY <1>3, <3>1 DEF Retained
    <3> HIDE DEF result
    <3> QED
      BY <1>5, <1>6, <2>1, <3>2 DEF Known
  <2>2. CASE status # "ok"
    BY <1>5, <1>6, <2>2 DEF Known
  <2> QED
    BY <2>1, <2>2
<1>7. ASSUME NEW failed \in BOOLEAN, Advances(shard, id, m, failed),
             failed => status # "ok"
      PROVE  /\ before \in SequenceState
             /\ m.position = Len(before.cache)
             /\ content \in Contents
             /\ after.next = Len(content)
             /\ after.prefilled = TRUE
             /\ after.cache = content
             /\ Known(shard, id)' \subseteq Known(shard, id) \cup {fresh}
  <2>1. /\ before \in SequenceState
        /\ content \in Contents
        /\ after.next = Len(content)
        /\ after.prefilled = TRUE
        /\ after.cache = content
        /\ after.completed = [mutation |-> m, failed |-> failed,
                              content |-> IF failed THEN <<>> ELSE content]
    <3>1. before \in SequenceState
      BY <1>1, <1>7, AdvancesOne
    <3>2. /\ Behind(before, m) \in Contents
          /\ after.next = Len(Behind(before, m))
          /\ after.prefilled = TRUE
          /\ after.cache = Behind(before, m)
          /\ after.completed = Finished(m, failed, Behind(before, m))
      BY <1>1, <1>7, AdvancesTo
    <3> QED
      BY <3>1, <3>2 DEF Behind, Finished
  <2>2. m.position = Len(before.cache)
    <3>1. IsOpen(shard, id) /\ InPlace(before, m)
      BY <1>7 DEF Advances, Computable
    <3>2. m.op \in {"prefill", "decode"}
      BY DEF Mutation
    <3>3. Len(<<>>) = 0
      OBVIOUS
    <3> QED
      BY <3>1, <3>2, <3>3 DEF InPlace, ComputedInv
  <2>3. Retained(after) \subseteq {fresh}
    <3> HIDE DEF content
    <3>1. CASE failed = TRUE
      BY <2>1, <3>1 DEF Retained
    <3>2. CASE failed = FALSE
      BY <2>1, <2>2, <3>2 DEF Retained
    <3> QED
      BY <3>1, <3>2
  <2>4. status = "ok" => result = fresh
    <3>1. SUFFICES ASSUME status = "ok" PROVE result = fresh
      OBVIOUS
    <3>2. after.completed = [mutation |-> m, failed |-> FALSE,
                             content |-> IF FALSE THEN <<>> ELSE content]
      BY <1>7, <2>1, <3>1
    <3>3. result.content = content
      <4> HIDE DEF content
      <4> QED
        BY <3>2 DEF Result
    <3> HIDE DEF content
    <3> QED
      BY <1>3, <2>2, <3>3
  <2>5. Known(shard, id)' \subseteq Known(shard, id) \cup {fresh}
    <3> HIDE DEF result, fresh
    <3>1. Known(shard, id)' = answers'[shard][id] \cup Retained(after)
      BY DEF Known
    <3> QED
      BY <1>5, <2>3, <2>4, <3>1 DEF Known
  <2> QED
    BY <2>1, <2>2, <2>5
<1>8. ASSUME IsOpen(shard, id)'
      PROVE  /\ Len(after.cache) = after.next
             /\ ~after.prefilled => after.cache = <<>>
             /\ ResultsOf(Known(shard, id)', after.cache)
  <2>1. CASE sequences' = sequences
    <3>1. IsOpen(shard, id) /\ after = before
      BY <1>8, <2>1 DEF IsOpen
    <3>2. Known(shard, id)' \subseteq Known(shard, id)
      BY <1>6, <2>1, <3>1
    <3>3. ResultsOf(Known(shard, id), before.cache)
      BY <3>1 DEF ComputedInv
    <3>4. ResultsOf(Known(shard, id)', before.cache)
      BY <3>2, <3>3, ResultsOfSubset
    <3> QED
      BY <3>1, <3>4 DEF ComputedInv
  <2>2. ASSUME NEW failed \in BOOLEAN, Advances(shard, id, m, failed),
               failed => status # "ok"
        PROVE  /\ Len(after.cache) = after.next
               /\ ~after.prefilled => after.cache = <<>>
               /\ ResultsOf(Known(shard, id)', after.cache)
    <3>1. IsOpen(shard, id)
      BY <2>2 DEF Advances
    <3>2. /\ before \in SequenceState
          /\ content \in Contents
          /\ after.next = Len(content)
          /\ after.prefilled = TRUE
          /\ after.cache = content
          /\ Known(shard, id)' \subseteq Known(shard, id) \cup {fresh}
      BY <1>7, <2>2
    <3>3. before.cache \in Contents /\ m.input \in Seq(Tokens) \ {<<>>}
      BY <3>2 DEF SequenceState, Mutation
    <3>4. ResultsOf(Known(shard, id), before.cache)
      BY <3>1 DEF ComputedInv
    <3>5. ResultsOf(Known(shard, id) \cup {fresh}, content)
      BY <3>2, <3>3, <3>4, ResultsGrow
    <3>6. ResultsOf(Known(shard, id)', content)
      <4> HIDE DEF fresh, content
      <4> QED
        BY <3>2, <3>5, ResultsOfSubset
    <3> QED
      BY <3>2, <3>6
  <2> QED
    BY <1>1, <1>2, <2>1, <2>2, MutateStep
<1>9. ASSUME NEW s \in Shards, NEW i \in SequenceIDs, IsOpen(s, i)', s # shard \/ i # id
      PROVE  /\ Len(sequences'[s][i].cache) = sequences'[s][i].next
             /\ ~sequences'[s][i].prefilled => sequences'[s][i].cache = <<>>
             /\ ResultsOf(Known(s, i)', sequences'[s][i].cache)
  <2>1. sequences'[s][i] = sequences[s][i] /\ answers'[s][i] = answers[s][i]
    BY <1>4, <1>9
  <2> QED
    BY <1>9, <2>1 DEF ComputedInv, Known, IsOpen
<1> QED
  BY <1>8, <1>9 DEF ComputedInv

\* Every position of a sequence is computed once, whatever clients repeat,
\* reorder or mix: a result is what the cache held up to there, with the input
\* of the request just behind it, and the only one for its position (replay of
\* completedMutation, validatePosition).
THEOREM PositionsComputedOnce == Spec => []ComputedOnce
<1>1. Init => ComputedInv
  BY DEF Init, ServiceInit, ComputedInv, IsOpen
<1>2. TypeOK /\ ComputedInv /\ [Next]_vars => ComputedInv'
  <2> SUFFICES ASSUME TypeOK, ComputedInv, [Next]_vars PROVE ComputedInv'
    OBVIOUS
  <2>1. CASE Manage
    BY <2>1, ManageComputed, TypeParts
  <2>2. CASE Prefill \/ Decode
    BY <2>2, Requests, InferComputed
  <2>3. CASE UNCHANGED vars
    BY <2>3 DEF vars, serviceVars, ComputedInv, IsOpen, Known
  <2> QED
    BY <2>1, <2>2, <2>3 DEF Next
<1>3. TypeOK /\ ComputedInv => ComputedOnce
  <2> SUFFICES ASSUME ComputedInv, NEW shard \in Shards, NEW id \in SequenceIDs,
                      IsOpen(shard, id)
               PROVE  /\ \A answer \in answers[shard][id] :
                            IsResultOf(answer, sequences[shard][id].cache)
                      /\ \A answer, other \in answers[shard][id] :
                            answer.position = other.position => answer = other
    BY DEF ComputedOnce
  <2>1. ResultsOf(Known(shard, id), sequences[shard][id].cache)
    BY DEF ComputedInv
  <2> QED
    BY <2>1 DEF ResultsOf, Known
<1> QED
  BY <1>1, <1>2, <1>3, TypeCorrect, PTL DEF Spec

----------------------------------------------------------------------------
(***************************************************************************)
(* A failed mutation poisons its sequence.  The invariant says where a     *)
(* spoiled cache is: in an open sequence that is marked.                   *)
(***************************************************************************)

SpoiledInv ==
    \A shard \in Shards : \A id \in spoiled[shard] :
       id \in SequenceIDs /\ IsOpen(shard, id) /\ Poisoned(sequences[shard][id])

\* A mutation computes nothing on a marked sequence.
LEMMA PoisonedStays ==
    ASSUME ServiceOK, NEW shard \in Shards, NEW id \in SequenceIDs, NEW m \in Mutation,
           NEW failed \in BOOLEAN, Advances(shard, id, m, failed)
    PROVE  /\ ~Poisoned(sequences[shard][id])
           /\ failed => Poisoned(sequences'[shard][id])
<1>1. ~Poisoned(sequences[shard][id])
  BY DEF Advances, Computable, InPlace
<1>2. /\ sequences'[shard][id].completed \in Completed
      /\ sequences'[shard][id].completed.failed = failed
  <2> DEFINE content == sequences[shard][id].cache \o m.input
  <2>1. /\ sequences'[shard][id].completed \in Completed
        /\ sequences'[shard][id].completed =
             [mutation |-> m, failed |-> failed, content |-> IF failed THEN <<>> ELSE content]
    BY AdvancesTo DEF Behind, Finished
  <2> HIDE DEF content
  <2> QED
    BY <2>1
<1> QED
  BY <1>1, <1>2, NoConfusion DEF Poisoned

LEMMA SpoiledStep ==
    ASSUME TypeOK, SpoiledInv, [Next]_vars
    PROVE  /\ SpoiledInv'
           /\ \A shard \in Shards : \A id \in spoiled[shard] :
                sequences'[shard][id] \in {sequences[shard][id], Closed}
<1>1. ServiceOK /\ ClientsOK
  BY TypeParts
<1>2. CASE Manage
  <2>1. ASSUME NEW shard \in Shards, NEW id \in SequenceIDs, IsOpen(shard, id)
        PROVE  sequences'[shard][id] \in {sequences[shard][id], Closed}
    <3>1. ASSUME NEW s \in Shards, NEW i \in SequenceIDs, NEW owner \in Owners \cup {NoOwner},
                 ~IsOpen(s, i),
                 sequences' = [sequences EXCEPT ![s][i] = NewSequence(owner)]
          PROVE  sequences'[shard][id] = sequences[shard][id]
      <4>1. NewSequence(owner) \in SequenceState \cup {Closed}
        BY NewSequenceType
      <4> QED
        BY <1>1, <2>1, <3>1, <4>1, OneChanged
    <3>2. ASSUME NEW s \in Shards, NEW i \in SequenceIDs,
                 sequences' = [sequences EXCEPT ![s][i] = Closed]
          PROVE  sequences'[shard][id] \in {sequences[shard][id], Closed}
      BY <1>1, <3>2, OneChanged
    <3>3. ASSUME NEW worker \in Workers, EndProcess(worker)
          PROVE  sequences'[shard][id] \in {sequences[shard][id], Closed}
      BY <3>3 DEF EndProcess
    <3>4. CASE Open
      BY <3>1, <3>4 DEF Open, OpenSequence
    <3>5. CASE Close
      BY <3>2, <3>5 DEF Close, CloseSequence
    <3>6. CASE Load \/ Unload
      BY <3>6 DEF Load, Unload, LoadShard, UnloadShard
    <3> QED
      BY <1>2, <3>3, <3>4, <3>5, <3>6 DEF Manage, End
  <2>2. ForgetClosed
    BY <1>2 DEF Manage
  <2>3. ASSUME NEW shard \in Shards, NEW id \in spoiled'[shard]
        PROVE  id \in SequenceIDs /\ IsOpen(shard, id)' /\ Poisoned(sequences'[shard][id])
    <3>1. id \in spoiled[shard] /\ sequences'[shard][id] # Closed
      BY <2>2, <2>3 DEF ForgetClosed
    <3>2. id \in SequenceIDs /\ IsOpen(shard, id) /\ Poisoned(sequences[shard][id])
      BY <3>1 DEF SpoiledInv
    <3>3. sequences'[shard][id] = sequences[shard][id]
      BY <2>1, <3>1, <3>2
    <3> QED
      BY <3>1, <3>2, <3>3 DEF IsOpen
  <2> QED
    BY <2>1, <2>3 DEF SpoiledInv
<1>3. ASSUME NEW shard \in Shards, NEW id \in SequenceIDs, NEW m \in Mutation,
             Infer(shard, id, m)
      PROVE  /\ SpoiledInv'
             /\ \A s \in Shards : \A i \in spoiled[s] : sequences'[s][i] = sequences[s][i]
  <2>1. PICK status \in Statuses :
          /\ Mutate(shard, id, m, status)
          /\ spoiled' = [spoiled EXCEPT ![shard] =
                IF status = "refused" /\ sequences' # sequences THEN spoiled[shard] \cup {id}
                ELSE spoiled[shard]]
    BY <1>1, <1>3 DEF Infer, ClientsOK
  <2>2. ASSUME NEW s \in Shards, NEW i \in spoiled[s]
        PROVE  sequences'[s][i] = sequences[s][i]
    <3>1. i \in SequenceIDs /\ Poisoned(sequences[s][i])
      BY DEF SpoiledInv
    <3>2. ASSUME NEW failed \in BOOLEAN, Advances(shard, id, m, failed)
          PROVE  sequences'[s][i] = sequences[s][i]
      <4>1. s # shard \/ i # id
        BY <1>1, <3>1, <3>2, PoisonedStays
      <4> QED
        BY <1>1, <3>1, <3>2, <4>1, AdvancesOne
    <3> QED
      BY <1>1, <2>1, <3>2, MutateStep
  <2>3. ASSUME NEW s \in Shards, NEW i \in spoiled'[s]
        PROVE  i \in SequenceIDs /\ IsOpen(s, i)' /\ Poisoned(sequences'[s][i])
    <3>1. CASE i \in spoiled[s]
      BY <2>2, <3>1 DEF SpoiledInv, IsOpen
    <3>2. CASE i \notin spoiled[s]
      <4>1. s = shard /\ i = id /\ status = "refused" /\ sequences' # sequences
        BY <1>1, <2>1, <2>3, <3>2 DEF ClientsOK
      <4>2. Advances(shard, id, m, TRUE)
        <5>1. status \notin {"ok", "expired"}
          BY <4>1
        <5>2. \/ sequences' = sequences
              \/ Advances(shard, id, m, TRUE)
              \/ Advances(shard, id, m, FALSE) /\ status \in {"ok", "expired"}
          BY <1>1, <2>1, MutateStep
        <5> QED
          BY <4>1, <5>1, <5>2
      <4>3. sequences'[shard][id] \in SequenceState /\ Poisoned(sequences'[shard][id])
        BY <1>1, <4>2, AdvancesOne, PoisonedStays
      <4> QED
        BY <4>1, <4>3, NoConfusion DEF IsOpen
    <3> QED
      BY <3>1, <3>2
  <2> QED
    BY <2>2, <2>3 DEF SpoiledInv
<1>4. CASE Prefill \/ Decode
  BY <1>3, <1>4, Requests
<1>5. CASE UNCHANGED vars
  BY <1>5 DEF vars, serviceVars, SpoiledInv, IsOpen
<1> QED
  BY <1>2, <1>4, <1>5 DEF Next

\* A mutation that was computed and then refused has spoiled the cache: its
\* sequence is never advanced again, and keeps its state until it is closed
\* (recordMutationFailure).
THEOREM PoisonLasts == Spec => PoisonHolds
<1>1. Init => SpoiledInv
  BY DEF Init, SpoiledInv
<1>2. TypeOK /\ SpoiledInv /\ [Next]_vars => SpoiledInv'
  BY SpoiledStep
<1>3. TypeOK /\ SpoiledInv /\ [Next]_vars =>
        [\A shard \in Shards : \A id \in spoiled[shard] :
            sequences'[shard][id] \in {sequences[shard][id], Closed}]_vars
  BY SpoiledStep
<1> QED
  BY <1>1, <1>2, <1>3, TypeCorrect, PTL DEF Spec, PoisonHolds
=============================================================================
