--------------------------- MODULE SessionProofs ---------------------------
(* Proofs about requests at the gateway, for any documents, resolvers,     *)
(* tokens and budgets: what a request is told, and as whom it acts.        *)
EXTENDS PullEdits, WellFoundedInduction, FiniteSetTheorems, TLAPS

-----------------------------------------------------------------------------
(* Operators.                                                              *)

(* A resolver's call is read off its own step, job and progress.           *)
LEMMA CallKept ==
  ASSUME NEW g \in Fields, pc'[g] = pc[g], field' = field, local'[g] = local[g]
  PROVE  Call(g)' = Call(g)
BY DEF Call, Reads, Writes, Key

(* Reading a pull request again is the same call.                          *)
LEMMA CallAgain ==
  ASSUME NEW g \in Fields, pc'[g] = pc[g], field' = field, Call(g).key = Key("pull")
  PROVE  Call(g)' = Call(g)
<1>1. pc[g] \notin {"page", "window"}
  <2>1. CASE pc[g] = "page"
    BY <2>1 DEF Call, Reads, Writes, Key
  <2>2. CASE pc[g] = "window"
    BY <2>2 DEF Call, Reads, Writes, Key
  <2>3. QED
    BY <2>1, <2>2
<1>2. QED
  BY <1>1 DEF Call, Reads, Writes, Key

LEMMA CallKinds ==
  ASSUME NEW f \in Fields
  PROVE  /\ Call(f).how \in {"memo", "get", "write"}
         /\ pc[f] \in {"read", "page", "settings", "window"} => Call(f).how = "memo"
BY DEF Call, Reads, Writes

(* Mutations are at work alone.                                            *)
LEMMA Alone ==
  ASSUME Shapes, Document, \A f \in Fields : InTurn(f),
         NEW f \in Fields, NEW g \in Fields, f # g, Of(f) = Of(g), Active(f), Active(g)
  PROVE  field[f].op \in Queries /\ field[g].op \in Queries
BY DEF Document, InTurn, Active

LEMMA QueriesRead ==
  ASSUME NEW f \in Fields, InTurn(f), Active(f), field[f].op \in Queries
  PROVE  Call(f).how = "memo"
BY CallKinds DEF InTurn, Active

-----------------------------------------------------------------------------
(* What is told.                                                           *)

(* The invariant without the shapes and the identities.                    *)
Sound ==
    /\ AsOne
    /\ \A f \in Fields : InTurn(f) /\ Holds(f) /\ Told(f) /\ Replied(f)
    /\ \A r \in Requests : Filled(r) /\ Spent(r)

LEMMA SoundReads ==
  ASSUME Shapes, Sound
  PROVE  ReadsSound
<1>1. \A f \in Fields : Of(f) \in Requests
  BY DEF Shapes, Of, Jobs
<1>2. \A r \in Requests : rq[r].left \in Nat /\ rq[r].drawn \in Nat /\ rq[r].left + rq[r].drawn = Budget
  BY DEF Shapes, Sound, Spent
<1>3. \A r \in Requests : rq[r].drawn <= Budget
  BY <1>2
<1>4. \A f \in Fields : \A a \in seen[f] : a.ver >= a.floor
  BY DEF Sound, Told
<1>5. ASSUME NEW f \in Fields, reply[f].status = "too_large"
      PROVE  \/ reply[f].size > MAX_RESPONSE
             \/ rq[Of(f)].drawn + reply[f].size - reply[f].body > Budget
  <2>1. Weighed(reply[f], rq[Of(f)].left)
    BY DEF Sound, Replied
  <2>2. QED
    BY <1>1, <1>2, <1>5, <2>1, SessionAssumption DEF Weighed
<1>6. QED
  BY <1>1, <1>3, <1>4, <1>5 DEF ReadsSound, Sound, AsOne

LEMMA Owners == ASSUME Shapes, NEW f \in Fields PROVE Of(f) \in Requests
BY DEF Shapes, Of, Jobs

LEMMA BudgetWhole == Budget \in Nat \ {0} /\ MAX_RESPONSE \in Nat
BY SessionAssumption

(* What is too large for the budget is so for less of it.                  *)
LEMMA WeighedLess ==
  ASSUME NEW rep, NEW left \in Nat, NEW less \in Nat, less <= left, Weighed(rep, left)
  PROVE  Weighed(rep, less)
<1>1. DOMAIN rep = DOMAIN NoReply /\ rep.size \in Nat /\ rep.body \in Nat /\ rep.body <= rep.size
  BY DEF Weighed
<1>2. rep.status = "too_large" => rep.size > MAX_RESPONSE \/ rep.size - rep.body > less
  BY <1>1 DEF Weighed
<1>3. QED
  BY <1>1, <1>2 DEF Weighed

LEMMA Nothing == NoReply.ver = 0 /\ NoReply.write = FALSE /\ NoReply.status = "none"
                 /\ \A left \in Nat : Weighed(NoReply, left)
BY DEF NoReply, Weighed

LEMMA Failed ==
  ASSUME NEW status, status # "too_large", NEW left \in Nat
  PROVE  /\ Failure(status).ver = forge.ver /\ Failure(status).write = FALSE
         /\ Failure(status).status = status /\ Weighed(Failure(status), left)
BY DEF Failure, NoReply, Weighed

(* Who a request comes from, the clock and the forge's users say nothing   *)
(* of its reads; only an identity is charged.                              *)
Apart ==
    /\ UNCHANGED <<memo, forge, field, pc, io, reply, local, answer, seen>>
    /\ \A r \in Requests :
         /\ rq'[r].epoch = rq[r].epoch /\ rq'[r].wrote = rq[r].wrote
         /\ \/ /\ rq'[r].left = rq[r].left /\ rq'[r].drawn = rq[r].drawn
               /\ rq'[r].phase \in {"new", "asking", "told"} => rq[r].phase \in {"new", "asking", "told"}
            \/ /\ rq[r].left = Budget /\ rq'[r].left = Budget - 1
               /\ rq'[r].drawn = rq[r].drawn + 1 /\ rq'[r].phase = "open"

LEMMA ApartStep ==
  ASSUME Shapes, Sound, Apart
  PROVE  Sound'
<1>1. AsOne'
  BY DEF Sound, AsOne, Apart, Of
<1>2. ASSUME NEW f \in Fields PROVE InTurn(f)' /\ Holds(f)' /\ Told(f)' /\ Replied(f)'
  <2>0. /\ Of(f) \in Requests /\ Of(f)' = Of(f) /\ InTurn(f) /\ Holds(f) /\ Told(f) /\ Replied(f)
    BY Owners DEF Sound, Of, Apart
  <2>1. InTurn(f)'
    BY <2>0 DEF InTurn, Apart
  <2>2. Holds(f)'
    <3>1. Call(f)' = Call(f)
      BY CallKept DEF Apart
    <3>2. QED
      BY <2>0, <3>1 DEF Holds, Fetching, Active, Apart
  <2>3. Told(f)'
    BY <2>0 DEF Told, Apart
  <2>4. Replied(f)'
    <3>1. Weighed(reply[f], rq[Of(f)].left) /\ reply' = reply
      BY <2>0 DEF Replied, Apart
    <3>2. rq[Of(f)].left \in Nat /\ rq'[Of(f)].left \in Nat /\ rq'[Of(f)].left <= rq[Of(f)].left
      <4>1. rq[Of(f)].left \in Nat
        BY <2>0 DEF Shapes
      <4>2. QED
        BY <2>0, <4>1, BudgetWhole DEF Apart
    <3>3. Weighed(reply'[f], rq'[Of(f)].left)
      BY <3>1, <3>2, WeighedLess
    <3>4. /\ reply[f].ver \in Nat /\ reply[f].ver <= forge.ver /\ reply[f].write \in BOOLEAN
          /\ Active(f) /\ io[f] = "back" => reply[f].ver >= rq[Of(f)].wrote
      BY <2>0, Zenon DEF Replied
    <3>5. rq'[Of(f)].wrote = rq[Of(f)].wrote /\ UNCHANGED <<forge, pc, io, answer, field>>
      BY <2>0 DEF Apart
    <3>6. QED
      BY <2>0, <3>1, <3>3, <3>4, <3>5, Zenon DEF Replied, Active
  <2>5. QED
    BY <2>1, <2>2, <2>3, <2>4
<1>3. ASSUME NEW r \in Requests PROVE Filled(r)' /\ Spent(r)'
  <2>0. Filled(r) /\ Spent(r) /\ rq[r].drawn \in Nat /\ rq[r].left \in Nat
    BY DEF Sound, Shapes
  <2>1. Filled(r)'
    <3>1. rq'[r].left \in Nat /\ rq'[r].left <= rq[r].left /\ rq'[r].wrote = rq[r].wrote
      BY <2>0, BudgetWhole DEF Apart
    <3>2. ASSUME NEW k \in DOMAIN memo[r], memo[r][k].by = None
          PROVE  Weighed(memo[r][k].reply, rq'[r].left)
      <4>1. Weighed(memo[r][k].reply, rq[r].left)
        BY <2>0, <3>2, Zenon DEF Filled
      <4>2. QED
        BY <2>0, <3>1, <4>1, WeighedLess
    <3>3. memo' = memo /\ forge' = forge
      BY DEF Apart
    <3>4. QED
      BY <2>0, <3>1, <3>2, <3>3, Zenon DEF Filled
  <2>2. Spent(r)'
    BY <2>0, BudgetWhole DEF Spent, Apart
  <2>3. QED
    BY <2>1, <2>2
<1>4. QED
  BY <1>1, <1>2, <1>3 DEF Sound

(* A resolver that starts, or goes on from a reply it has had, tells and   *)
(* holds nothing new.                                                      *)
Thinks(f) ==
    /\ UNCHANGED <<rq, memo, forge, field, seen>>
    /\ answer[f] = None /\ pc'[f] # "ready" /\ io'[f] = "idle"
    /\ pc[f] = "ready" => \A g \in field[f].after : answer[g] # None
    /\ field[f].op \in Queries => pc'[f] \in {"read", "page", "settings", "window"}
    /\ reply' \in {reply, [reply EXCEPT ![f] = NoReply]}
    /\ \A g \in Fields \ {f} : pc'[g] = pc[g] /\ io'[g] = io[g] /\ answer'[g] = answer[g]
                               /\ local'[g] = local[g]

LEMMA ThinksStep ==
  ASSUME Shapes, Document, Sound, NEW f \in Fields, Thinks(f)
  PROVE  Sound'
<1>1. AsOne'
  BY DEF Sound, AsOne, Thinks, Of
<1>2. ASSUME NEW g \in Fields PROVE InTurn(g)' /\ Holds(g)' /\ Told(g)' /\ Replied(g)'
  <2>0. /\ Of(g) \in Requests /\ Of(g)' = Of(g) /\ InTurn(g) /\ Holds(g) /\ Told(g) /\ Replied(g)
    BY Owners DEF Sound, Of, Thinks
  <2>1. InTurn(g)'
    <3>1. field[g].after \subseteq Fields
      BY DEF Shapes, Jobs
    <3>2. \A h \in field[g].after : answer[h] # None => answer'[h] # None
      BY <3>1 DEF Thinks
    <3>3. CASE g = f
      BY <2>0, <3>2, <3>3 DEF InTurn, Thinks
    <3>4. CASE g # f
      BY <2>0, <3>2, <3>4 DEF InTurn, Thinks
    <3>5. QED
      BY <3>3, <3>4
  <2>2. Holds(g)'
    <3>1. CASE g = f
      BY <3>1 DEF Holds, Fetching, Active, Thinks
    <3>2. CASE g # f
      <4>1. Call(g)' = Call(g)
        BY <3>2, CallKept DEF Thinks
      <4>2. QED
        BY <2>0, <3>2, <4>1 DEF Holds, Fetching, Active, Thinks
    <3>3. QED
      BY <3>1, <3>2
  <2>3. Told(g)'
    BY <2>0 DEF Told, Thinks
  <2>4. Replied(g)'
    <3>1. reply'[g] \in {reply[g], NoReply}
      BY DEF Thinks, Shapes
    <3>2. /\ NoReply.ver = 0 /\ NoReply.write = FALSE /\ Weighed(NoReply, rq[Of(g)].left)
          /\ forge.ver >= 0
      BY <2>0, Nothing DEF Shapes
    <3>3. reply'[g].ver \in Nat /\ reply'[g].ver <= forge.ver /\ reply'[g].write \in BOOLEAN
          /\ Weighed(reply'[g], rq[Of(g)].left)
      <4>1. CASE reply'[g] = reply[g]
        BY <2>0, <4>1, Zenon DEF Replied
      <4>2. CASE reply'[g] = NoReply
        <5>1. reply'[g].ver \in Nat /\ reply'[g].ver <= forge.ver
          BY <3>2, <4>2
        <5>2. reply'[g].write \in BOOLEAN /\ Weighed(reply'[g], rq[Of(g)].left)
          BY <3>2, <4>2, Zenon
        <5>3. QED
          BY <5>1, <5>2, Zenon
      <4>3. QED
        BY <3>1, <4>1, <4>2, Zenon
    <3>4. Active(g)' /\ io'[g] = "back" => reply'[g].ver >= rq[Of(g)].wrote
      <4>1. CASE g = f
        BY <4>1 DEF Thinks
      <4>2. CASE g # f
        <5>1. reply'[g] = reply[g]
          BY <4>2 DEF Thinks, Shapes
        <5>2. QED
          BY <2>0, <4>2, <5>1 DEF Replied, Active, Thinks
      <4>3. QED
        BY <4>1, <4>2
    <3>5. QED
      BY <2>0, <3>3, <3>4 DEF Replied, Thinks
  <2>5. QED
    BY <2>1, <2>2, <2>3, <2>4
<1>3. ASSUME NEW r \in Requests PROVE Filled(r)' /\ Spent(r)'
  BY DEF Sound, Filled, Spent, Thinks
<1>4. QED
  BY <1>1, <1>2, <1>3 DEF Sound

-----------------------------------------------------------------------------
(* Calls.                                                                  *)

(* One cell per key and epoch: whoever is told something now is told what  *)
(* the cell holds.                                                         *)
LEMMA AsOneStep ==
  ASSUME Sound, \A g \in Fields : Told(g)' /\ Of(g)' = Of(g),
         \A g \in Fields : \A s \in seen'[g] : s \in seen[g] \/ s.epoch = rq'[Of(g)].epoch
  PROVE  AsOne'
<1> SUFFICES ASSUME NEW f \in Fields, NEW g \in Fields, Of(f) = Of(g),
                    NEW a \in seen'[f], NEW b \in seen'[g], a.key = b.key, a.epoch = b.epoch
             PROVE  a.ver = b.ver /\ a.status = b.status
  BY DEF AsOne
<1>1. CASE a \in seen[f] /\ b \in seen[g]
  BY <1>1, Zenon DEF Sound, AsOne
<1>2. CASE a.epoch = rq'[Of(f)].epoch
  <2> DEFINE cell == memo'[Of(f)][a.key].reply
  <2>1. a.ver = cell.ver /\ a.status = cell.status
    BY <1>2 DEF Told
  <2>2. b.ver = cell.ver /\ b.status = cell.status
    <3>1. b.epoch = rq'[Of(g)].epoch /\ memo'[Of(g)][b.key].reply = cell
      BY <1>2, Zenon
    <3>2. b.ver = memo'[Of(g)][b.key].reply.ver /\ b.status = memo'[Of(g)][b.key].reply.status
      BY <3>1 DEF Told
    <3>3. QED
      BY <3>1, <3>2, Zenon
  <2>3. QED
    BY <2>1, <2>2, Zenon
<1>3. QED
  BY <1>1, <1>2

LEMMA AskStep ==
  ASSUME Shapes, Document, Sound, NEW f \in Fields, Ask(f, Call(f)), pc[f] # "ready"
  PROVE  Sound'
<1> DEFINE r == Of(f)
           key == Call(f).key
<1>0. /\ r \in Requests /\ Active(f) /\ io[f] = "idle"
      /\ UNCHANGED <<rq, forge, field, pc, local, answer>>
      /\ \A g \in Fields : Of(g)' = Of(g) /\ Of(g) \in Requests /\ Call(g)' = Call(g) /\ (Active(g)' <=> Active(g))
  BY Owners, CallKept DEF Ask, Rest, Turn, Active, Of
<1>1. CASE /\ Call(f).how = "memo" /\ key \in DOMAIN memo[r] /\ memo[r][key].by = None
           /\ io' = [io EXCEPT ![f] = "done"] /\ reply' = [reply EXCEPT ![f] = memo[r][key].reply]
           /\ seen' = Note(f, Call(f), memo[r][key].reply, r)
           /\ UNCHANGED memo
  <2> DEFINE cell == memo[r][key].reply
             new == [key |-> key, epoch |-> rq[r].epoch, status |-> cell.status, ver |-> cell.ver,
                     floor |-> rq[r].wrote]
  <2>0. /\ seen'[f] = seen[f] \cup {new} /\ \A g \in Fields \ {f} : seen'[g] = seen[g]
        /\ reply'[f] = cell /\ \A g \in Fields \ {f} : reply'[g] = reply[g] /\ io'[g] = io[g]
        /\ io'[f] = "done"
    BY <1>1 DEF Note, Shapes
  <2>1. Filled(r) /\ rq[r].epoch \in Nat /\ rq[r].wrote \in Nat /\ Spent(r)
    BY <1>0 DEF Sound, Shapes
  <2>2. /\ cell.ver \in Nat /\ cell.ver >= rq[r].wrote /\ cell.ver <= forge.ver /\ cell.write \in BOOLEAN
        /\ Weighed(cell, rq[r].left)
    BY <1>1, <2>1, Zenon DEF Filled
  <2>3. \A g \in Fields : Told(g)'
    <3> SUFFICES ASSUME NEW g \in Fields PROVE Told(g)'
      OBVIOUS
    <3>1. Told(g)
      BY DEF Sound
    <3>2. CASE g # f
      BY <1>0, <1>1, <2>0, <3>1, <3>2 DEF Told
    <3>3. CASE g = f
      BY <1>0, <1>1, <2>0, <2>1, <2>2, <3>1, <3>3 DEF Told
    <3>4. QED
      BY <3>2, <3>3
  <2>4. AsOne'
    BY <1>0, <2>0, <2>3, AsOneStep
  <2>5. ASSUME NEW g \in Fields PROVE InTurn(g)' /\ Holds(g)' /\ Replied(g)'
    <3>0. InTurn(g) /\ Holds(g) /\ Replied(g)
      BY DEF Sound
    <3>1. InTurn(g)'
      BY <1>0, <2>0, <3>0 DEF InTurn, Active
    <3>2. Holds(g)'
      BY <1>0, <1>1, <2>0, <3>0 DEF Holds, Fetching
    <3>3. CASE g # f
      BY <1>0, <2>0, <3>0, <3>1, <3>2, <3>3 DEF Replied
    <3>4. CASE g = f
      BY <1>0, <2>0, <2>2, <3>1, <3>2, <3>4, Zenon DEF Replied
    <3>5. QED
      BY <3>1, <3>2, <3>3, <3>4
  <2>6. \A q \in Requests : Filled(q)' /\ Spent(q)'
    BY <1>0, <1>1 DEF Sound, Filled, Spent
  <2>7. QED
    BY <2>3, <2>4, <2>5, <2>6 DEF Sound
<1>2. CASE /\ Call(f).how = "memo" /\ key \notin DOMAIN memo[r]
           /\ memo' = [memo EXCEPT ![r] = With(@, key, f, NoReply)]
           /\ io' = [io EXCEPT ![f] = "sent"]
           /\ UNCHANGED <<reply, seen>>
  <2>0. /\ DOMAIN memo'[r] = {key} \cup DOMAIN memo[r] /\ memo'[r][key].by = f
        /\ \A k \in DOMAIN memo[r] : k # key /\ memo'[r][k] = memo[r][k]
        /\ \A q \in Requests \ {r} : memo'[q] = memo[q]
        /\ \A g \in Fields \ {f} : io'[g] = io[g]
        /\ io'[f] = "sent" /\ f # None
    <3>1. memo'[r] = With(memo[r], key, f, NoReply)
      BY <1>0, <1>2 DEF Shapes
    <3>2. \A q \in Requests \ {r} : memo'[q] = memo[q]
      BY <1>0, <1>2 DEF Shapes
    <3>3. \A g \in Fields \ {f} : io'[g] = io[g]
      BY <1>2 DEF Shapes
    <3>4. io'[f] = "sent" /\ f # None
      BY <1>2, SessionAssumption DEF Shapes
    <3>5. DOMAIN memo'[r] = {key} \cup DOMAIN memo[r] /\ memo'[r][key].by = f
      BY <3>1 DEF With
    <3>6. \A k \in DOMAIN memo[r] : k # key
      BY <1>2
    <3>7. \A k \in DOMAIN memo[r] : memo'[r][k] = memo[r][k]
      BY <3>1, <3>6 DEF With
    <3>8. QED
      BY <3>2, <3>3, <3>4, <3>5, <3>6, <3>7, Zenon
  <2>1. ASSUME NEW g \in Fields PROVE InTurn(g)' /\ Holds(g)' /\ Told(g)' /\ Replied(g)'
    <3>0. InTurn(g) /\ Holds(g) /\ Told(g) /\ Replied(g)
      BY DEF Sound
    <3>1. InTurn(g)'
      BY <1>0, <2>0, <3>0 DEF InTurn, Active
    <3>2. Holds(g)'
      <4>1. CASE g = f
        BY <1>0, <2>0, <4>1 DEF Holds
      <4>2. CASE g # f
        BY <1>0, <2>0, <3>0, <4>2 DEF Holds, Fetching
      <4>3. QED
        BY <4>1, <4>2
    <3>3. Told(g)'
      BY <1>0, <1>2, <2>0, <3>0 DEF Told
    <3>4. Replied(g)'
      BY <1>0, <1>2, <2>0, <3>0 DEF Replied
    <3>5. QED
      BY <3>1, <3>2, <3>3, <3>4
  <2>2. AsOne'
    BY <1>0, <1>2 DEF Sound, AsOne
  <2>3. ASSUME NEW q \in Requests PROVE Filled(q)' /\ Spent(q)'
    <3>0. Filled(q) /\ Spent(q)
      BY DEF Sound
    <3>1. Filled(q)'
      <4>1. ASSUME NEW k \in DOMAIN memo'[q], memo'[q][k].by = None
            PROVE  k \in DOMAIN memo[q] /\ memo'[q][k] = memo[q][k]
        BY <1>0, <2>0, <4>1
      <4>2. QED
        BY <1>0, <3>0, <4>1 DEF Filled
    <3>2. Spent(q)'
      BY <1>0, <3>0 DEF Spent
    <3>3. QED
      BY <3>1, <3>2
  <2>4. QED
    BY <2>1, <2>2, <2>3 DEF Sound
<1>3. CASE /\ Call(f).how # "memo" /\ io' = [io EXCEPT ![f] = "sent"]
           /\ UNCHANGED <<memo, reply, seen>>
  <2>0. io'[f] = "sent" /\ \A g \in Fields \ {f} : io'[g] = io[g]
    BY <1>3 DEF Shapes
  <2>1. ASSUME NEW g \in Fields PROVE InTurn(g)' /\ Holds(g)' /\ Told(g)' /\ Replied(g)'
    <3>0. InTurn(g) /\ Holds(g) /\ Told(g) /\ Replied(g)
      BY DEF Sound
    <3>1. InTurn(g)'
      BY <1>0, <2>0, <3>0 DEF InTurn, Active
    <3>2. Holds(g)'
      BY <1>0, <1>3, <2>0, <3>0 DEF Holds, Fetching
    <3>3. Told(g)'
      BY <1>0, <1>3, <3>0 DEF Told
    <3>4. Replied(g)'
      BY <1>0, <1>3, <2>0, <3>0 DEF Replied
    <3>5. QED
      BY <3>1, <3>2, <3>3, <3>4
  <2>2. AsOne'
    BY <1>0, <1>3 DEF Sound, AsOne
  <2>3. \A q \in Requests : Filled(q)' /\ Spent(q)'
    BY <1>0, <1>3 DEF Sound, Filled, Spent
  <2>4. QED
    BY <2>1, <2>2, <2>3 DEF Sound
<1>4. QED
  BY <1>1, <1>2, <1>3 DEF Ask

(* A call ends: its cell is filled, or a write forgets every cell.         *)
LEMMA SettleStep ==
  ASSUME Shapes, Document, Sound, NEW f \in Fields, Active(f), io[f] \in {"sent", "back"},
         NEW rep, NEW charge \in Nat, Settle(f, Call(f), rep, charge),
         UNCHANGED <<forge, field, pc, answer>>,
         \A g \in Fields \ {f} : local'[g] = local[g],
         rep.ver \in Nat, rep.ver <= forge.ver, rep.ver >= rq[Of(f)].wrote, rep.write \in BOOLEAN,
         Weighed(rep, rq[Of(f)].left), charge <= rq[Of(f)].left, rq[Of(f)].phase = "open"
  PROVE  Sound'
<1> DEFINE r == Of(f)
           key == Call(f).key
           wrote == Call(f).how = "write" /\ rep.write
<1>0. /\ r \in Requests /\ r' = r
      /\ \A g \in Fields : Of(g)' = Of(g) /\ Of(g) \in Requests /\ (Active(g)' <=> Active(g))
      /\ \A g \in Fields \ {f} : Call(g)' = Call(g)
  BY Owners, CallKept DEF Active, Of
<1>1. /\ io'[f] = "done" /\ reply'[f] = rep
      /\ \A g \in Fields \ {f} : io'[g] = io[g] /\ reply'[g] = reply[g]
  BY DEF Settle, Shapes
<1>2. /\ rq'[r].left = rq[r].left - charge /\ rq'[r].drawn = rq[r].drawn + charge
      /\ rq'[r].phase = rq[r].phase
      /\ rq'[r].epoch = (IF wrote THEN rq[r].epoch + 1 ELSE rq[r].epoch)
      /\ rq'[r].wrote = (IF wrote THEN rep.ver ELSE rq[r].wrote)
  BY <1>0 DEF Settle, Shapes
<1>3. \A q \in Requests \ {r} : rq'[q] = rq[q] /\ memo'[q] = memo[q]
  BY <1>0 DEF Settle, Shapes
<1>4. /\ \A g \in Fields \ {f} : seen'[g] = seen[g]
      /\ Call(f).how # "memo" => seen'[f] = seen[f]
      /\ Call(f).how = "memo" =>
           seen'[f] = seen[f] \cup {[key |-> key, epoch |-> rq[r].epoch, status |-> rep.status,
                                     ver |-> rep.ver, floor |-> rq[r].wrote]}
  BY <1>0 DEF Settle, Note, Shapes
<1>5. /\ wrote => memo'[r] = NoMemo
      /\ Call(f).how = "memo" => memo'[r] = With(memo[r], key, None, rep)
      /\ ~wrote /\ Call(f).how # "memo" => memo'[r] = memo[r]
  BY <1>0 DEF Settle, Shapes
<1>6. /\ rq[r].left \in Nat /\ rq[r].drawn \in Nat /\ rq[r].epoch \in Nat /\ rq[r].wrote \in Nat
      /\ rq'[r].left \in Nat /\ rq'[r].left + rq'[r].drawn = rq[r].left + rq[r].drawn
      /\ rq'[r].left <= rq[r].left
      /\ \A x : Weighed(x, rq[r].left) => Weighed(x, rq'[r].left)
  <2>1. rq[r].left \in Nat /\ rq[r].drawn \in Nat /\ rq[r].epoch \in Nat /\ rq[r].wrote \in Nat
    BY <1>0 DEF Shapes
  <2>2. /\ rq'[r].left \in Nat /\ rq'[r].left + rq'[r].drawn = rq[r].left + rq[r].drawn
        /\ rq'[r].left <= rq[r].left
    BY <1>2, <2>1
  <2>3. QED
    BY <2>1, <2>2, WeighedLess
<1>7. \A g \in Fields : InTurn(g)' /\ (InTurn(g) /\ Holds(g) /\ Told(g) /\ Replied(g))
  <2>1. ASSUME NEW g \in Fields PROVE InTurn(g)'
    <3>1. InTurn(g)
      BY DEF Sound
    <3>2. QED
      BY <1>0, <1>1, <3>1 DEF InTurn, Active
  <2>2. QED
    BY <2>1, Zenon DEF Sound
<1>8. \A q \in Requests : Spent(q)'
  <2> SUFFICES ASSUME NEW q \in Requests PROVE Spent(q)'
    OBVIOUS
  <2>1. Spent(q) /\ forge' = forge
    BY DEF Sound
  <2>2. CASE q = r
    BY <1>2, <1>6, <2>1, <2>2 DEF Spent
  <2>3. CASE q # r
    BY <1>3, <2>1, <2>3 DEF Spent
  <2>4. QED
    BY <2>2, <2>3
<1>9. ASSUME NEW g \in Fields, g = f \/ ~wrote \/ Of(g) # r \/ ~Active(g)
      PROVE  Replied(g)'
  <2>0. /\ reply[g].ver \in Nat /\ reply[g].ver <= forge.ver /\ reply[g].write \in BOOLEAN
        /\ Active(g) /\ io[g] = "back" => reply[g].ver >= rq[Of(g)].wrote
        /\ Weighed(reply[g], rq[Of(g)].left)
    BY <1>7, Zenon DEF Replied
  <2>1. CASE g = f
    <3>1. io'[g] # "back" /\ Weighed(reply'[g], rq'[r].left)
      BY <1>1, <1>6, <2>1
    <3>2. QED
      BY <1>0, <1>1, <2>1, <3>1, Zenon DEF Replied
  <2>2. CASE g # f /\ Of(g) # r
    <3>1. rq'[Of(g)] = rq[Of(g)]
      BY <1>0, <1>3, <2>2
    <3>2. QED
      BY <1>0, <1>1, <2>0, <2>2, <3>1, Zenon DEF Replied
  <2>3. CASE g # f /\ Of(g) = r
    <3>1. Active(g)' /\ io'[g] = "back" => reply'[g].ver >= rq'[r].wrote
      BY <1>0, <1>1, <1>2, <1>9, <2>0, <2>3
    <3>2. Weighed(reply'[g], rq'[r].left)
      BY <1>1, <1>6, <2>0, <2>3
    <3>3. QED
      BY <1>0, <1>1, <2>0, <2>3, <3>1, <3>2, Zenon DEF Replied
  <2>4. QED
    BY <2>1, <2>2, <2>3
<1>10. ASSUME NEW q \in Requests, q # r PROVE Filled(q)'
  <2>1. Filled(q) /\ rq'[q] = rq[q] /\ memo'[q] = memo[q]
    BY <1>3, <1>10 DEF Sound
  <2>2. QED
    BY <2>1 DEF Filled
<1>11. ASSUME NEW g \in Fields, Of(g) # r PROVE Holds(g)' /\ Told(g)'
  <2>1. rq'[Of(g)] = rq[Of(g)] /\ memo'[Of(g)] = memo[Of(g)] /\ g # f
    BY <1>0, <1>3, <1>11
  <2>2. Holds(g)'
    BY <1>0, <1>1, <1>7, <2>1 DEF Holds, Fetching
  <2>3. Told(g)'
    BY <1>0, <1>4, <1>7, <2>1 DEF Told
  <2>4. QED
    BY <2>2, <2>3
<1>12. Holds(f)'
  BY <1>1 DEF Holds, Fetching
<1>13. CASE wrote
  <2>1. ASSUME NEW g \in Fields, g # f, Of(g) = r PROVE ~Active(g)
    <3>1. field[f].op \notin Queries
      BY <1>7, <1>13, QueriesRead
    <3>2. QED
      BY <1>7, <2>1, <3>1, Alone
  <2>2. ASSUME NEW g \in Fields PROVE Holds(g)' /\ Told(g)' /\ Replied(g)'
    <3>1. Replied(g)'
      BY <1>9, <2>1
    <3>2. Holds(g)'
      <4>1. CASE g # f /\ Of(g) = r
        BY <1>0, <2>1, <4>1 DEF Holds, Fetching
      <4>2. QED
        BY <1>11, <1>12, <4>1
    <3>3. Told(g)'
      <4>1. CASE Of(g) = r
        <5>1. seen'[g] = seen[g] /\ rq'[r].epoch = rq[r].epoch + 1
          BY <1>2, <1>4, <1>13
        <5>2. Told(g)
          BY <1>7
        <5>3. QED
          BY <1>0, <1>6, <4>1, <5>1, <5>2 DEF Told
      <4>2. QED
        BY <1>11, <4>1
    <3>4. QED
      BY <3>1, <3>2, <3>3
  <2>3. ASSUME NEW q \in Requests, q = r PROVE Filled(q)'
    <3>1. memo'[q] = NoMemo /\ DOMAIN NoMemo = {}
      BY <1>5, <1>13, <2>3 DEF NoMemo
    <3>2. QED
      BY <3>1, Zenon DEF Filled
  <2>4. AsOne'
    <3>1. \A g \in Fields : seen'[g] = seen[g]
      BY <1>4, <1>13
    <3>2. QED
      BY <1>0, <3>1 DEF Sound, AsOne
  <2>5. QED
    BY <1>7, <1>8, <1>10, <2>2, <2>3, <2>4, Zenon DEF Sound
<1>14. CASE Call(f).how = "memo"
  <2>0. rq'[r].epoch = rq[r].epoch /\ rq'[r].wrote = rq[r].wrote /\ memo'[r] = With(memo[r], key, None, rep)
    BY <1>2, <1>5, <1>14
  <2>1. /\ DOMAIN memo'[r] = {key} \cup DOMAIN memo[r]
        /\ memo'[r][key].by = None /\ memo'[r][key].reply = rep
        /\ \A k \in DOMAIN memo[r] : k # key => memo'[r][k] = memo[r][k]
    BY <2>0 DEF With
  <2>2. key \in DOMAIN memo[r] /\ memo[r][key].by = f /\ f # None
    BY <1>7, <1>14, SessionAssumption DEF Holds, Fetching
  <2>3. ASSUME NEW g \in Fields, Of(g) = r PROVE Holds(g)' /\ Told(g)'
    <3>1. Holds(g)'
      <4>1. CASE g # f
        BY <1>0, <1>1, <1>7, <2>1, <2>2, <2>3, <4>1 DEF Holds, Fetching
      <4>2. QED
        BY <1>12, <4>1
    <3>2. Told(g)'
      <4>1. ASSUME NEW t \in seen[g]
            PROVE  /\ t.epoch \in Nat /\ t.epoch <= rq'[r].epoch /\ t.ver >= t.floor
                   /\ t.epoch = rq'[r].epoch =>
                        /\ t.key \in DOMAIN memo'[r] /\ memo'[r][t.key].by = None
                        /\ memo'[r][t.key].reply.ver = t.ver /\ memo'[r][t.key].reply.status = t.status
        <5>1. Told(g)
          BY <1>7
        <5>2. t.epoch \in Nat /\ t.epoch <= rq'[r].epoch /\ t.ver >= t.floor
          BY <2>0, <2>3, <5>1 DEF Told
        <5>3. ASSUME t.epoch = rq'[r].epoch
              PROVE  /\ t.key \in DOMAIN memo[r] /\ memo[r][t.key].by = None
                     /\ memo[r][t.key].reply.ver = t.ver /\ memo[r][t.key].reply.status = t.status
          BY <2>0, <2>3, <5>1, <5>3 DEF Told
        <5>4. t.epoch = rq'[r].epoch => t.key # key
          BY <2>2, <5>3
        <5>5. QED
          BY <2>1, <5>2, <5>3, <5>4
      <4>2. ASSUME NEW t \in seen'[g], t \notin seen[g]
            PROVE  /\ t.epoch = rq'[r].epoch /\ t.ver = rep.ver /\ t.floor = rq[r].wrote /\ t.key = key
                   /\ t.status = rep.status
        BY <1>4, <1>14, <2>0, <4>2
      <4>3. ASSUME NEW t \in seen'[g], t \notin seen[g]
            PROVE  /\ t.epoch \in Nat /\ t.epoch <= rq'[r].epoch /\ t.ver >= t.floor
                   /\ t.key \in DOMAIN memo'[r] /\ memo'[r][t.key].by = None
                   /\ memo'[r][t.key].reply.ver = t.ver /\ memo'[r][t.key].reply.status = t.status
        BY <1>6, <2>0, <2>1, <4>2, <4>3
      <4>4. QED
        BY <1>0, <2>3, <4>1, <4>3 DEF Told
    <3>3. QED
      BY <3>1, <3>2
  <2>4. \A g \in Fields : Holds(g)' /\ Told(g)' /\ Replied(g)'
    BY <1>9, <1>11, <1>14, <2>3
  <2>5. ASSUME NEW q \in Requests, q = r PROVE Filled(q)'
    <3>1. Filled(r)
      BY <1>0 DEF Sound
    <3>2. ASSUME NEW k \in DOMAIN memo'[r], memo'[r][k].by = None, k # key
          PROVE  LET x == memo'[r][k].reply
                 IN  /\ x.ver \in Nat /\ x.ver >= rq'[r].wrote /\ x.ver <= forge.ver /\ x.write \in BOOLEAN
                     /\ Weighed(x, rq'[r].left)
      <4>1. k \in DOMAIN memo[r] /\ memo'[r][k] = memo[r][k] /\ memo[r][k].by = None
        BY <2>1, <3>2
      <4>2. LET x == memo[r][k].reply
            IN  /\ x.ver \in Nat /\ x.ver >= rq[r].wrote /\ x.ver <= forge.ver /\ x.write \in BOOLEAN
                /\ Weighed(x, rq[r].left)
        BY <3>1, <4>1, Zenon DEF Filled
      <4>3. QED
        BY <1>6, <2>0, <4>1, <4>2, Zenon
    <3>3. /\ rep.ver >= rq'[r].wrote
          /\ Weighed(rep, rq'[r].left)
      BY <1>6, <2>0
    <3>4. QED
      BY <2>1, <2>5, <3>2, <3>3, Zenon DEF Filled
  <2>6. AsOne'
    <3>1. ASSUME NEW g \in Fields, NEW t \in seen'[g], t \notin seen[g] PROVE t.epoch = rq'[Of(g)].epoch
      BY <1>4, <1>14, <2>0, <3>1
    <3>2. QED
      BY <1>0, <2>4, <3>1, AsOneStep
  <2>7. QED
    BY <1>7, <1>8, <1>10, <2>4, <2>5, <2>6, Zenon DEF Sound
<1>15. CASE ~wrote /\ Call(f).how # "memo"
  <2>0. /\ rq'[r].epoch = rq[r].epoch /\ rq'[r].wrote = rq[r].wrote /\ memo'[r] = memo[r]
        /\ \A g \in Fields : seen'[g] = seen[g]
    BY <1>2, <1>4, <1>5, <1>15
  <2>1. ASSUME NEW g \in Fields, Of(g) = r PROVE Holds(g)' /\ Told(g)'
    <3>1. Holds(g)'
      <4>1. CASE g # f
        BY <1>0, <1>1, <1>7, <2>0, <2>1, <4>1 DEF Holds, Fetching
      <4>2. QED
        BY <1>12, <4>1
    <3>2. Told(g)'
      BY <1>0, <1>7, <2>0, <2>1 DEF Told
    <3>3. QED
      BY <3>1, <3>2
  <2>2. \A g \in Fields : Holds(g)' /\ Told(g)' /\ Replied(g)'
    BY <1>9, <1>11, <1>15, <2>1
  <2>3. ASSUME NEW q \in Requests, q = r PROVE Filled(q)'
    <3>1. Filled(r)
      BY <1>0 DEF Sound
    <3>2. QED
      BY <1>6, <2>0, <2>3, <3>1, Zenon DEF Filled
  <2>4. AsOne'
    BY <1>0, <2>0 DEF Sound, AsOne
  <2>5. QED
    BY <1>7, <1>8, <1>10, <2>2, <2>3, <2>4, Zenon DEF Sound
<1>16. QED
  BY <1>13, <1>14, <1>15

(* How a step of a reply's body ends: it is refused, the call has its       *)
(* reply, the pull request is read once more, or there is more to come.    *)
Mute(rep) == rep.status \in {"lost", "too_large"}
Charged(f, n) ==
    /\ n \in Nat /\ n <= rq[Of(f)].left
    /\ rq' = [rq EXCEPT ![Of(f)].left = @ - n, ![Of(f)].drawn = @ + n]
    /\ UNCHANGED <<memo, seen>>
Again(f, call) ==
    /\ call.key = Key("pull")
    /\ local' = [local EXCEPT ![f].tries = 1] /\ io' = [io EXCEPT ![f] = "sent"]
    /\ reply' = reply
More(f, n) ==
    /\ reply[f].body + n <= reply[f].size
    /\ reply' = [reply EXCEPT ![f].body = @ + n]
    /\ UNCHANGED <<io, local>>
Refused(f, call, rep) ==
    /\ rep.ver = forge.ver /\ rep.write = FALSE /\ Mute(rep) /\ Weighed(rep, rq[Of(f)].left)
    /\ Settle(f, call, rep, 0) /\ local' = local

LEMMA ReceiveCases ==
  ASSUME Shapes, NEW f \in Fields, NEW call, Replied(f), Receive(f, call)
  PROVE  \/ \E rep : Refused(f, call, rep)
         \/ \E n \in Nat : /\ n <= rq[Of(f)].left /\ Settle(f, call, reply[f], n)
                           /\ local' = [local EXCEPT ![f].tries = 0]
         \/ \E n \in Nat : Charged(f, n) /\ (Again(f, call) \/ More(f, n))
<1> DEFINE rep == reply[f]
           left == rq[Of(f)].left
           tooLarge == [Failure("too_large") EXCEPT !.size = rep.size, !.body = rep.body]
<1>0. Weighed(rep, left) /\ left \in Nat /\ rep.size \in Nat /\ rep.body \in Nat /\ rep.body <= rep.size
  BY Owners DEF Replied, Shapes, Weighed
<1>1. PICK chunk \in 0..(rep.size - rep.body) :
        \/ /\ rep.body + chunk > MAX_RESPONSE \/ chunk > left
           /\ Settle(f, call, tooLarge, 0) /\ UNCHANGED local
        \/ /\ rep.body + chunk <= MAX_RESPONSE /\ chunk <= left
           /\ \/ /\ rep.body + chunk < rep.size
                 /\ reply' = [reply EXCEPT ![f].body = @ + chunk]
                 /\ rq' = [rq EXCEPT ![Of(f)].left = @ - chunk, ![Of(f)].drawn = @ + chunk]
                 /\ UNCHANGED <<memo, io, seen, local>>
              \/ /\ call.key = Key("pull") /\ local' = [local EXCEPT ![f].tries = 1]
                 /\ io' = [io EXCEPT ![f] = "sent"]
                 /\ rq' = [rq EXCEPT ![Of(f)].left = @ - chunk, ![Of(f)].drawn = @ + chunk]
                 /\ UNCHANGED <<memo, reply, seen>>
              \/ Settle(f, call, rep, chunk) /\ local' = [local EXCEPT ![f].tries = 0]
  BY Zenon DEF Receive
<1>2. chunk \in Nat /\ rep.body + chunk <= rep.size
  BY <1>0
<1>3. CASE (rep.body + chunk > MAX_RESPONSE \/ chunk > left) /\ Settle(f, call, tooLarge, 0) /\ UNCHANGED local
  <2>1. rep.size > MAX_RESPONSE \/ rep.size - rep.body > left
    BY <1>0, <1>2, <1>3, BudgetWhole
  <2>2. /\ DOMAIN tooLarge = DOMAIN NoReply /\ tooLarge.size = rep.size /\ tooLarge.body = rep.body
        /\ tooLarge.ver = forge.ver /\ tooLarge.write = FALSE /\ tooLarge.status = "too_large"
    BY DEF Failure, NoReply
  <2> HIDE DEF tooLarge
  <2>3. Weighed(tooLarge, left) /\ Mute(tooLarge)
    BY <1>0, <2>1, <2>2 DEF Weighed, Mute
  <2>4. Refused(f, call, tooLarge)
    BY <1>3, <2>2, <2>3, Zenon DEF Refused
  <2>5. QED
    BY <2>4
<1>4. CASE /\ chunk <= left /\ reply' = [reply EXCEPT ![f].body = @ + chunk]
           /\ rq' = [rq EXCEPT ![Of(f)].left = @ - chunk, ![Of(f)].drawn = @ + chunk]
           /\ UNCHANGED <<memo, io, seen, local>>
  BY <1>2, <1>4, Zenon DEF Charged, More
<1>5. CASE /\ chunk <= left /\ call.key = Key("pull") /\ local' = [local EXCEPT ![f].tries = 1]
           /\ io' = [io EXCEPT ![f] = "sent"]
           /\ rq' = [rq EXCEPT ![Of(f)].left = @ - chunk, ![Of(f)].drawn = @ + chunk]
           /\ UNCHANGED <<memo, reply, seen>>
  BY <1>2, <1>5, Zenon DEF Charged, Again
<1>6. CASE chunk <= left /\ Settle(f, call, rep, chunk) /\ local' = [local EXCEPT ![f].tries = 0]
  BY <1>2, <1>6, Zenon
<1>7. QED
  BY <1>1, <1>3, <1>4, <1>5, <1>6, Zenon

LEMMA ReceiveStep ==
  ASSUME Shapes, Document, Sound, NEW f \in Fields, pc[f] # "ready", Receive(f, Call(f))
  PROVE  Sound'
<1> DEFINE r == Of(f)
<1>0. /\ r \in Requests /\ Active(f) /\ io[f] = "back" /\ rq[r].phase = "open"
      /\ UNCHANGED <<forge, field, pc, answer>>
      /\ Replied(f) /\ forge.ver \in Nat /\ rq[r].left \in Nat /\ rq[r].drawn \in Nat /\ rq[r].wrote \in Nat
      /\ Spent(r)
  BY Owners DEF Receive, Turn, Active, Sound, Shapes
<1>1. ASSUME NEW rep, Refused(f, Call(f), rep) PROVE Sound'
  <2>1. rq[r].wrote <= forge.ver
    BY <1>0 DEF Spent
  <2>2. rep.ver \in Nat /\ rep.ver <= forge.ver /\ rep.ver >= rq[r].wrote
    BY <1>0, <1>1, <2>1 DEF Refused
  <2>3. /\ rep.write \in BOOLEAN /\ Weighed(rep, rq[r].left) /\ Settle(f, Call(f), rep, 0)
        /\ \A g \in Fields \ {f} : local'[g] = local[g]
    BY <1>1, Zenon DEF Refused
  <2>4. 0 \in Nat /\ 0 <= rq[r].left /\ io[f] \in {"sent", "back"}
    BY <1>0
  <2>5. QED
    BY <1>0, <2>2, <2>3, <2>4, SettleStep
<1>2. ASSUME NEW n \in Nat, n <= rq[r].left, Settle(f, Call(f), reply[f], n),
             local' = [local EXCEPT ![f].tries = 0]
      PROVE  Sound'
  <2>1. \A g \in Fields \ {f} : local'[g] = local[g]
    BY <1>2 DEF Shapes
  <2>2. /\ reply[f].ver \in Nat /\ reply[f].ver <= forge.ver /\ reply[f].write \in BOOLEAN
        /\ reply[f].ver >= rq[r].wrote /\ Weighed(reply[f], rq[r].left)
    BY <1>0, Zenon DEF Replied
  <2>3. QED
    BY <1>0, <1>2, <2>1, <2>2, SettleStep
<1>3. ASSUME NEW n \in Nat, Charged(f, n), Again(f, Call(f)) \/ More(f, n)
      PROVE  Sound'
  <2>0. /\ \A g \in Fields : Of(g)' = Of(g) /\ Of(g) \in Requests /\ Call(g)' = Call(g)
                            /\ (Active(g)' <=> Active(g))
        /\ \A g \in Fields \ {f} : io'[g] = io[g]
        /\ io'[f] \in {"sent", "back"}
    <3>1. \A g \in Fields \ {f} : local'[g] = local[g] /\ io'[g] = io[g]
      BY <1>3 DEF Again, More, Shapes
    <3>2. Call(f)' = Call(f)
      <4>1. CASE Again(f, Call(f))
        BY <1>0, <4>1, CallAgain DEF Again
      <4>2. CASE More(f, n)
        BY <1>0, <4>2, CallKept DEF More
      <4>3. QED
        BY <1>3, <4>1, <4>2
    <3>3. \A g \in Fields \ {f} : Call(g)' = Call(g)
      BY <1>0, <3>1, CallKept
    <3>4. \A g \in Fields : Of(g)' = Of(g) /\ Of(g) \in Requests /\ (Active(g)' <=> Active(g))
      BY <1>0, Owners DEF Of, Active
    <3>5. io'[f] \in {"sent", "back"}
      BY <1>0, <1>3 DEF Again, More, Shapes
    <3>6. QED
      BY <3>1, <3>2, <3>3, <3>4, <3>5
  <2>1. \A q \in Requests : /\ rq'[q].epoch = rq[q].epoch /\ rq'[q].wrote = rq[q].wrote
                            /\ rq'[q].phase = rq[q].phase
                            /\ q # r => rq'[q] = rq[q]
    BY <1>0, <1>3 DEF Charged, Shapes
  <2>2. /\ rq'[r].left = rq[r].left - n /\ rq'[r].drawn = rq[r].drawn + n
        /\ rq'[r].left \in Nat /\ rq'[r].left <= rq[r].left
    BY <1>0, <1>3 DEF Charged, Shapes
  <2>3. memo' = memo /\ seen' = seen
    BY <1>3 DEF Charged
  <2>4. ASSUME NEW x, NEW q \in Requests, Weighed(x, rq[q].left) PROVE Weighed(x, rq'[q].left)
    <3>1. CASE q = r
      BY <1>0, <2>2, <2>4, <3>1, WeighedLess
    <3>2. CASE q # r
      BY <2>1, <2>4, <3>2
    <3>3. QED
      BY <3>1, <3>2
  <2>5. /\ reply'[f].ver = reply[f].ver /\ reply'[f].write = reply[f].write
        /\ Weighed(reply'[f], rq'[r].left)
        /\ \A g \in Fields \ {f} : reply'[g] = reply[g]
    <3>1. Weighed(reply[f], rq[r].left)
      BY <1>0 DEF Replied
    <3>2. CASE Again(f, Call(f))
      BY <1>0, <2>4, <3>1, <3>2 DEF Again
    <3>3. CASE More(f, n)
      <4>1. DOMAIN reply[f] = {"status", "was", "ver", "write", "size", "body"} /\ f \in DOMAIN reply
        BY <3>1 DEF Weighed, NoReply, Shapes
      <4>2. /\ DOMAIN reply'[f] = DOMAIN reply[f] /\ reply'[f].body = reply[f].body + n
            /\ reply'[f].ver = reply[f].ver /\ reply'[f].write = reply[f].write
            /\ reply'[f].size = reply[f].size /\ reply'[f].status = reply[f].status
            /\ \A g \in Fields \ {f} : reply'[g] = reply[g]
        BY <3>3, <4>1 DEF More, Shapes
      <4>3. /\ reply[f].size \in Nat /\ reply[f].body \in Nat /\ reply[f].body + n <= reply[f].size
            /\ reply[f].status = "too_large" =>
                 reply[f].size > MAX_RESPONSE \/ reply[f].size - reply[f].body > rq[r].left
        BY <3>1, <3>3 DEF Weighed, More
      <4>4. Weighed(reply'[f], rq'[r].left)
        BY <1>0, <2>2, <3>1, <4>2, <4>3 DEF Weighed
      <4>5. QED
        BY <4>2, <4>4
    <3>4. QED
      BY <1>3, <3>2, <3>3
  <2>6. ASSUME NEW g \in Fields PROVE InTurn(g)' /\ Holds(g)' /\ Told(g)' /\ Replied(g)'
    <3>0. InTurn(g) /\ Holds(g) /\ Told(g) /\ Replied(g)
      BY DEF Sound
    <3>1. InTurn(g)'
      BY <1>0, <2>0, <3>0 DEF InTurn, Active
    <3>2. Holds(g)'
      BY <1>0, <2>0, <2>3, <3>0 DEF Holds, Fetching
    <3>3. Told(g)'
      <4>1. /\ rq'[Of(g)].epoch = rq[Of(g)].epoch /\ Of(g)' = Of(g)
            /\ memo' = memo /\ seen'[g] = seen[g] /\ Told(g)
        BY <2>0, <2>1, <2>3, <3>0
      <4>2. QED
        BY <4>1 DEF Told
    <3>4. Replied(g)'
      <4>1. Active(g)' /\ io'[g] = "back" => Active(g) /\ io[g] = "back"
        BY <1>0, <2>0
      <4>2. /\ reply'[g].ver = reply[g].ver /\ reply'[g].write = reply[g].write
            /\ Weighed(reply'[g], rq'[Of(g)].left)
        <5>1. CASE g = f
          BY <2>5, <5>1
        <5>2. CASE g # f
          <6>1. Weighed(reply[g], rq[Of(g)].left) /\ reply'[g] = reply[g]
            BY <2>5, <3>0, <5>2 DEF Replied
          <6>2. QED
            BY <2>0, <2>4, <6>1
        <5>3. QED
          BY <5>1, <5>2
      <4>3. QED
        BY <1>0, <2>0, <2>1, <3>0, <4>1, <4>2, Zenon DEF Replied
    <3>5. QED
      BY <3>1, <3>2, <3>3, <3>4
  <2>7. AsOne'
    BY <2>0, <2>3 DEF Sound, AsOne
  <2>8. ASSUME NEW q \in Requests PROVE Filled(q)' /\ Spent(q)'
    <3>0. Filled(q) /\ Spent(q)
      BY DEF Sound
    <3>1. ASSUME NEW k \in DOMAIN memo[q], memo[q][k].by = None
          PROVE  Weighed(memo[q][k].reply, rq'[q].left)
      BY <2>4, <3>0, <3>1 DEF Filled
    <3>2. Filled(q)'
      BY <1>0, <2>1, <2>3, <3>0, <3>1, Zenon DEF Filled
    <3>3. Spent(q)'
      BY <1>0, <2>1, <2>2, <3>0 DEF Spent
    <3>4. QED
      BY <3>2, <3>3
  <2>9. QED
    BY <2>6, <2>7, <2>8 DEF Sound
<1>4. QED
  BY <1>0, <1>1, <1>2, <1>3, ReceiveCases

LEMMA BreakStep ==
  ASSUME Shapes, Document, Sound, NEW f \in Fields, pc[f] # "ready", Break(f, Call(f))
  PROVE  Sound'
<1>1. /\ Active(f) /\ io[f] \in {"sent", "back"} /\ rq[Of(f)].phase = "open"
      /\ Settle(f, Call(f), Failure("lost"), 0) /\ UNCHANGED <<forge, field, pc, answer, local>>
  BY DEF Break, Turn, Active, Rest
<1>3. /\ rq[Of(f)].wrote <= forge.ver /\ forge.ver \in Nat /\ rq[Of(f)].wrote \in Nat
      /\ rq[Of(f)].left \in Nat
  BY Owners DEF Sound, Spent, Shapes
<1>2. /\ Failure("lost").ver = forge.ver /\ Failure("lost").write = FALSE
      /\ Weighed(Failure("lost"), rq[Of(f)].left)
  BY <1>3, Failed
<1> DEFINE rep == Failure("lost")
<1>4. /\ rep.ver \in Nat /\ rep.ver <= forge.ver /\ rep.ver >= rq[Of(f)].wrote
      /\ 0 \in Nat /\ 0 <= rq[Of(f)].left /\ Weighed(rep, rq[Of(f)].left)
  BY <1>2, <1>3
<1>5. rep.write \in BOOLEAN
  BY <1>2, Zenon
<1>6. \A g \in Fields \ {f} : local'[g] = local[g]
  BY <1>1
<1>7. Settle(f, Call(f), rep, 0)
  BY <1>1
<1> HIDE DEF rep
<1>8. QED
  BY <1>1, <1>4, <1>5, <1>6, <1>7, SettleStep

(* Forgejo's own steps: its version grows, and a reply carries it.         *)
Grows ==
    /\ forge'.ver \in Nat /\ forge'.ver >= forge.ver
    /\ UNCHANGED <<rq, memo, field, pc, local, answer, seen>>

LEMMA GrowsStep ==
  ASSUME Shapes, Sound, Grows, UNCHANGED <<io, reply>>
  PROVE  Sound'
<1>0. forge.ver \in Nat /\ \A g \in Fields : Of(g)' = Of(g) /\ Of(g) \in Requests /\ Call(g)' = Call(g)
  BY Owners, CallKept DEF Shapes, Grows, Of
<1>1. ASSUME NEW g \in Fields PROVE InTurn(g)' /\ Holds(g)' /\ Told(g)' /\ Replied(g)'
  <2>0. InTurn(g) /\ Holds(g) /\ Told(g) /\ Replied(g)
    BY DEF Sound
  <2>1. InTurn(g)' /\ Told(g)'
    BY <1>0, <2>0 DEF InTurn, Told, Grows
  <2>2. Holds(g)'
    BY <1>0, <2>0 DEF Holds, Fetching, Active, Grows
  <2>3. reply[g].ver <= forge'.ver
    BY <1>0, <2>0 DEF Replied, Grows
  <2>4. Replied(g)'
    BY <1>0, <2>0, <2>3, Zenon DEF Replied, Active, Grows
  <2>5. QED
    BY <2>1, <2>2, <2>4
<1>2. AsOne'
  BY <1>0 DEF Sound, AsOne, Grows
<1>3. ASSUME NEW q \in Requests PROVE Filled(q)' /\ Spent(q)'
  <2>0. Filled(q) /\ Spent(q) /\ rq[q].wrote \in Nat
    BY DEF Sound, Shapes
  <2>1. \A k \in DOMAIN memo[q] : memo[q][k].by = None => memo[q][k].reply.ver <= forge'.ver
    BY <1>0, <2>0 DEF Filled, Grows
  <2>2. Filled(q)'
    BY <1>0, <2>0, <2>1, Zenon DEF Filled, Grows
  <2>3. Spent(q)'
    BY <1>0, <2>0 DEF Spent, Grows
  <2>4. QED
    BY <2>2, <2>3
<1>4. QED
  BY <1>1, <1>2, <1>3 DEF Sound

LEMMA MeddleStep ==
  ASSUME Shapes, Meddle
  PROVE  Grows /\ UNCHANGED <<io, reply>> /\ "ver" \in DOMAIN forge'
<1>1. forge.ver \in Nat /\ "ver" \in DOMAIN forge
  BY DEF Shapes
<1>2. \A after \in Edited \cup Listed : "ver" \in DOMAIN after
  BY <1>1 DEF Edited, Listed
<1>3. PICK after \in Edited \cup Listed : forge' = [after EXCEPT !.ver = forge.ver + 1]
  BY DEF Meddle
<1>4. "ver" \in DOMAIN forge' /\ forge'.ver = forge.ver + 1
  BY <1>2, <1>3
<1>5. QED
  BY <1>1, <1>4 DEF Meddle, Grows

(* An edit keeps the history's version in place, and no status of          *)
(* Forgejo's is the budget's own.                                          *)
LEMMA OutcomesKeep ==
  ASSUME Shapes, NEW f \in Fields, NEW o \in Outcomes(f)
  PROVE  "ver" \in DOMAIN o.after /\ o.status # "too_large"
<1> DEFINE Fine(x) == "ver" \in DOMAIN x.after /\ x.status # "too_large"
<1>0. "ver" \in DOMAIN forge
  BY DEF Shapes
<1>1. Fine(Refusal)
  BY <1>0 DEF Refusal
<1>2. CASE pc[f] \in {"create", "create_issue"}
  <2>1. Outcomes(f) = {Refusal} \union {[after |-> [forge EXCEPT !.made = @ \union {f}], status |-> "ok"]}
    BY <1>2 DEF Outcomes
  <2>2. Fine([after |-> [forge EXCEPT !.made = @ \union {f}], status |-> "ok"])
    BY <1>0
  <2>3. QED
    BY <1>1, <2>1, <2>2
<1>3. CASE pc[f] = "allow"
  <2>1. Outcomes(f) = {Refusal} \union {[after |-> [forge EXCEPT !.allowed = TRUE], status |-> "ok"]}
    BY <1>3 DEF Outcomes
  <2>2. Fine([after |-> [forge EXCEPT !.allowed = TRUE], status |-> "ok"])
    BY <1>0
  <2>3. QED
    BY <1>1, <2>1, <2>2
<1>4. CASE pc[f] = "comment"
  <2>1. Outcomes(f) = {Refusal} \union {[after |-> [forge EXCEPT !.noted = @ \union {f}], status |-> "ok"]}
    BY <1>4 DEF Outcomes
  <2>2. Fine([after |-> [forge EXCEPT !.noted = @ \union {f}], status |-> "ok"])
    BY <1>0
  <2>3. QED
    BY <1>1, <2>1, <2>2
<1>5. CASE pc[f] \in {"patch", "title"}
  <2>1. Outcomes(f) = {Refusal} \union Patched(f, local[f].change)
    BY <1>5 DEF Outcomes
  <2>2. \A x \in Patched(f, local[f].change) : Fine(x)
    BY <1>0 DEF Patched
  <2>3. QED
    BY <1>1, <2>1, <2>2
<1>6. CASE pc[f] = "delete"
  <2>1. Outcomes(f) \subseteq {Refusal, [after |-> [forge EXCEPT !.branches = @ \ {"branch"}], status |-> "ok"],
                              [after |-> forge, status |-> "server_error"]}
    BY <1>6 DEF Outcomes
  <2>2. /\ Fine([after |-> [forge EXCEPT !.branches = @ \ {"branch"}], status |-> "ok"])
        /\ Fine([after |-> forge, status |-> "server_error"])
    BY <1>0
  <2>3. QED
    BY <1>1, <2>1, <2>2
<1>7. CASE pc[f] \notin {"create", "create_issue", "allow", "comment", "patch", "title", "delete"}
  <2>1. Outcomes(f) = {Refusal}
    BY <1>7 DEF Outcomes
  <2>2. QED
    BY <1>1, <2>1
<1>8. QED
  BY <1>2, <1>3, <1>4, <1>5, <1>6, <1>7

(* What Forgejo's handling of a call comes to.                             *)
Served(f, status, write) ==
    /\ Active(f) /\ io[f] = "sent" /\ io' = [io EXCEPT ![f] = "back"]
    /\ status # "too_large" /\ write \in BOOLEAN
    /\ \E size \in Nat :
          reply' = [reply EXCEPT ![f] = [status |-> status, was |-> forge', ver |-> forge'.ver,
                                         write |-> write, size |-> size, body |-> 0]]

LEMMA HandleEffect ==
  ASSUME Shapes, NEW f \in Fields, pc[f] # "ready", NEW after, "ver" \in DOMAIN after,
         NEW status, status # "too_large", NEW write \in BOOLEAN, Handle(f, after, status, write)
  PROVE  Grows /\ "ver" \in DOMAIN forge' /\ Served(f, status, write)
<1>1. "ver" \in DOMAIN forge /\ forge.ver \in Nat
  BY DEF Shapes
<1>2. forge' = IF after = forge THEN forge ELSE [after EXCEPT !.ver = forge.ver + 1]
  BY DEF Handle
<1>3. "ver" \in DOMAIN forge' /\ forge'.ver \in Nat /\ forge'.ver >= forge.ver
  <2>1. CASE after = forge
    BY <1>1, <1>2, <2>1
  <2>2. CASE after # forge
    BY <1>1, <1>2, <2>2
  <2>3. QED
    BY <2>1, <2>2
<1>4. Grows
  BY <1>3 DEF Grows, Handle, Rest
<1>5. Served(f, status, write)
  <2>1. field[f].sizes \subseteq Nat
    BY DEF Shapes, Jobs
  <2>2. QED
    BY <2>1, Zenon DEF Served, Handle, Turn, Active
<1>6. QED
  BY <1>3, <1>4, <1>5

LEMMA ServeEffect ==
  ASSUME Shapes, NEW f \in Fields, Serve(f), pc[f] # "ready"
  PROVE  /\ Grows /\ "ver" \in DOMAIN forge'
         /\ \E status, write : Served(f, status, write)
<1>1. CASE Call(f).how = "write"
  <2>1. PICK o \in Outcomes(f) : Handle(f, o.after, o.status, TRUE)
    BY <1>1, Zenon DEF Serve
  <2>2. "ver" \in DOMAIN o.after /\ o.status # "too_large"
    BY OutcomesKeep, Zenon
  <2>3. QED
    BY <2>1, <2>2, HandleEffect
<1>2. CASE Call(f).how # "write"
  <2> DEFINE status == IF pc[f] = "look" /\ forge.unseen THEN "unseen" ELSE StatusOf(forge, Call(f).key)
  <2>1. Handle(f, forge, status, FALSE)
    BY <1>2 DEF Serve
  <2>2. status # "too_large" /\ "ver" \in DOMAIN forge
    BY DEF StatusOf, Shapes
  <2> HIDE DEF status
  <2>3. QED
    BY <2>1, <2>2, HandleEffect
<1>3. QED
  BY <1>1, <1>2

LEMMA ServeStep ==
  ASSUME Shapes, Sound, NEW f \in Fields, Serve(f), pc[f] # "ready"
  PROVE  Sound'
<1>1. PICK status, write : Served(f, status, write)
  BY ServeEffect
<1>2. Grows
  BY ServeEffect
<1>3. /\ forge.ver \in Nat /\ forge'.ver \in Nat /\ forge'.ver >= forge.ver
      /\ \A g \in Fields : Of(g)' = Of(g) /\ Of(g) \in Requests /\ Call(g)' = Call(g)
                          /\ (Active(g)' <=> Active(g))
  BY <1>2, Owners, CallKept DEF Shapes, Grows, Of, Active
<1>4. /\ Active(f) /\ io[f] = "sent" /\ io'[f] = "back"
      /\ reply'[f].ver = forge'.ver
      /\ \A g \in Fields \ {f} : io'[g] = io[g] /\ reply'[g] = reply[g]
  BY <1>1 DEF Served, Shapes
<1>5. reply'[f].write \in BOOLEAN /\ \A left \in Nat : Weighed(reply'[f], left)
  <2>1. PICK size \in Nat :
          reply'[f] = [status |-> status, was |-> forge', ver |-> forge'.ver, write |-> write,
                       size |-> size, body |-> 0]
    BY <1>1 DEF Served, Shapes
  <2>2. reply'[f].write = write /\ reply'[f].status = status
    BY <2>1
  <2>3. \A left \in Nat : Weighed(reply'[f], left)
    BY <1>1, <2>1, <2>2 DEF Served, Weighed, NoReply
  <2>4. QED
    BY <1>1, <2>2, <2>3, Zenon DEF Served
<1>6. ASSUME NEW g \in Fields PROVE InTurn(g)' /\ Holds(g)' /\ Told(g)' /\ Replied(g)'
  <2>0. InTurn(g) /\ Holds(g) /\ Told(g) /\ Replied(g)
    BY DEF Sound
  <2>1. InTurn(g)'
    BY <1>2, <1>3, <1>4, <2>0 DEF InTurn, Grows, Active
  <2>2. Holds(g)'
    BY <1>2, <1>3, <1>4, <2>0 DEF Holds, Fetching, Grows
  <2>3. Told(g)'
    BY <1>2, <1>3, <2>0 DEF Told, Grows
  <2>4. rq'[Of(g)].wrote \in Nat /\ rq'[Of(g)].wrote <= forge.ver /\ rq' = rq
    BY <1>2, <1>3 DEF Sound, Spent, Shapes, Grows
  <2>5. CASE g = f
    <3>1. reply'[g].ver \in Nat /\ reply'[g].ver <= forge'.ver /\ reply'[g].ver >= rq'[Of(g)].wrote
      BY <1>3, <1>4, <2>4, <2>5
    <3>2. Weighed(reply'[g], rq'[Of(g)].left) /\ reply'[g].write \in BOOLEAN
      <4>1. rq[Of(g)].left \in Nat
        BY <1>3 DEF Shapes
      <4>2. QED
        BY <1>5, <2>4, <2>5, <4>1
    <3>4. Replied(g)'
      BY <1>3, <1>4, <2>5, <3>1, <3>2, Zenon DEF Replied
    <3>5. QED
      BY <2>1, <2>2, <2>3, <3>4
  <2>6. CASE g # f
    <3>1. reply'[g] = reply[g] /\ io'[g] = io[g]
      BY <1>4, <2>6
    <3>2. reply[g].ver <= forge'.ver
      BY <1>3, <2>0 DEF Replied
    <3>3. Replied(g)'
      BY <1>3, <2>0, <2>4, <3>1, <3>2, Zenon DEF Replied
    <3>4. QED
      BY <2>1, <2>2, <2>3, <3>3
  <2>7. QED
    BY <2>5, <2>6
<1>7. AsOne'
  BY <1>2, <1>3 DEF Sound, AsOne, Grows
<1>8. ASSUME NEW q \in Requests PROVE Filled(q)' /\ Spent(q)'
  <2>0. Filled(q) /\ Spent(q) /\ rq[q].wrote \in Nat
    BY DEF Sound, Shapes
  <2>1. \A k \in DOMAIN memo[q] : memo[q][k].by = None => memo[q][k].reply.ver <= forge'.ver
    BY <1>3, <2>0 DEF Filled
  <2>2. Filled(q)'
    BY <1>2, <2>0, <2>1, Zenon DEF Filled, Grows
  <2>3. Spent(q)'
    BY <1>2, <1>3, <2>0 DEF Spent, Grows
  <2>4. QED
    BY <2>2, <2>3
<1>9. QED
  BY <1>6, <1>7, <1>8 DEF Sound

(* A resolver dropped leaves the cell it was filling to another.           *)
LEMMA DropStep ==
  ASSUME Shapes, Sound, NEW f \in Fields, Drop(f)
  PROVE  Sound'
<1> DEFINE r == Of(f)
<1>0. /\ r \in Requests /\ UNCHANGED <<rq, forge, field, pc, io, reply, local, seen>>
      /\ \A g \in Fields : Of(g)' = Of(g) /\ Of(g) \in Requests /\ Call(g)' = Call(g)
      /\ f # None
  BY Owners, CallKept, SessionAssumption DEF Drop, Of
<1>1. /\ answer'[f] = "dropped" /\ \A g \in Fields \ {f} : answer'[g] = answer[g]
      /\ "dropped" # None
  BY SessionAssumption DEF Drop, Shapes, Ends
<1>2. /\ \A q \in Requests \ {r} : memo'[q] = memo[q]
      /\ DOMAIN memo'[r] = {l \in DOMAIN memo[r] : memo[r][l].by # f}
      /\ \A k \in DOMAIN memo'[r] : memo'[r][k] = memo[r][k]
  BY <1>0 DEF Drop, Shapes
<1>3. ASSUME NEW g \in Fields PROVE InTurn(g)' /\ Holds(g)' /\ Told(g)' /\ Replied(g)'
  <2>0. InTurn(g) /\ Holds(g) /\ Told(g) /\ Replied(g) /\ field[g].after \subseteq Fields
    BY DEF Sound, Shapes, Jobs
  <2>1. InTurn(g)'
    BY <1>0, <1>1, <2>0 DEF InTurn
  <2>2. Active(g)' => Active(g) /\ g # f
    BY <1>0, <1>1 DEF Active
  <2>3. Holds(g)'
    BY <1>0, <1>2, <2>0, <2>2 DEF Holds, Fetching
  <2>4. Told(g)'
    BY <1>0, <1>2, <2>0 DEF Told
  <2>5. Replied(g)'
    BY <1>0, <2>0, <2>2, Zenon DEF Replied
  <2>6. QED
    BY <2>1, <2>3, <2>4, <2>5
<1>4. AsOne'
  BY <1>0 DEF Sound, AsOne
<1>5. ASSUME NEW q \in Requests PROVE Filled(q)' /\ Spent(q)'
  <2>0. Filled(q) /\ Spent(q)
    BY DEF Sound
  <2>1. \A k \in DOMAIN memo'[q] : k \in DOMAIN memo[q] /\ memo'[q][k] = memo[q][k]
    BY <1>2
  <2>2. Filled(q)'
    BY <1>0, <2>0, <2>1, Zenon DEF Filled
  <2>3. Spent(q)'
    BY <1>0, <2>0 DEF Spent
  <2>4. QED
    BY <2>2, <2>3
<1>6. QED
  BY <1>3, <1>4, <1>5 DEF Sound

(* What a resolver makes of its reply: it goes to a step of its own kind   *)
(* or ends, and what the others keep is theirs.                            *)
Went(f) ==
    /\ pc' \in [Fields -> {"ready"} \union Steps] /\ answer' \in [Fields -> Ends \union {None}]
    /\ pc'[f] # "ready"
    /\ field[f].op \in Queries => pc'[f] \in {"read", "page", "settings", "window"}
    /\ \A g \in Fields \ {f} : pc'[g] = pc[g] /\ answer'[g] = answer[g]
Own(f) == DOMAIN local' = Fields /\ \A g \in Fields \ {f} : local'[g] = local[g]

LEMMA ToGoes ==
  ASSUME Shapes, NEW f \in Fields, NEW step \in Steps, To(f, step),
         field[f].op \in Queries => step \in {"read", "page", "settings", "window"}
  PROVE  Went(f)
<1>1. step # "ready"
  BY DEF Steps
<1>2. pc'[f] = step /\ pc' \in [Fields -> {"ready"} \union Steps] /\ answer' = answer
  BY <1>1 DEF To, Shapes
<1>3. QED
  BY <1>1, <1>2 DEF To, Went, Shapes

LEMMA EndGoes ==
  ASSUME Shapes, NEW f \in Fields, InTurn(f), pc[f] # "ready", NEW how \in Ends, End(f, how)
  PROVE  Went(f)
BY DEF End, InTurn, Went, Shapes

LEMMA MutationsGo ==
  ASSUME Shapes, NEW f \in Fields, InTurn(f), pc[f] # "ready",
         NamedRepository(f) \/ Created(f) \/ Allowed(f) \/ Commented(f) \/ Update(f) \/ Patch(f)
           \/ SetDraft(f) \/ DraftSet(f) \/ DeleteBranch(f)
  PROVE  Went(f) /\ Own(f)
<1>0. /\ \A how \in Ends : End(f, how) => Went(f)
      /\ field[f].op \notin Queries => \A step \in Steps : To(f, step) => Went(f)
      /\ pc[f] \notin {"read", "page", "settings", "window"} => field[f].op \notin Queries
      /\ Keep(f) \/ (\E c : Put(f, c)) => Own(f)
  BY ToGoes, EndGoes DEF InTurn, Keep, Put, Own, Shapes
<1>1. CASE NamedRepository(f)
  BY <1>0, <1>1 DEF NamedRepository, Steps, Ends
<1>2. CASE Created(f)
  BY <1>0, <1>2 DEF Created, Steps, Ends
<1>3. CASE Allowed(f)
  BY <1>0, <1>3 DEF Allowed, Ends
<1>4. CASE Commented(f)
  BY <1>0, <1>4 DEF Commented, Steps, Ends
<1>5. CASE Update(f)
  BY <1>0, <1>5 DEF Update, Steps, Ends
<1>6. CASE Patch(f)
  BY <1>0, <1>6 DEF Patch, Ends
<1>7. CASE SetDraft(f)
  BY <1>0, <1>7 DEF SetDraft, Steps, Ends
<1>8. CASE DraftSet(f)
  BY <1>0, <1>8 DEF DraftSet, Ends
<1>9. CASE DeleteBranch(f)
  BY <1>0, <1>9 DEF DeleteBranch, Steps, Ends
<1>10. QED
  BY <1>1, <1>2, <1>3, <1>4, <1>5, <1>6, <1>7, <1>8, <1>9

LEMMA QueriesGo ==
  ASSUME Shapes, NEW f \in Fields, InTurn(f), pc[f] # "ready",
         Read(f) \/ Page(f) \/ Window(f) \/ Settings(f)
  PROVE  Went(f) /\ Own(f)
<1>0. /\ \A how \in Ends : End(f, how) => Went(f)
      /\ To(f, "page") \/ To(f, "window") => Went(f)
      /\ Keep(f) => Own(f)
  BY ToGoes, EndGoes DEF Steps, Keep, Own, Shapes
<1>1. CASE Read(f)
  BY <1>0, <1>1 DEF Read, Ends
<1>2. CASE Page(f)
  BY <1>0, <1>2 DEF Page, Ends, Own, Shapes
<1>3. CASE Window(f)
  BY <1>0, <1>3 DEF Window, Ends, Own, Shapes
<1>4. CASE Settings(f)
  BY <1>0, <1>4 DEF Settings, Windowed, Ends, Own, Shapes
<1>5. QED
  BY <1>1, <1>2, <1>3, <1>4

LEMMA ContinueGoes ==
  ASSUME Shapes, NEW f \in Fields, InTurn(f), Continue(f)
  PROVE  Went(f) /\ Own(f) /\ Thinks(f)
<1>1. pc[f] # "ready" /\ answer[f] = None
  BY DEF Continue, Turn
<1>2. Went(f) /\ Own(f)
  BY <1>1, MutationsGo, QueriesGo DEF Continue
<1>3. /\ UNCHANGED <<rq, memo, forge, field, seen>>
      /\ io'[f] = "idle" /\ \A g \in Fields \ {f} : io'[g] = io[g]
      /\ reply' = [reply EXCEPT ![f] = NoReply]
  BY DEF Continue, Moves, Shapes
<1>4. QED
  BY <1>1, <1>2, <1>3 DEF Thinks, Went, Own

LEMMA BeginGoes ==
  ASSUME Shapes, NEW f \in Fields, InTurn(f), Begin(f)
  PROVE  Went(f) /\ Own(f) /\ Thinks(f)
<1>1. /\ pc[f] = "ready" /\ answer[f] = None /\ \A g \in field[f].after : answer[g] # None
      /\ UNCHANGED <<rq, memo, forge, field, seen, io, reply>> /\ io[f] = "idle"
  BY DEF Begin, Moves, InTurn
<1>2. Own(f)
  BY DEF Begin, Windowed, Own, Shapes
<1>3. field[f].op \in Ops
  BY DEF Shapes, Jobs
<1>4. /\ FirstStep(field[f]) \in Steps
      /\ field[f].op \in Queries => FirstStep(field[f]) \in {"read", "page", "settings", "window"}
  BY <1>3 DEF Ops, FirstStep, Steps, Queries
<1>5. \/ To(f, FirstStep(field[f]))
      \/ To(f, "window")
  BY DEF Begin
<1>6. Went(f)
  BY <1>4, <1>5, ToGoes DEF Steps
<1>7. QED
  BY <1>1, <1>2, <1>6 DEF Thinks, Went, Own

-----------------------------------------------------------------------------
(* As whom a request acts.                                                 *)

Who == <<clock, user_of, past, sessions>>

(* Of a request's own record only what its reads draw on may change.       *)
Elsewhere ==
    /\ UNCHANGED Who
    /\ \A r \in Requests : /\ rq'[r].token = rq[r].token /\ rq'[r].phase = rq[r].phase
                          /\ rq'[r].viewer = rq[r].viewer /\ rq'[r].opened = rq[r].opened
                          /\ rq'[r].deadline = rq[r].deadline

LEMMA ElsewhereStep ==
  ASSUME Identities, IdentityFresh, Elsewhere
  PROVE  Identities' /\ IdentityFresh'
<1>1. IdentityFresh'
  BY DEF IdentityFresh, Elsewhere, Who
<1>2. Identities'
  BY DEF Identities, Known, Elsewhere, Who
<1>3. QED
  BY <1>1, <1>2

LEMMA TimesWhole ==
  /\ Deadline \in Nat \ {0} /\ TTL \in Nat \ {0} /\ Capacity \in Nat \ {0}
BY SessionAssumption

(* What a request makes of the forge's word: no user, or its own.          *)
Refuses(r) ==
    /\ rq[r].viewer = None /\ sessions' = sessions
    /\ rq' = [rq EXCEPT ![r].phase = "refused"]
    /\ rq'[r].phase = "refused" /\ rq'[r].token = rq[r].token
    /\ rq'[r].epoch = rq[r].epoch /\ rq'[r].wrote = rq[r].wrote
    /\ rq'[r].left = rq[r].left /\ rq'[r].drawn = rq[r].drawn
Opens(r) ==
    /\ rq[r].viewer \in Users /\ sessions' = Inserted(rq[r].token, rq[r].viewer)
    /\ rq'[r].phase = "open" /\ rq'[r].viewer = rq[r].viewer /\ rq'[r].opened = clock
    /\ rq'[r].token = rq[r].token /\ rq'[r].epoch = rq[r].epoch /\ rq'[r].wrote = rq[r].wrote
    /\ rq'[r].left = rq[r].left - 1 /\ rq'[r].drawn = rq[r].drawn + 1
    /\ rq'[r].deadline = clock + Deadline

LEMMA IdentifiedSo ==
  ASSUME Shapes, NEW r \in Requests, Identified(r)
  PROVE  /\ rq[r].phase = "told" /\ clock < rq[r].deadline
         /\ \A q \in Requests \ {r} : rq'[q] = rq[q]
         /\ Refuses(r) \/ Opens(r)
<1> DEFINE user == rq[r].viewer
           opened == Open(r, user)
           next == [opened EXCEPT !.left = @ - 1, !.drawn = @ + 1]
           Kinds == [token: Tokens, phase: {"new", "asking", "told", "open", "refused"},
                     viewer: Users \union {None}, opened: Nat, deadline: Nat, left: Nat,
                     drawn: Nat, epoch: Nat, wrote: Nat]
<1>1. rq \in [Requests -> Kinds] /\ user \in Users \union {None} /\ rq[r] \in Kinds
  BY DEF Shapes
<1>2. rq[r].phase = "told" /\ clock < rq[r].deadline
  BY DEF Identified
<1>3. CASE user = None
  <2>1. rq' = [rq EXCEPT ![r].phase = "refused"] /\ sessions' = sessions
    BY <1>3 DEF Identified
  <2>2. \A q \in Requests \ {r} : rq'[q] = rq[q]
    BY <1>1, <2>1
  <2>3. rq'[r] = [rq[r] EXCEPT !.phase = "refused"]
    BY <1>1, <2>1
  <2>4. Refuses(r)
    BY <1>1, <1>3, <2>1, <2>3 DEF Refuses
  <2>5. QED
    BY <1>2, <2>2, <2>4
<1>4. CASE user # None
  <2>1. rq' = [rq EXCEPT ![r] = next] /\ sessions' = Inserted(rq[r].token, user)
    BY <1>4 DEF Identified
  <2>2. rq'[r] = next /\ \A q \in Requests \ {r} : rq'[q] = rq[q]
    BY <1>1, <2>1
  <2>3. opened = [rq[r] EXCEPT !.phase = "open", !.viewer = user, !.opened = clock,
                               !.deadline = clock + Deadline]
    BY DEF Open
  <2>4. /\ opened.phase = "open" /\ opened.viewer = user /\ opened.opened = clock
        /\ opened.deadline = clock + Deadline
        /\ opened.token = rq[r].token /\ opened.epoch = rq[r].epoch /\ opened.wrote = rq[r].wrote
        /\ opened.left = rq[r].left /\ opened.drawn = rq[r].drawn
        /\ DOMAIN opened = DOMAIN rq[r]
    BY <1>1, <2>3
  <2>5. {"token", "phase", "viewer", "opened", "deadline", "left", "drawn", "epoch", "wrote"} = DOMAIN rq[r]
    BY <1>1
  <2> HIDE DEF opened
  <2>6. /\ next.phase = "open" /\ next.viewer = user /\ next.opened = clock
        /\ next.deadline = clock + Deadline
        /\ next.token = rq[r].token /\ next.epoch = rq[r].epoch /\ next.wrote = rq[r].wrote
        /\ next.left = rq[r].left - 1 /\ next.drawn = rq[r].drawn + 1
    BY <2>4, <2>5
  <2> HIDE DEF next
  <2>7. Opens(r)
    BY <1>1, <1>4, <2>1, <2>2, <2>6 DEF Opens
  <2>8. QED
    BY <1>2, <2>2, <2>7
<1>5. QED
  BY <1>3, <1>4

(* The requests before they are open, and time, say nothing of reads.      *)
LEMMA BeforeApart ==
  ASSUME Shapes, Sound, NEW r \in Requests,
         Authenticate(r) \/ Identify(r) \/ Identified(r) \/ NotIdentified(r)
  PROVE  Apart
<1>0. /\ \A q \in Requests : rq[q].left \in Nat /\ rq[q].drawn \in Nat
      /\ rq[r].phase \in {"new", "asking", "told"} => rq[r].left = Budget
  BY DEF Shapes, Sound, Spent
<1>1. CASE Authenticate(r)
  BY <1>0, <1>1 DEF Authenticate, Hold, Apart, Open, Shapes
<1>2. CASE Identify(r)
  BY <1>0, <1>2 DEF Identify, Hold, Apart, Shapes
<1>3. CASE Identified(r)
  BY <1>0, <1>3, IdentifiedSo DEF Identified, Hold, Apart, Refuses, Opens
<1>4. CASE NotIdentified(r)
  BY <1>0, <1>4 DEF NotIdentified, Hold, Apart, Shapes
<1>5. QED
  BY <1>1, <1>2, <1>3, <1>4

(* An entry of the cache stays or goes; only its own token's is new.       *)
LEMMA InsertKeeps ==
  ASSUME Shapes, NEW t \in Tokens, NEW user \in Users
  PROVE  /\ Inserted(t, user)[t] = [user |-> user, at |-> clock]
         /\ \A g \in Tokens \ {t} : Inserted(t, user)[g] \in {sessions[g], NoSession}
         /\ Inserted(t, user) \in [Tokens -> [user: Users \union {None}, at: Nat]]
<1> DEFINE kept == [g \in Tokens |-> IF Cached(g) THEN sessions[g] ELSE NoSession]
           oldest == CHOOSE g \in Live(kept) : \A h \in Live(kept) : kept[g].at <= kept[h].at
           room == IF Cardinality(Live(kept)) >= Capacity /\ t \notin Live(kept)
                   THEN [kept EXCEPT ![oldest] = NoSession] ELSE kept
<1>1. \A g \in Tokens : kept[g] \in {sessions[g], NoSession}
  OBVIOUS
<1>2. NoSession \in [user: Users \union {None}, at: Nat]
  BY DEF NoSession
<1>3. kept \in [Tokens -> [user: Users \union {None}, at: Nat]]
  BY <1>2 DEF Shapes
<1> HIDE DEF kept, oldest
<1>4. room \in [Tokens -> [user: Users \union {None}, at: Nat]]
  BY <1>2, <1>3
<1>5. \A g \in Tokens : room[g] \in {sessions[g], NoSession}
  BY <1>1, <1>3
<1>6. Inserted(t, user) = [room EXCEPT ![t] = [user |-> user, at |-> clock]]
  BY DEF Inserted, kept, oldest
<1>7. [user |-> user, at |-> clock] \in [user: Users \union {None}, at: Nat]
  BY DEF Shapes
<1> HIDE DEF room
<1>8. QED
  BY <1>4, <1>5, <1>6, <1>7

LEMMA TimeApart ==
  ASSUME Tick \/ Rename
  PROVE  Apart
BY DEF Tick, Rename, Hold, Apart

(* An identity known in time opens its request.                            *)
LEMMA FreshStep ==
  ASSUME IdentityFresh, past \subseteq past',
         \A q \in Requests :
           \/ /\ rq'[q].token = rq[q].token /\ rq'[q].phase = rq[q].phase
              /\ rq'[q].viewer = rq[q].viewer /\ rq'[q].opened = rq[q].opened
           \/ rq'[q].phase # "open"
           \/ \E e \in past' : /\ e[1] = rq'[q].token /\ e[2] = rq'[q].viewer
                               /\ rq'[q].opened - e[3] <= TTL + Deadline - 2
  PROVE  IdentityFresh'
BY DEF IdentityFresh

LEMMA AuthenticateFresh ==
  ASSUME Shapes, Identities, IdentityFresh, NEW r \in Requests, Authenticate(r)
  PROVE  Identities' /\ IdentityFresh'
<1> DEFINE t == rq[r].token
<1>0. /\ t \in Tokens /\ clock \in Nat /\ UNCHANGED <<clock, user_of, past>>
      /\ \A q \in Requests \ {r} : rq'[q] = rq[q]
      /\ sessions' = [g \in Tokens |-> IF Cached(g) THEN sessions[g] ELSE NoSession]
      /\ \A g \in Tokens : sessions[g].at \in Nat
      /\ rq'[r].token = t
  BY DEF Shapes, Authenticate, Open
<1>1. ASSUME Cached(t)
      PROVE  \E e \in past : /\ e[1] = t /\ e[2] = sessions[t].user
                             /\ clock - e[3] <= TTL + Deadline - 2
  <2>1. sessions[t].user # None /\ clock - sessions[t].at < TTL
    BY <1>1 DEF Cached, Fresh
  <2>2. PICK e \in past : e[1] = t /\ e[2] = sessions[t].user /\ e[3] >= sessions[t].at - (Deadline - 1)
    BY <1>0, <2>1 DEF Identities, Known
  <2>3. e[3] \in Nat
    BY DEF Shapes
  <2>4. clock - e[3] <= TTL + Deadline - 2
    BY <1>0, <2>1, <2>2, <2>3, TimesWhole
  <2>5. QED
    BY <2>2, <2>4
<1>2. CASE Cached(t)
  <2>1. /\ rq'[r].phase = "open" /\ rq'[r].viewer = sessions[t].user /\ rq'[r].opened = clock
    BY <1>2 DEF Authenticate, Open, Shapes
  <2>2. IdentityFresh'
    BY <1>0, <1>1, <1>2, <2>1, FreshStep
  <2>3. Identities'
    BY <1>0, <2>1 DEF Identities, Known, NoSession
  <2>4. QED
    BY <2>2, <2>3
<1>3. CASE ~Cached(t)
  <2>1. rq'[r].phase = "asking" /\ rq'[r].deadline = clock + Deadline
    BY <1>3 DEF Authenticate, Shapes
  <2>2. IdentityFresh'
    BY <1>0, <2>1, FreshStep
  <2>3. Identities'
    BY <1>0, <2>1, TimesWhole DEF Identities, Known, NoSession
  <2>4. QED
    BY <2>2, <2>3
<1>4. QED
  BY <1>2, <1>3

LEMMA IdentifyFresh ==
  ASSUME Shapes, Identities, IdentityFresh, NEW r \in Requests, Identify(r)
  PROVE  Identities' /\ IdentityFresh'
<1> DEFINE t == rq[r].token
<1>0. /\ t \in Tokens /\ clock \in Nat /\ UNCHANGED Who
      /\ \A q \in Requests \ {r} : rq'[q] = rq[q]
      /\ rq'[r].token = t /\ rq'[r].phase = "told" /\ rq'[r].viewer = user_of[t]
      /\ rq'[r].deadline = rq[r].deadline /\ rq[r].deadline \in Nat
      /\ rq[r].phase = "asking"
  BY DEF Shapes, Identify, Who
<1>1. Known(t, user_of[t], rq[r].deadline - Deadline)
  <2>1. <<t, user_of[t], clock>> \in past /\ rq[r].deadline <= clock + Deadline
    BY <1>0 DEF Identities
  <2>2. clock >= rq[r].deadline - Deadline
    BY <1>0, <2>1, TimesWhole
  <2>3. QED
    BY <2>1, <2>2 DEF Known
<1>2. IdentityFresh'
  BY <1>0, FreshStep DEF Who
<1>3. Identities'
  BY <1>0, <1>1 DEF Identities, Known, Who
<1>4. QED
  BY <1>2, <1>3

LEMMA IdentifiedFresh ==
  ASSUME Shapes, Identities, IdentityFresh, NEW r \in Requests, Identified(r)
  PROVE  Identities' /\ IdentityFresh'
<1> DEFINE t == rq[r].token
           user == rq[r].viewer
<1>1. /\ t \in Tokens /\ clock \in Nat /\ UNCHANGED <<clock, user_of, past>>
      /\ rq[r].deadline \in Nat
  BY DEF Shapes, Identified
<1>2. /\ rq[r].phase = "told" /\ clock < rq[r].deadline
      /\ \A q \in Requests \ {r} : rq'[q] = rq[q]
      /\ Refuses(r) \/ Opens(r)
  BY IdentifiedSo
<1>3. CASE Refuses(r)
  <2>1. rq'[r].phase = "refused" /\ sessions' = sessions
    BY <1>3 DEF Refuses
  <2>2. IdentityFresh'
    BY <1>1, <1>2, <2>1, FreshStep
  <2>3. Identities'
    BY <1>1, <1>2, <2>1 DEF Identities, Known
  <2>4. QED
    BY <2>2, <2>3
<1>4. CASE Opens(r)
  <2>1. /\ rq'[r].phase = "open" /\ rq'[r].viewer = user /\ rq'[r].opened = clock
        /\ sessions' = Inserted(t, user) /\ user \in Users /\ user # None /\ rq'[r].token = t
    BY <1>4, SessionAssumption DEF Opens
  <2>2. PICK e \in past : e[1] = t /\ e[2] = user /\ e[3] >= rq[r].deadline - Deadline
    BY <1>1, <1>2, <2>1 DEF Identities, Known
  <2>3. e[3] \in Nat
    BY DEF Shapes
  <2>4. e[3] >= clock - (Deadline - 1) /\ clock - e[3] <= TTL + Deadline - 2
    BY <1>1, <1>2, <2>2, <2>3, TimesWhole
  <2>5. IdentityFresh'
    BY <1>1, <1>2, <2>1, <2>2, <2>4, FreshStep
  <2> HIDE DEF t, user
  <2>6. /\ sessions'[t] = [user |-> user, at |-> clock]
        /\ \A g \in Tokens \ {t} : sessions'[g] \in {sessions[g], NoSession}
    BY <1>1, <2>1, InsertKeeps
  <2>7. sessions'[t].at = clock /\ sessions'[t].user = user
    BY <2>6
  <2>8. ASSUME NEW g \in Tokens
        PROVE  /\ <<g, user_of[g], clock>> \in past
               /\ sessions'[g].user # None =>
                    /\ sessions'[g].at <= clock
                    /\ \E x \in past : x[1] = g /\ x[2] = sessions'[g].user
                                       /\ x[3] >= sessions'[g].at - (Deadline - 1)
    <3>1. <<g, user_of[g], clock>> \in past
      BY DEF Identities
    <3>2. CASE g = t
      BY <1>1, <2>2, <2>4, <2>7, <3>1, <3>2
    <3>3. CASE g # t
      BY <2>6, <3>1, <3>3 DEF Identities, Known, NoSession
    <3>4. QED
      BY <3>2, <3>3
  <2>9. Identities'
    BY <1>1, <1>2, <2>1, <2>8 DEF Identities, Known
  <2>10. QED
    BY <2>5, <2>9
<1>5. QED
  BY <1>3, <1>4, <1>2

LEMMA NotIdentifiedFresh ==
  ASSUME Shapes, Identities, IdentityFresh, NEW r \in Requests, NotIdentified(r)
  PROVE  Identities' /\ IdentityFresh'
<1>0. /\ UNCHANGED Who /\ \A q \in Requests \ {r} : rq'[q] = rq[q]
      /\ rq'[r].phase = "refused"
  BY DEF Shapes, NotIdentified, Who
<1>1. IdentityFresh'
  BY <1>0, FreshStep DEF Who
<1>2. Identities'
  BY <1>0 DEF Identities, Known, Who
<1>3. QED
  BY <1>1, <1>2

LEMMA TimeFresh ==
  ASSUME Shapes, Identities, IdentityFresh, Tick \/ Rename
  PROVE  Identities' /\ IdentityFresh'
<1>0. /\ UNCHANGED <<sessions, rq>> /\ past \subseteq past' /\ clock \in Nat /\ clock' \in Nat
      /\ clock <= clock'
      /\ \A t \in Tokens : <<t, user_of'[t], clock'>> \in past'
  <2>1. CASE Tick
    BY <2>1 DEF Tick, Shapes
  <2>2. CASE Rename
    <3>1. PICK t \in Tokens, u \in Users \union {None} :
            user_of' = [user_of EXCEPT ![t] = u] /\ past' = past \union {<<t, u, clock>>}
      BY <2>2 DEF Rename
    <3>2. \A g \in Tokens : <<g, user_of[g], clock>> \in past
      BY DEF Identities
    <3>3. UNCHANGED <<sessions, rq, clock>> /\ clock \in Nat
      BY <2>2 DEF Rename, Shapes
    <3>4. \A g \in Tokens : user_of'[g] = IF g = t THEN u ELSE user_of[g]
      BY <3>1 DEF Shapes
    <3>5. QED
      BY <3>1, <3>2, <3>3, <3>4
  <2>3. QED
    BY <2>1, <2>2
<1>1. IdentityFresh'
  BY <1>0, FreshStep
<1>2. ASSUME NEW t \in Tokens, sessions[t].user # None
      PROVE  sessions[t].at <= clock' /\ Known(t, sessions[t].user, sessions[t].at - (Deadline - 1))'
  <2>1. sessions[t].at \in Nat /\ sessions[t].at <= clock
        /\ Known(t, sessions[t].user, sessions[t].at - (Deadline - 1))
    BY <1>2 DEF Shapes, Identities
  <2>2. QED
    BY <1>0, <2>1 DEF Known
<1>3. ASSUME NEW q \in Requests
      PROVE  /\ rq[q].phase = "asking" => rq[q].deadline <= clock' + Deadline
             /\ rq[q].phase = "told" /\ rq[q].viewer # None =>
                  Known(rq[q].token, rq[q].viewer, rq[q].deadline - Deadline)'
  <2>1. /\ rq[q].phase = "asking" => rq[q].deadline <= clock + Deadline
        /\ rq[q].phase = "told" /\ rq[q].viewer # None =>
             Known(rq[q].token, rq[q].viewer, rq[q].deadline - Deadline)
        /\ rq[q].deadline \in Nat
    BY DEF Identities, Shapes
  <2>2. QED
    BY <1>0, <2>1, TimesWhole DEF Known
<1>4. Identities'
  BY <1>0, <1>2, <1>3 DEF Identities
<1>5. QED
  BY <1>1, <1>4

-----------------------------------------------------------------------------
(* The shapes of the variables.                                            *)

LEMMA WhoShapes ==
  ASSUME Shapes, Sound, NEW r \in Requests,
         Authenticate(r) \/ Identify(r) \/ Identified(r) \/ NotIdentified(r)
  PROVE  Shapes'
<1> DEFINE Kinds == [token: Tokens, phase: {"new", "asking", "told", "open", "refused"},
                     viewer: Users \union {None}, opened: Nat, deadline: Nat, left: Nat,
                     drawn: Nat, epoch: Nat, wrote: Nat]
           Entries == [user: Users \union {None}, at: Nat]
<1>0. /\ UNCHANGED <<clock, user_of, past, memo, forge, field, pc, io, reply, local, answer, seen>>
      /\ rq \in [Requests -> Kinds] /\ sessions \in [Tokens -> Entries] /\ clock \in Nat
      /\ user_of \in [Tokens -> Users \union {None}] /\ rq[r].token \in Tokens
      /\ clock + Deadline \in Nat
  BY TimesWhole DEF Authenticate, Identify, Identified, NotIdentified, Hold, Shapes
<1>1. NoSession \in Entries
  BY DEF NoSession
<1>2. rq' \in [Requests -> Kinds] /\ sessions' \in [Tokens -> Entries]
  <2>1. CASE Authenticate(r)
    <3>1. sessions' \in [Tokens -> Entries]
      BY <1>0, <1>1, <2>1 DEF Authenticate
    <3>2. Open(r, sessions[rq[r].token].user) \in Kinds
      BY <1>0 DEF Open
    <3>3. [rq[r] EXCEPT !.phase = "asking", !.deadline = clock + Deadline] \in Kinds
      BY <1>0
    <3>4. rq' \in [Requests -> Kinds]
      BY <1>0, <2>1, <3>2, <3>3 DEF Authenticate
    <3>5. QED
      BY <3>1, <3>4
  <2>2. CASE Identify(r)
    <3>1. [rq[r] EXCEPT !.phase = "told", !.viewer = user_of[rq[r].token]] \in Kinds
      BY <1>0
    <3>2. rq' = [rq EXCEPT ![r] = [rq[r] EXCEPT !.phase = "told", !.viewer = user_of[rq[r].token]]]
      BY <1>0, <2>2 DEF Identify
    <3>3. QED
      BY <1>0, <2>2, <3>1, <3>2 DEF Identify
  <2>3. CASE Identified(r)
    <3>1. CASE rq[r].viewer = None
      BY <1>0, <2>3, <3>1 DEF Identified
    <3>2. CASE rq[r].viewer # None
      <4>1. rq[r].viewer \in Users /\ rq[r].left - 1 \in Nat /\ rq[r].drawn + 1 \in Nat
        BY <1>0, <2>3, <3>2, BudgetWhole DEF Identified, Sound, Spent
      <4>2. sessions' \in [Tokens -> Entries]
        <5>1. sessions' = Inserted(rq[r].token, rq[r].viewer)
          BY <2>3, <3>2 DEF Identified
        <5>2. QED
          BY <1>0, <4>1, <5>1, InsertKeeps
      <4>3. Open(r, rq[r].viewer) \in Kinds /\ Open(r, rq[r].viewer).left = rq[r].left
            /\ Open(r, rq[r].viewer).drawn = rq[r].drawn
        BY <1>0 DEF Open
      <4>4. [Open(r, rq[r].viewer) EXCEPT !.left = @ - 1, !.drawn = @ + 1] \in Kinds
        BY <4>1, <4>3
      <4>5. rq' \in [Requests -> Kinds]
        BY <1>0, <2>3, <3>2, <4>4 DEF Identified
      <4>6. QED
        BY <4>2, <4>5
    <3>3. QED
      BY <3>1, <3>2
  <2>4. CASE NotIdentified(r)
    BY <1>0, <2>4 DEF NotIdentified
  <2>5. QED
    BY <2>1, <2>2, <2>3, <2>4
<1>3. QED
  BY <1>0, <1>2 DEF Shapes

LEMMA TimeShapes ==
  ASSUME Shapes, Tick \/ Rename
  PROVE  Shapes'
<1>1. CASE Tick
  <2>1. past' \subseteq Tokens \X (Users \union {None}) \X Nat
    BY <1>1 DEF Tick, Shapes
  <2>2. QED
    BY <1>1, <2>1 DEF Tick, Hold, Shapes
<1>2. CASE Rename
  <2>1. PICK t \in Tokens, u \in Users \union {None} :
          user_of' = [user_of EXCEPT ![t] = u] /\ past' = past \union {<<t, u, clock>>}
    BY <1>2 DEF Rename
  <2>2. past' \subseteq Tokens \X (Users \union {None}) \X Nat
        /\ user_of' \in [Tokens -> Users \union {None}]
    BY <2>1 DEF Shapes
  <2>3. QED
    BY <1>2, <2>2 DEF Rename, Shapes
<1>3. QED
  BY <1>1, <1>2

LEMMA ThinksShapes ==
  ASSUME Shapes, NEW f \in Fields, InTurn(f), Begin(f) \/ Continue(f)
  PROVE  Shapes'
<1>1. Went(f) /\ Own(f) /\ Thinks(f)
  BY BeginGoes, ContinueGoes
<1>2. UNCHANGED <<clock, user_of, past, sessions, rq, memo, forge, field, seen>>
  BY DEF Begin, Continue, Moves
<1>3. io' \in [Fields -> {"idle", "sent", "back", "done"}] /\ DOMAIN reply' = Fields
  BY DEF Begin, Continue, Shapes
<1>4. QED
  BY <1>1, <1>2, <1>3 DEF Went, Own, Shapes

LEMMA SettleShapes ==
  ASSUME Shapes, NEW f \in Fields, NEW call, NEW rep, NEW charge \in Nat, Settle(f, call, rep, charge),
         rep.ver \in Nat, charge <= rq[Of(f)].left
  PROVE  /\ rq' \in [Requests -> [token: Tokens, phase: {"new", "asking", "told", "open", "refused"},
                             viewer: Users \union {None}, opened: Nat, deadline: Nat, left: Nat,
                             drawn: Nat, epoch: Nat, wrote: Nat]]
         /\ DOMAIN memo' = Requests /\ io' \in [Fields -> {"idle", "sent", "back", "done"}]
         /\ DOMAIN reply' = Fields /\ DOMAIN seen' = Fields
<1> DEFINE r == Of(f)
           wrote == call.how = "write" /\ rep.write
           epoch == IF wrote THEN rq[r].epoch + 1 ELSE rq[r].epoch
           last == IF wrote THEN rep.ver ELSE rq[r].wrote
<1>0. r \in Requests /\ rq[r].left \in Nat /\ rq[r].drawn \in Nat /\ rq[r].epoch \in Nat /\ rq[r].wrote \in Nat
  BY Owners DEF Shapes
<1>1. rq[r].left - charge \in Nat /\ rq[r].drawn + charge \in Nat /\ epoch \in Nat /\ last \in Nat
  BY <1>0
<1>2. rq' = [rq EXCEPT ![r].left = rq[r].left - charge, ![r].drawn = rq[r].drawn + charge,
                       ![r].epoch = epoch, ![r].wrote = last]
  BY <1>0 DEF Settle, Shapes
<1> HIDE DEF r, epoch, last
<1>3. rq' \in [Requests -> [token: Tokens, phase: {"new", "asking", "told", "open", "refused"},
                             viewer: Users \union {None}, opened: Nat, deadline: Nat, left: Nat,
                             drawn: Nat, epoch: Nat, wrote: Nat]]
  <2> DEFINE Kinds == [token: Tokens, phase: {"new", "asking", "told", "open", "refused"},
                       viewer: Users \union {None}, opened: Nat, deadline: Nat, left: Nat,
                       drawn: Nat, epoch: Nat, wrote: Nat]
             next == [rq[r] EXCEPT !.left = rq[r].left - charge, !.drawn = rq[r].drawn + charge,
                                   !.epoch = epoch, !.wrote = last]
  <2>1. rq \in [Requests -> Kinds] /\ rq[r] \in Kinds
    BY <1>0 DEF Shapes
  <2>2. next \in Kinds
    BY <1>1, <2>1
  <2>3. rq' = [rq EXCEPT ![r] = next]
    BY <1>0, <1>2, <2>1
  <2> HIDE DEF Kinds, next
  <2>4. rq' \in [Requests -> Kinds]
    BY <1>0, <2>1, <2>2, <2>3
  <2>5. QED
    BY <2>4 DEF Kinds
<1>4. DOMAIN memo' = Requests /\ DOMAIN seen' = Fields
  BY DEF Settle, Note, Shapes
<1>5. io' \in [Fields -> {"idle", "sent", "back", "done"}] /\ DOMAIN reply' = Fields
  BY DEF Settle, Shapes
<1>6. QED
  BY <1>3, <1>4, <1>5

LEMMA CallShapes ==
  ASSUME Shapes, Sound, NEW f \in Fields, NEW call, Ask(f, call) \/ Receive(f, call) \/ Break(f, call)
  PROVE  Shapes'
<1> DEFINE r == Of(f)
<1>0. /\ UNCHANGED <<clock, user_of, past, sessions, forge, field, pc, answer>>
      /\ r \in Requests /\ forge.ver \in Nat /\ reply[f].ver \in Nat
  BY Owners DEF Ask, Receive, Break, Rest, Shapes, Sound, Replied
<1>1. CASE Ask(f, call)
  <2>1. UNCHANGED <<rq, local>> /\ DOMAIN memo' = Requests /\ DOMAIN reply' = Fields /\ DOMAIN seen' = Fields
    BY <1>1 DEF Ask, Rest, Note, Shapes
  <2>2. io' \in [Fields -> {"idle", "sent", "back", "done"}]
    BY <1>1 DEF Ask, Shapes
  <2>3. QED
    BY <1>0, <2>1, <2>2 DEF Shapes
<1>2. rq[r].left \in Nat /\ rq[r].drawn \in Nat /\ 0 \in Nat /\ 0 <= rq[r].left
  BY <1>0 DEF Shapes
<1>3. CASE Receive(f, call)
  <2>1. DOMAIN local' = Fields
    BY <1>3 DEF Receive, Shapes
  <2>2. ASSUME NEW rep, Refused(f, call, rep) PROVE Shapes'
    <3>1. rep.ver \in Nat /\ Settle(f, call, rep, 0)
      BY <1>0, <2>2 DEF Refused
    <3>2. QED
      BY <1>0, <1>2, <2>1, <3>1, SettleShapes DEF Shapes
  <2>3. ASSUME NEW n \in Nat, n <= rq[r].left, Settle(f, call, reply[f], n) PROVE Shapes'
    BY <1>0, <2>1, <2>3, SettleShapes DEF Shapes
  <2>4. ASSUME NEW n \in Nat, Charged(f, n), Again(f, call) \/ More(f, n) PROVE Shapes'
    <3>1. rq[r].left - n \in Nat /\ rq[r].drawn + n \in Nat
      BY <1>2, <2>4 DEF Charged
    <3>2. rq' \in [Requests -> [token: Tokens, phase: {"new", "asking", "told", "open", "refused"},
                             viewer: Users \union {None}, opened: Nat, deadline: Nat, left: Nat,
                             drawn: Nat, epoch: Nat, wrote: Nat]]
      <4> DEFINE Kinds == [token: Tokens, phase: {"new", "asking", "told", "open", "refused"},
                           viewer: Users \union {None}, opened: Nat, deadline: Nat, left: Nat,
                           drawn: Nat, epoch: Nat, wrote: Nat]
                 next == [rq[r] EXCEPT !.left = rq[r].left - n, !.drawn = rq[r].drawn + n]
      <4>1. rq \in [Requests -> Kinds] /\ rq[r] \in Kinds
        BY <1>0 DEF Shapes
      <4>2. next \in Kinds
        BY <3>1, <4>1
      <4>3. rq' = [rq EXCEPT ![r] = next]
        BY <1>0, <2>4, <4>1 DEF Charged
      <4> HIDE DEF Kinds, next
      <4>4. rq' \in [Requests -> Kinds]
        BY <1>0, <4>1, <4>2, <4>3
      <4>5. QED
        BY <4>4 DEF Kinds
    <3>3. io' \in [Fields -> {"idle", "sent", "back", "done"}] /\ DOMAIN reply' = Fields
      BY <2>4 DEF Again, More, Shapes
    <3>4. QED
      BY <1>0, <2>1, <2>4, <3>2, <3>3 DEF Charged, Shapes
  <2>5. Replied(f)
    BY DEF Sound
  <2>6. QED
    BY <1>3, <2>2, <2>3, <2>4, <2>5, ReceiveCases
<1>4. CASE Break(f, call)
  <2>1. Settle(f, call, Failure("lost"), 0) /\ local' = local
    BY <1>4 DEF Break, Rest
  <2>2. Failure("lost").ver \in Nat
    BY <1>0 DEF Failure, NoReply
  <2>3. QED
    BY <1>0, <1>2, <2>1, <2>2, SettleShapes DEF Shapes
<1>5. QED
  BY <1>1, <1>3, <1>4

LEMMA ForgeShapes ==
  ASSUME Shapes, Meddle \/ \E f \in Fields : pc[f] # "ready" /\ Serve(f)
  PROVE  Shapes'
<1>1. /\ UNCHANGED <<clock, user_of, past, sessions, rq, memo, field, pc, local, answer, seen>>
  BY DEF Meddle, Serve, Handle, Rest
<1>2. forge'.ver \in Nat /\ "ver" \in DOMAIN forge'
  BY MeddleStep, ServeEffect DEF Grows
<1>3. io' \in [Fields -> {"idle", "sent", "back", "done"}] /\ DOMAIN reply' = Fields
  BY DEF Meddle, Serve, Handle, Shapes
<1>4. QED
  BY <1>1, <1>2, <1>3 DEF Shapes

LEMMA DropShapes ==
  ASSUME Shapes, NEW f \in Fields, Drop(f)
  PROVE  Shapes'
<1>1. /\ UNCHANGED <<clock, user_of, past, sessions, rq, forge, field, pc, io, reply, local, seen>>
  BY DEF Drop
<1>2. DOMAIN memo' = Requests /\ answer' \in [Fields -> Ends \union {None}]
  BY DEF Drop, Shapes, Ends
<1>3. QED
  BY <1>1, <1>2 DEF Shapes

-----------------------------------------------------------------------------
(* The specification.                                                      *)

LEMMA InitHolds ==
  ASSUME Init
  PROVE  IInv
<1>1. Shapes
  <2>1. /\ clock = 0 /\ user_of \in [Tokens -> Users \union {None}]
        /\ past \subseteq Tokens \X (Users \union {None}) \X Nat
        /\ sessions \in [Tokens -> [user: Users \union {None}, at: Nat]]
    BY DEF Init, InitSession, NoSession
  <2>2. rq \in [Requests -> [token: Tokens, phase: {"new", "asking", "told", "open", "refused"},
                             viewer: Users \union {None}, opened: Nat, deadline: Nat, left: Nat,
                             drawn: Nat, epoch: Nat, wrote: Nat]]
    BY BudgetWhole DEF Init, InitSession
  <2>3. field \in [Fields -> Jobs] /\ forge.ver \in Nat /\ "ver" \in DOMAIN forge
    BY DEF Init, Repositories
  <2>4. QED
    BY <2>1, <2>2, <2>3 DEF Init, InitSession, Shapes
<1>2. Document
  BY DEF Init
<1>3. /\ \A r \in Requests : rq[r].phase = "new" /\ rq[r].left = Budget /\ rq[r].drawn = 0 /\ rq[r].wrote = 0
      /\ memo = [r \in Requests |-> NoMemo] /\ DOMAIN NoMemo = {}
      /\ \A f \in Fields : /\ pc[f] = "ready" /\ io[f] = "idle" /\ seen[f] = {} /\ reply[f] = NoReply
      /\ forge.ver \in Nat
  BY <1>1 DEF Init, InitSession, NoMemo, Shapes
<1>4. Identities /\ IdentityFresh
  BY <1>3 DEF Init, InitSession, NoSession, Identities, IdentityFresh
<1>5. AsOne
  BY <1>3 DEF AsOne
<1>6. ASSUME NEW f \in Fields PROVE InTurn(f) /\ Holds(f) /\ Told(f) /\ Replied(f)
  <2>1. InTurn(f) /\ Holds(f) /\ Told(f)
    BY <1>3 DEF InTurn, Holds, Told, Fetching, Active
  <2>2. /\ NoReply.ver = 0 /\ NoReply.write \in BOOLEAN /\ rq[Of(f)].left = Budget
        /\ Weighed(NoReply, Budget)
    BY <1>1, <1>3, Owners, BudgetWhole, Nothing
  <2>3. reply[f].ver <= forge.ver /\ reply[f].ver \in Nat
    BY <1>3, <2>2
  <2>4. Replied(f)
    BY <1>3, <2>2, <2>3, Zenon DEF Replied, Active
  <2>5. QED
    BY <2>1, <2>4
<1>7. ASSUME NEW r \in Requests PROVE Filled(r) /\ Spent(r)
  BY <1>3, BudgetWhole DEF Filled, Spent
<1>8. QED
  BY <1>1, <1>2, <1>4, <1>5, <1>6, <1>7 DEF IInv

LEMMA StepKeeps ==
  ASSUME IInv, [Next]_vars
  PROVE  IInv'
<1>0. Shapes /\ Document /\ Sound /\ Identities /\ IdentityFresh
  BY DEF IInv, Sound
<1>1. ASSUME Shapes', Sound', Identities', IdentityFresh', field' = field
      PROVE  IInv'
  <2>1. Document'
    BY <1>0, <1>1 DEF Document, Of
  <2>2. QED
    BY <1>1, <2>1 DEF IInv, Sound
<1>2. ASSUME NEW r \in Requests, Authenticate(r) \/ Identify(r) \/ Identified(r) \/ NotIdentified(r)
      PROVE  IInv'
  <2>1. Shapes'
    BY <1>0, <1>2, WhoShapes
  <2>2. Sound'
    BY <1>0, <1>2, BeforeApart, ApartStep
  <2>3. Identities' /\ IdentityFresh'
    BY <1>0, <1>2, AuthenticateFresh, IdentifyFresh, IdentifiedFresh, NotIdentifiedFresh
  <2>4. field' = field
    BY <1>2 DEF Authenticate, Identify, Identified, NotIdentified, Hold
  <2>5. QED
    BY <1>1, <2>1, <2>2, <2>3, <2>4
<1>3. CASE Tick \/ Rename
  <2>1. Shapes' /\ Identities' /\ IdentityFresh'
    BY <1>0, <1>3, TimeShapes, TimeFresh
  <2>2. Sound'
    BY <1>0, <1>3, TimeApart, ApartStep
  <2>3. field' = field
    BY <1>3 DEF Tick, Rename, Hold
  <2>4. QED
    BY <1>1, <2>1, <2>2, <2>3
<1>4. ASSUME NEW f \in Fields, Begin(f) \/ Continue(f) PROVE IInv'
  <2>1. InTurn(f)
    BY <1>0 DEF Sound
  <2>2. Thinks(f)
    BY <1>0, <1>4, <2>1, BeginGoes, ContinueGoes
  <2>3. Shapes' /\ Sound'
    BY <1>0, <1>4, <2>1, <2>2, ThinksShapes, ThinksStep
  <2>4. UNCHANGED <<clock, user_of, past, sessions, rq, field>>
    BY <1>4 DEF Begin, Continue, Moves
  <2>5. Identities' /\ IdentityFresh'
    BY <1>0, <2>4, ElsewhereStep DEF Elsewhere, Who
  <2>6. QED
    BY <1>1, <2>3, <2>4, <2>5
<1>5. ASSUME NEW f \in Fields, pc[f] # "ready",
             Ask(f, Call(f)) \/ Receive(f, Call(f)) \/ Break(f, Call(f))
      PROVE  IInv'
  <2>1. Sound'
    BY <1>0, <1>5, AskStep, ReceiveStep, BreakStep
  <2>2. Shapes'
    BY <1>0, <1>5, CallShapes
  <2>3. Elsewhere /\ field' = field
    <3>1. UNCHANGED <<Who, field>>
      BY <1>5 DEF Ask, Receive, Break, Rest, Who
    <3>2. \A r \in Requests : /\ rq'[r].token = rq[r].token /\ rq'[r].phase = rq[r].phase
                              /\ rq'[r].viewer = rq[r].viewer /\ rq'[r].opened = rq[r].opened
                              /\ rq'[r].deadline = rq[r].deadline
      <4>1. CASE Ask(f, Call(f)) \/ Break(f, Call(f))
        BY <1>0, <4>1 DEF Ask, Break, Rest, Settle, Shapes
      <4>2. CASE Receive(f, Call(f))
        <5>1. \/ \E rep, n : Settle(f, Call(f), rep, n)
              \/ \E n : Charged(f, n)
          BY <1>0, <4>2, ReceiveCases DEF Sound, Refused
        <5>2. CASE \E rep, n : Settle(f, Call(f), rep, n)
          BY <1>0, <5>2 DEF Settle, Shapes
        <5>3. CASE \E n : Charged(f, n)
          BY <1>0, <5>3 DEF Charged, Shapes
        <5>4. QED
          BY <5>1, <5>2, <5>3
      <4>3. QED
        BY <1>5, <4>1, <4>2
    <3>3. QED
      BY <3>1, <3>2 DEF Elsewhere
  <2>4. QED
    BY <1>0, <1>1, <2>1, <2>2, <2>3, ElsewhereStep
<1>6. ASSUME NEW f \in Fields, pc[f] # "ready", Serve(f) PROVE IInv'
  <2>1. Sound' /\ Shapes'
    BY <1>0, <1>6, ServeStep, ForgeShapes
  <2>2. Elsewhere /\ field' = field
    BY <1>6 DEF Serve, Handle, Rest, Elsewhere, Who
  <2>3. QED
    BY <1>0, <1>1, <2>1, <2>2, ElsewhereStep
<1>7. ASSUME NEW f \in Fields, Drop(f) PROVE IInv'
  <2>1. Sound' /\ Shapes'
    BY <1>0, <1>7, DropStep, DropShapes
  <2>2. Elsewhere /\ field' = field
    BY <1>7 DEF Drop, Elsewhere, Who
  <2>3. QED
    BY <1>0, <1>1, <2>1, <2>2, ElsewhereStep
<1>8. CASE Meddle
  <2>1. Sound' /\ Shapes'
    BY <1>0, <1>8, MeddleStep, GrowsStep, ForgeShapes
  <2>2. Elsewhere /\ field' = field
    BY <1>8 DEF Meddle, Elsewhere, Who
  <2>3. QED
    BY <1>0, <1>1, <2>1, <2>2, ElsewhereStep
<1>9. CASE UNCHANGED vars
  <2>1. UNCHANGED <<clock, user_of, past, sessions, rq, memo, forge, field, pc, io, reply, local,
                    answer, seen>>
    BY <1>9 DEF vars
  <2>2. Apart /\ Elsewhere
    BY <2>1 DEF Apart, Elsewhere, Who
  <2>3. Shapes'
    BY <1>0, <2>1 DEF Shapes
  <2>4. QED
    BY <1>0, <1>1, <2>1, <2>2, <2>3, ApartStep, ElsewhereStep
<1>10. QED
  BY <1>2, <1>3, <1>4, <1>5, <1>6, <1>7, <1>8, <1>9 DEF Next, FieldStep

THEOREM SessionKept == Spec => []IInv
<1>1. Init => IInv
  BY InitHolds
<1>2. IInv /\ [Next]_vars => IInv'
  BY StepKeeps
<1>3. QED
  BY <1>1, <1>2, PTL DEF Spec

(* Resolvers side by side are told the same, none what was so before the   *)
(* request's own write, and the budget holds: whatever the document, the   *)
(* page size, the budget and the order of replies.                         *)
THEOREM ReadsTrue == Spec => []ReadsSound
<1>1. IInv => ReadsSound
  BY SoundReads DEF IInv, Sound
<1>2. QED
  BY <1>1, SessionKept, PTL

(* A request acts as the user its token named at most TTL and one call     *)
(* before, whatever the cache's capacity and the times of both.            *)
THEOREM IdentityTrue == Spec => []IdentityFresh
<1>1. IInv => IdentityFresh
  BY DEF IInv
<1>2. QED
  BY <1>1, SessionKept, PTL

-----------------------------------------------------------------------------
(* The cache's bound.                                                      *)

(* The entries there are, and at most SessionCache::CAPACITY of them.      *)
CacheWithin == IsFiniteSet(Live(sessions)) /\ Cardinality(Live(sessions)) <= Capacity

LEMMA Oldest ==
  ASSUME NEW s \in [Tokens -> [user: Users \union {None}, at: Nat]], Live(s) # {}
  PROVE  \E g \in Live(s) : \A h \in Live(s) : s[g].at <= s[h].at
<1> DEFINE Times == {s[g].at : g \in Live(s)}
<1>1. Times \subseteq Nat /\ Times # {}
  BY DEF Live
<1>2. PICK n \in Times : \A m \in Times : ~(<<m, n>> \in OpToRel(<, Nat))
  BY <1>1, NatLessThanWellFounded, WFMin, Zenon
<1>3. \A m \in Times : ~(m < n)
  BY <1>1, <1>2 DEF OpToRel
<1>4. \A m \in Times : n <= m
  <2> HIDE DEF Times
  <2>1. QED
    BY <1>1, <1>3
<1>5. QED
  BY <1>4

(* An entry is made room for by the oldest.                                *)
LEMMA RoomMade ==
  ASSUME Shapes, CacheWithin, NEW t \in Tokens, NEW user \in Users
  PROVE  /\ IsFiniteSet(Live(Inserted(t, user)))
         /\ Cardinality(Live(Inserted(t, user))) <= Capacity
<1> DEFINE kept == [g \in Tokens |-> IF Cached(g) THEN sessions[g] ELSE NoSession]
           oldest == CHOOSE g \in Live(kept) : \A h \in Live(kept) : kept[g].at <= kept[h].at
           full == Cardinality(Live(kept)) >= Capacity /\ t \notin Live(kept)
           room == IF full THEN [kept EXCEPT ![oldest] = NoSession] ELSE kept
           entry == [user |-> user, at |-> clock]
<1>0. Capacity \in Nat \ {0} /\ user # None /\ NoSession.user = None /\ entry.user = user
  BY SessionAssumption DEF NoSession
<1>1. kept \in [Tokens -> [user: Users \union {None}, at: Nat]]
  BY DEF Shapes, NoSession
<1>2. Live(kept) \subseteq Live(sessions)
  BY <1>0 DEF Live
<1>3. /\ IsFiniteSet(Live(kept)) /\ Cardinality(Live(kept)) \in Nat
      /\ Cardinality(Live(kept)) <= Capacity
  <2>1. /\ IsFiniteSet(Live(kept)) /\ Cardinality(Live(kept)) <= Cardinality(Live(sessions))
    BY <1>2, FS_Subset DEF CacheWithin
  <2>2. Cardinality(Live(kept)) \in Nat /\ Cardinality(Live(sessions)) \in Nat
    BY <2>1, FS_CardinalityType DEF CacheWithin
  <2>3. QED
    BY <1>0, <2>1, <2>2 DEF CacheWithin
<1>4. Inserted(t, user) = [room EXCEPT ![t] = entry]
  BY DEF Inserted
<1>5. CASE full
  <2>1. Live(kept) # {}
    BY <1>0, <1>3, <1>5, FS_EmptySet
  <2>2. oldest \in Live(kept)
    BY <1>1, <2>1, Oldest
  <2> HIDE DEF kept, oldest
  <2>3. Live(room) = Live(kept) \ {oldest} /\ DOMAIN room = Tokens
    BY <1>0, <1>1, <1>5, <2>2 DEF Live
  <2>4. /\ IsFiniteSet(Live(room)) /\ Cardinality(Live(room)) = Cardinality(Live(kept)) - 1
    BY <1>3, <2>2, <2>3, FS_RemoveElement
  <2>5. Live(Inserted(t, user)) = Live(room) \union {t}
    BY <1>0, <1>4, <2>3 DEF Live
  <2>6. /\ IsFiniteSet(Live(room) \union {t})
        /\ Cardinality(Live(room) \union {t}) <= Cardinality(Live(room)) + 1
    <3>1. Cardinality(Live(room)) \in Nat
      BY <2>4, FS_CardinalityType
    <3>2. /\ IsFiniteSet(Live(room) \union {t})
          /\ Cardinality(Live(room) \union {t}) =
               IF t \in Live(room) THEN Cardinality(Live(room)) ELSE Cardinality(Live(room)) + 1
      BY <2>4, FS_AddElement, Zenon
    <3>3. QED
      BY <3>1, <3>2
  <2>7. QED
    BY <1>0, <1>3, <2>4, <2>5, <2>6
<1>6. CASE ~full
  <2>1. room = kept
    BY <1>6
  <2>2. Live(Inserted(t, user)) = Live(kept) \union {t}
    BY <1>0, <1>1, <1>4, <2>1 DEF Live
  <2> HIDE DEF kept
  <2>3. /\ IsFiniteSet(Live(kept) \union {t})
        /\ Cardinality(Live(kept) \union {t}) <= Capacity
    <3>1. /\ IsFiniteSet(Live(kept) \union {t})
          /\ Cardinality(Live(kept) \union {t}) =
               IF t \in Live(kept) THEN Cardinality(Live(kept)) ELSE Cardinality(Live(kept)) + 1
      BY <1>3, FS_AddElement, Zenon
    <3>2. QED
      BY <1>0, <1>3, <1>6, <3>1
  <2>4. QED
    BY <2>2, <2>3
<1>7. QED
  BY <1>5, <1>6

(* The identity cache never holds more than its capacity, however many     *)
(* tokens come.                                                            *)
THEOREM CacheBounded == Spec => []CacheWithin
<1>1. Init => CacheWithin
  <2> SUFFICES ASSUME Init PROVE CacheWithin
    OBVIOUS
  <2>1. Live(sessions) = {}
    BY DEF Init, InitSession, NoSession, Live
  <2>2. QED
    BY <2>1, TimesWhole, FS_EmptySet DEF CacheWithin
<1>2. IInv /\ CacheWithin /\ [Next]_vars => CacheWithin'
  <2> SUFFICES ASSUME IInv, CacheWithin, [Next]_vars PROVE CacheWithin'
    OBVIOUS
  <2>0. Shapes /\ TimesWhole
    BY TimesWhole DEF IInv
  <2>1. ASSUME sessions' = sessions PROVE CacheWithin'
    BY <2>1 DEF CacheWithin, Live
  <2>2. ASSUME NEW r \in Requests, Authenticate(r) PROVE CacheWithin'
    <3>1. Live(sessions') \subseteq Live(sessions)
      BY <2>2, SessionAssumption DEF Authenticate, Live, NoSession
    <3>2. IsFiniteSet(Live(sessions')) /\ Cardinality(Live(sessions')) <= Cardinality(Live(sessions))
      BY <3>1, FS_Subset DEF CacheWithin
    <3>3. Cardinality(Live(sessions')) \in Nat /\ Cardinality(Live(sessions)) \in Nat /\ Capacity \in Nat
      BY <3>2, FS_CardinalityType, TimesWhole DEF CacheWithin
    <3>4. QED
      BY <3>2, <3>3 DEF CacheWithin, Live
  <2>3. ASSUME NEW r \in Requests, Identified(r) PROVE CacheWithin'
    <3>1. CASE Refuses(r)
      BY <2>1, <3>1 DEF Refuses
    <3>2. CASE Opens(r)
      <4>1. sessions' = Inserted(rq[r].token, rq[r].viewer) /\ rq[r].token \in Tokens /\ rq[r].viewer \in Users
        BY <2>0, <3>2 DEF Opens, Shapes
      <4>2. IsFiniteSet(Live(sessions')) /\ Cardinality(Live(sessions')) <= Capacity
        BY <2>0, <4>1, RoomMade
      <4>3. QED
        BY <4>2 DEF CacheWithin, Live
    <3>3. QED
      BY <2>0, <2>3, <3>1, <3>2, IdentifiedSo
  <2>4. ASSUME NEW r \in Requests, Identify(r) \/ NotIdentified(r) PROVE sessions' = sessions
    BY <2>4 DEF Identify, NotIdentified
  <2>5. ASSUME NEW f \in Fields, FieldStep(f) \/ Serve(f) \/ Drop(f) PROVE sessions' = sessions
    BY <2>5 DEF FieldStep, Begin, Continue, Moves, Ask, Receive, Break, Rest, Serve, Handle, Drop
  <2>6. Tick \/ Rename \/ Meddle \/ UNCHANGED vars => sessions' = sessions
    BY DEF Tick, Rename, Meddle, vars
  <2>7. QED
    BY <2>1, <2>2, <2>3, <2>4, <2>5, <2>6 DEF Next
<1>3. QED
  BY <1>1, <1>2, SessionKept, PTL DEF Spec

-----------------------------------------------------------------------------
(* What is said of a write, and what a write follows from.                 *)

(* What a resolver's step leaves of the others.                            *)
Undisturbed(g) ==
    /\ pc'[g] = pc[g] /\ io'[g] = io[g] /\ reply'[g] = reply[g] /\ local'[g] = local[g]
    /\ answer'[g] = answer[g] /\ seen'[g] = seen[g]
    /\ (g \in forge'.made) = (g \in forge.made)
    /\ g \in forge.noted => g \in forge'.noted
(* Nor what an edit under way rests on.                                    *)
Steady(g) ==
    \/ ~Active(g) \/ field[g].op \in Queries
    \/ memo'[Of(g)] = memo[Of(g)] /\ rq'[Of(g)].epoch = rq[Of(g)].epoch
(* At the forge issues stay issues.                                        *)
Widens == field' = field /\ forge'.issue = forge.issue /\ DOMAIN forge' = DOMAIN forge

LEMMA KeptHonest ==
  ASSUME NEW g \in Fields, Honest(g), InTurn(g), Widens, Undisturbed(g), Steady(g)
  PROVE  Honest(g)'
<1>1. Of(g)' = Of(g) /\ Call(g)' = Call(g) /\ (Active(g)' <=> Active(g)) /\ (Back(g)' <=> Back(g))
  BY CallKept DEF Of, Active, Back, Widens, Undisturbed
<1>2. Leaves(g)'
  BY <1>1 DEF Honest, Leaves, Tells, Back, Widens, Undisturbed
<1>3. Looks(g)' /\ Based(g)'
  BY <1>1 DEF Honest, Looks, Based, Widens, Undisturbed
<1>4. CASE ~Active(g) \/ field[g].op \in Queries
  <2>1. Fetched(g)'
    BY <1>1, <1>4 DEF Fetched, Widens
  <2>2. Rests(g)'
    BY <1>1, <1>4 DEF Rests, InTurn, Active, Widens, Undisturbed
  <2>3. QED
    BY <1>2, <1>3, <2>1, <2>2 DEF Honest, Widens, Undisturbed
<1>5. CASE memo'[Of(g)] = memo[Of(g)] /\ rq'[Of(g)].epoch = rq[Of(g)].epoch
  <2>1. \A key : Noted(g, key)' <=> Noted(g, key)
    BY <1>1, <1>5 DEF Noted, Widens, Undisturbed
  <2>2. Fetched(g)'
    BY <1>1, <1>5, <2>1 DEF Honest, Fetched, Widens, Undisturbed
  <2>3. PullRead(g)' = PullRead(g)
    BY <1>1, <1>5 DEF PullRead, Key
  <2>4. Rests(g)'
    BY <1>1, <1>5, <2>1, <2>3 DEF Honest, Rests, Key, Widens, Undisturbed
  <2>5. QED
    BY <1>2, <1>3, <2>2, <2>4 DEF Honest, Widens, Undisturbed
<1>6. QED
  BY <1>4, <1>5 DEF Steady

(* A step of one resolver.                                                 *)
Beside(f) ==
    /\ Widens /\ \A g \in Fields \ {f} : Undisturbed(g)
    /\ \A r \in Requests \ {Of(f)} : memo'[r] = memo[r] /\ rq'[r].epoch = rq[r].epoch
    /\ Active(f) \/ UNCHANGED <<memo, rq>>

LEMMA BesideHonest ==
  ASSUME Shapes, Document, \A h \in Fields : InTurn(h), HonestInv,
         NEW f \in Fields, Beside(f), Honest(f)', KindsTrue'
  PROVE  HonestInv'
<1>1. ASSUME NEW g \in Fields, g # f PROVE Honest(g)'
  <2>1. Steady(g)
    <3>1. CASE Active(f) /\ Active(g) /\ Of(f) = Of(g)
      BY <1>1, <3>1, Alone DEF Steady
    <3>2. CASE ~(Active(f) /\ Active(g) /\ Of(f) = Of(g))
      BY <1>1, <3>2, Owners DEF Steady, Beside
    <3>3. QED
      BY <3>1, <3>2
  <2>2. QED
    BY <1>1, <2>1, KeptHonest DEF HonestInv, Beside
<1>2. \A g \in Fields : Honest(g)'
  BY <1>1
<1>3. Commentable'
  BY DEF HonestInv, Commentable, Beside, Widens
<1>4. forge'.issue \in BOOLEAN /\ {"ver", "issue", "made", "noted", "branches", "pull"} \subseteq DOMAIN forge'
  BY DEF HonestInv, Beside, Widens
<1>5. QED
  BY <1>2, <1>3, <1>4 DEF HonestInv

(* Cells and replies there were, and new ones that say which kind it is.   *)
LEMMA KindsKept ==
  ASSUME KindsTrue, forge'.issue = forge.issue, field' = field,
         \A r \in Requests : \A k \in DOMAIN memo'[r] : memo'[r][k].by = None =>
           (k \in DOMAIN memo[r] /\ memo'[r][k] = memo[r][k]) \/ Kind(k, memo'[r][k].reply),
         \A g \in Fields : Active(g)' /\ Back(g)' /\ Call(g)'.how = "memo" =>
           \/ Active(g) /\ Back(g) /\ Call(g)' = Call(g) /\ reply'[g] = reply[g]
           \/ Kind(Call(g)'.key, reply'[g])
  PROVE  KindsTrue'
<1>2. ASSUME NEW r \in Requests, NEW k \in DOMAIN memo'[r], memo'[r][k].by = None
      PROVE  Kind(k, memo'[r][k].reply)
  BY <1>2 DEF KindsTrue
<1>3. ASSUME NEW g \in Fields, Active(g)', Back(g)', Call(g)'.how = "memo"
      PROVE  Kind(Call(g)'.key, reply'[g])
  BY <1>3 DEF KindsTrue
<1>4. QED
  BY <1>2, <1>3 DEF KindsTrue, Kind, Key

(* Forgejo's outcomes.                                                     *)
Leaving(f, o) ==
    /\ DOMAIN o.after = DOMAIN forge /\ o.after.issue = forge.issue
    /\ \A g \in Fields : (g # f \/ pc[f] \notin {"create", "create_issue"})
                           => (g \in o.after.made) = (g \in forge.made)
    /\ \A g \in Fields : g \in forge.noted => g \in o.after.noted
    /\ pc[f] \in {"create", "create_issue"} =>
         IF o.status = "ok" THEN f \in o.after.made ELSE (f \in o.after.made) = (f \in forge.made)
    /\ pc[f] = "comment" /\ o.status = "ok" => f \in o.after.noted

LEMMA OutcomesLeave ==
  ASSUME HonestInv, NEW f \in Fields, NEW o \in Outcomes(f)
  PROVE  Leaving(f, o)
<1>0. {"ver", "issue", "made", "noted", "branches", "pull"} \subseteq DOMAIN forge
  BY DEF HonestInv
<1>1. Leaving(f, Refusal)
  BY DEF Refusal, Leaving
<1>2. CASE pc[f] \in {"create", "create_issue"}
  <2> DEFINE made == [after |-> [forge EXCEPT !.made = @ \union {f}], status |-> "ok"]
  <2>1. Outcomes(f) = {Refusal} \union {made}
    BY <1>2 DEF Outcomes
  <2>2. Leaving(f, made)
    BY <1>0, <1>2 DEF Leaving
  <2>3. QED
    BY <1>1, <2>1, <2>2
<1>3. CASE pc[f] = "allow"
  <2> DEFINE allowed == [after |-> [forge EXCEPT !.allowed = TRUE], status |-> "ok"]
  <2>1. Outcomes(f) = {Refusal} \union {allowed}
    BY <1>3 DEF Outcomes
  <2>2. Leaving(f, allowed)
    BY <1>0, <1>3 DEF Leaving
  <2>3. QED
    BY <1>1, <2>1, <2>2
<1>4. CASE pc[f] = "comment"
  <2> DEFINE noted == [after |-> [forge EXCEPT !.noted = @ \union {f}], status |-> "ok"]
  <2>1. Outcomes(f) = {Refusal} \union {noted}
    BY <1>4 DEF Outcomes
  <2>2. Leaving(f, noted)
    BY <1>0, <1>4 DEF Leaving
  <2>3. QED
    BY <1>1, <2>1, <2>2
<1>5. CASE pc[f] \in {"patch", "title"}
  <2>1. Outcomes(f) = {Refusal} \union Patched(f, local[f].change)
    BY <1>5 DEF Outcomes
  <2>2. ASSUME NEW x \in Patched(f, local[f].change) PROVE Leaving(f, x)
    <3>1. \E pull, how : x = [after |-> [forge EXCEPT !.pull = pull], status |-> how]
      BY <2>2, Zenon DEF Patched
    <3>2. PICK pull, how : x = [after |-> [forge EXCEPT !.pull = pull], status |-> how]
      BY <3>1
    <3>3. QED
      BY <1>0, <1>5, <3>2 DEF Leaving
  <2>3. QED
    BY <1>1, <2>1, <2>2
<1>6. CASE pc[f] = "delete"
  <2> DEFINE deleted == [after |-> [forge EXCEPT !.branches = @ \ {"branch"}], status |-> "ok"]
             nothing == [after |-> forge, status |-> "server_error"]
  <2>1. Outcomes(f) \subseteq {Refusal, deleted, nothing}
    BY <1>6 DEF Outcomes
  <2>2. Leaving(f, deleted) /\ Leaving(f, nothing)
    BY <1>0, <1>6 DEF Leaving
  <2>3. QED
    BY <1>1, <2>1, <2>2
<1>7. CASE pc[f] \notin {"create", "create_issue", "allow", "comment", "patch", "title", "delete"}
  <2>1. Outcomes(f) = {Refusal}
    BY <1>7 DEF Outcomes
  <2>2. QED
    BY <1>1, <2>1
<1>8. QED
  BY <1>2, <1>3, <1>4, <1>5, <1>6, <1>7

(* What Forgejo's handling of a call leaves.                               *)
LEMMA HandleLeaves ==
  ASSUME Shapes, HonestInv, NEW f \in Fields, NEW after, NEW status, NEW write,
         Handle(f, after, status, write), Leaving(f, [after |-> after, status |-> status])
  PROVE  /\ Beside(f) /\ Active(f) /\ io[f] = "sent" /\ io'[f] = "back"
         /\ UNCHANGED <<rq, memo, pc, local, answer, seen>>
         /\ reply'[f].status = status /\ reply'[f].was = forge'
         /\ (f \in forge'.made) = (f \in after.made) /\ (f \in forge'.noted) = (f \in after.noted)
         /\ after = forge => forge' = forge
<1>0. {"ver", "issue", "made", "noted", "branches", "pull"} \subseteq DOMAIN forge
  BY DEF HonestInv
<1>1. forge' = IF after = forge THEN forge ELSE [after EXCEPT !.ver = forge.ver + 1]
  BY DEF Handle
<1>2. /\ DOMAIN forge' = DOMAIN forge /\ forge'.issue = forge.issue
      /\ forge'.made = after.made /\ forge'.noted = after.noted
  <2>1. CASE after = forge
    BY <1>1, <2>1
  <2>2. CASE after # forge
    BY <1>0, <1>1, <2>2 DEF Leaving
  <2>3. QED
    BY <2>1, <2>2
<1>3. /\ Active(f) /\ io[f] = "sent" /\ io' = [io EXCEPT ![f] = "back"]
      /\ UNCHANGED <<rq, memo, field, pc, local, answer, seen>>
      /\ \E size \in field[f].sizes :
            reply' = [reply EXCEPT ![f] = [status |-> status, was |-> forge', ver |-> forge'.ver,
                                           write |-> write, size |-> size, body |-> 0]]
  BY DEF Handle, Turn, Rest, Active
<1>4. io'[f] = "back" /\ reply'[f].status = status /\ reply'[f].was = forge'
  BY <1>3 DEF Shapes
<1>5. \A g \in Fields \ {f} : Undisturbed(g)
  BY <1>2, <1>3 DEF Undisturbed, Leaving, Shapes
<1>6. Beside(f)
  BY <1>2, <1>3, <1>5 DEF Beside, Widens
<1>7. QED
  BY <1>1, <1>2, <1>3, <1>4, <1>6

LEMMA ServeHonest ==
  ASSUME Shapes, HonestInv, NEW f \in Fields, pc[f] # "ready", Serve(f)
  PROVE  Beside(f) /\ Honest(f)' /\ KindsTrue'
<1>0. Honest(f) /\ KindsTrue
  BY DEF HonestInv
<1>1. CASE Call(f).how = "write"
  <2>1. PICK o \in Outcomes(f) : Handle(f, o.after, o.status, TRUE)
    BY <1>1, Zenon DEF Serve
  <2> DEFINE after == o.after
             status == o.status
  <2>2. Leaving(f, [after |-> after, status |-> status])
    BY <2>1, OutcomesLeave DEF Leaving
  <2>3. Handle(f, after, status, TRUE)
    BY <2>1
  <2> HIDE DEF after, status
  <2>4. /\ Beside(f) /\ Active(f) /\ io[f] = "sent" /\ io'[f] = "back"
        /\ UNCHANGED <<rq, memo, pc, local, answer, seen>> /\ reply'[f].status = status
        /\ (f \in forge'.made) = (f \in after.made) /\ (f \in forge'.noted) = (f \in after.noted)
    BY <2>2, <2>3, HandleLeaves
  <2>5. field' = field /\ forge'.issue = forge.issue
    BY <2>4 DEF Beside, Widens
  <2>6. Leaves(f)'
    BY <1>0, <2>2, <2>4, <2>5 DEF Honest, Leaves, Leaving, Tells, Back, Active
  <2>7. Looks(f)' /\ Fetched(f)' /\ Rests(f)' /\ Based(f)'
    BY <1>0, <1>1, <2>4, <2>5 DEF Honest, Looks, Fetched, Rests, Based, Call, Reads
  <2>8. Call(f)' = Call(f)
    BY <2>4, <2>5, CallKept
  <2>9. KindsTrue'
    <3>1. ASSUME NEW g \in Fields, Active(g)', Back(g)', Call(g)'.how = "memo"
          PROVE  Active(g) /\ Back(g) /\ Call(g)' = Call(g) /\ reply'[g] = reply[g]
      <4>1. g # f
        BY <1>1, <2>8, <3>1
      <4>2. Undisturbed(g)
        BY <2>4, <4>1 DEF Beside
      <4>3. QED
        BY <2>5, <3>1, <4>2, CallKept DEF Undisturbed, Active, Back
    <3>2. QED
      BY <1>0, <2>4, <2>5, <3>1, KindsKept
  <2>10. QED
    BY <1>0, <2>4, <2>5, <2>6, <2>7, <2>9 DEF Honest
<1>2. CASE Call(f).how # "write"
  <2> DEFINE status == IF pc[f] = "look" /\ forge.unseen THEN "unseen" ELSE StatusOf(forge, Call(f).key)
  <2>1. Handle(f, forge, status, FALSE)
    BY <1>2 DEF Serve
  <2>2. pc[f] \notin {"create", "create_issue", "comment"}
    BY <1>2 DEF Call, Writes, Reads
  <2>3. Leaving(f, [after |-> forge, status |-> status])
    BY <2>2 DEF Leaving
  <2>4. Call(f).how = "memo" => Kind(Call(f).key, [status |-> status])
    BY DEF Kind, StatusOf, Key, Call, Reads, Writes
  <2>5. pc[f] = "look" /\ status = "not_found" => "branch" \notin forge.branches
    BY DEF StatusOf, Call, Key
  <2> HIDE DEF status
  <2>6. /\ Beside(f) /\ Active(f) /\ io[f] = "sent" /\ io'[f] = "back"
        /\ UNCHANGED <<rq, memo, pc, local, answer, seen>>
        /\ reply'[f].status = status /\ reply'[f].was = forge' /\ forge' = forge
    BY <2>1, <2>3, HandleLeaves
  <2>7. field' = field
    BY <2>6 DEF Beside, Widens
  <2>8. Leaves(f)' /\ Looks(f)'
    BY <1>0, <2>2, <2>5, <2>6, <2>7 DEF Honest, Leaves, Looks, Active
  <2>9. Fetched(f)' /\ Rests(f)' /\ Based(f)'
    BY <1>0, <2>6, <2>7 DEF Honest, Fetched, Rests, Based
  <2>10. Call(f)' = Call(f)
    BY <2>6, <2>7, CallKept
  <2>11. KindsTrue'
    <3>1. ASSUME NEW g \in Fields, Active(g)', Back(g)', Call(g)'.how = "memo"
          PROVE  \/ Active(g) /\ Back(g) /\ Call(g)' = Call(g) /\ reply'[g] = reply[g]
                 \/ Kind(Call(g)'.key, reply'[g])
      <4>1. CASE g = f
        BY <2>4, <2>6, <2>10, <3>1, <4>1 DEF Kind
      <4>2. CASE g # f
        <5>1. Undisturbed(g)
          BY <2>6, <4>2 DEF Beside
        <5>2. QED
          BY <2>7, <3>1, <5>1, CallKept DEF Undisturbed, Active, Back
      <4>3. QED
        BY <4>1, <4>2
    <3>2. QED
      BY <1>0, <2>6, <2>7, <3>1, KindsKept
  <2>12. QED
    BY <1>0, <2>6, <2>7, <2>8, <2>9, <2>11 DEF Honest
<1>3. QED
  BY <1>1, <1>2

(* A call's end.  Its reply is the one that came, or one that says nothing *)
(* of the forge.                                                           *)
LEMMA SettleHonest ==
  ASSUME Shapes, HonestInv, NEW f \in Fields, Active(f), io[f] \in {"sent", "back"},
         NEW rep, NEW charge, Settle(f, Call(f), rep, charge),
         UNCHANGED <<forge, field, pc, answer>>,
         local' \in {local, [local EXCEPT ![f].tries = 0]},
         Mute(rep) \/ (io[f] = "back" /\ rep = reply[f])
  PROVE  Beside(f) /\ Honest(f)' /\ KindsTrue'
<1> DEFINE r == Of(f)
           key == Call(f).key
           wrote == Call(f).how = "write" /\ rep.write
<1>0. /\ r \in Requests /\ Of(f)' = r /\ Honest(f) /\ KindsTrue /\ Back(f)' /\ Active(f)'
      /\ io'[f] = "done" /\ reply'[f] = rep
      /\ \A g \in Fields \ {f} : io'[g] = io[g] /\ reply'[g] = reply[g]
  BY Owners DEF Settle, Shapes, Of, HonestInv, Back, Active
<1>1. /\ DOMAIN local'[f] = DOMAIN local[f] /\ local'[f].change = local[f].change
      /\ local'[f].page = local[f].page /\ local'[f].size = local[f].size
      /\ \A g \in Fields \ {f} : local'[g] = local[g]
  <2>1. DOMAIN local[f] = DOMAIN NoLocal /\ f \in DOMAIN local
    BY <1>0 DEF Honest, Shapes
  <2>2. {"tries", "change", "page", "size"} \subseteq DOMAIN local[f]
    BY <2>1 DEF NoLocal
  <2>3. CASE local' = local
    BY <2>3
  <2>4. CASE local' = [local EXCEPT ![f].tries = 0]
    BY <2>1, <2>2, <2>4
  <2>5. QED
    BY <2>3, <2>4
<1>2. Call(f)' = Call(f)
  BY <1>1 DEF Call, Reads, Writes, Key
<1>3. /\ \A q \in Requests \ {r} : rq'[q] = rq[q] /\ memo'[q] = memo[q]
      /\ \A g \in Fields \ {f} : seen'[g] = seen[g]
  BY <1>0 DEF Settle, Note, Shapes
<1>4. Beside(f)
  BY <1>0, <1>1, <1>3 DEF Beside, Widens, Undisturbed
<1>5. Mute(rep) => rep.status \notin {"ok", "not_found"}
  BY DEF Mute
<1>6. Leaves(f)' /\ Looks(f)' /\ Based(f)' /\ Rests(f)'
  <2>1. Leaves(f)'
    BY <1>0, <1>5 DEF Honest, Leaves, Tells, Back, Mute
  <2>2. Looks(f)'
    BY <1>0, <1>5 DEF Honest, Looks, Back
  <2>3. Based(f)' /\ Rests(f)'
    BY <1>0, <1>1 DEF Honest, Based, Rests
  <2>4. QED
    BY <2>1, <2>2, <2>3
<1>7. ASSUME Call(f).how = "memo"
      PROVE  /\ memo'[r] = With(memo[r], key, None, rep) /\ rq'[r].epoch = rq[r].epoch
             /\ rep.status = "ok" => Noted(f, key)'
  <2>1. /\ memo' = [memo EXCEPT ![r] = With(@, key, None, rep)] /\ ~wrote
        /\ seen' = Note(f, Call(f), rep, r)
    BY <1>7 DEF Settle
  <2>2. memo'[r] = With(memo[r], key, None, rep)
    BY <1>0, <2>1 DEF Shapes
  <2>3. rq'[r].epoch = rq[r].epoch
    BY <1>0, <2>1 DEF Settle, Shapes
  <2>4. [key |-> key, epoch |-> rq[r].epoch, status |-> rep.status, ver |-> rep.ver, floor |-> rq[r].wrote]
          \in seen'[f]
    BY <1>7, <2>1 DEF Note, Shapes
  <2>5. rep.status = "ok" => Noted(f, key)'
    BY <1>0, <1>2, <2>3, <2>4 DEF Noted
  <2>6. QED
    BY <2>2, <2>3, <2>5
<1>8. Fetched(f)'
  <2>1. CASE Call(f).how # "memo"
    BY <1>2, <2>1 DEF Fetched
  <2>2. CASE Call(f).how = "memo"
    <3>1. key \in DOMAIN memo'[r] /\ memo'[r][key].reply = rep
      BY <1>7, <2>2 DEF With
    <3>2. rep.status = "ok" => Noted(f, key)'
      BY <1>7, <2>2
    <3>3. QED
      BY <1>0, <1>2, <3>1, <3>2 DEF Fetched, Noted
  <2>3. QED
    BY <2>1, <2>2
<1>9. Call(f).how = "memo" => Kind(key, rep)
  <2>1. CASE Mute(rep)
    BY <1>5, <2>1 DEF Kind
  <2>2. CASE io[f] = "back" /\ rep = reply[f]
    BY <1>0, <2>2 DEF KindsTrue, Back
  <2>3. QED
    BY <2>1, <2>2
<1>10. KindsTrue'
  <2>1. ASSUME NEW q \in Requests, NEW k \in DOMAIN memo'[q], memo'[q][k].by = None
        PROVE  (k \in DOMAIN memo[q] /\ memo'[q][k] = memo[q][k]) \/ Kind(k, memo'[q][k].reply)
    <3>1. CASE q # r
      BY <1>3, <2>1, <3>1
    <3>2. CASE q = r /\ Call(f).how = "memo"
      <4>1. memo'[q] = With(memo[q], key, None, rep)
        BY <1>7, <3>2
      <4>2. QED
        BY <1>9, <2>1, <3>2, <4>1 DEF With
    <3>3. CASE q = r /\ Call(f).how # "memo"
      <4>1. memo'[q] = IF wrote THEN NoMemo ELSE memo[q]
        BY <1>0, <3>3 DEF Settle, Shapes
      <4>2. QED
        BY <2>1, <4>1 DEF NoMemo
    <3>4. QED
      BY <3>1, <3>2, <3>3
  <2>2. ASSUME NEW g \in Fields, Active(g)', Back(g)', Call(g)'.how = "memo"
        PROVE  \/ Active(g) /\ Back(g) /\ Call(g)' = Call(g) /\ reply'[g] = reply[g]
               \/ Kind(Call(g)'.key, reply'[g])
    <3>1. CASE g = f
      BY <1>0, <1>2, <1>9, <2>2, <3>1
    <3>2. CASE g # f
      BY <1>4, <2>2, <3>2, CallKept DEF Beside, Widens, Undisturbed, Active, Back
    <3>3. QED
      BY <3>1, <3>2
  <2>3. QED
    BY <1>0, <2>1, <2>2, KindsKept
<1>11. QED
  BY <1>0, <1>1, <1>4, <1>6, <1>8, <1>10 DEF Honest

LEMMA BreakHonest ==
  ASSUME Shapes, HonestInv, NEW f \in Fields, pc[f] # "ready", Break(f, Call(f))
  PROVE  Beside(f) /\ Honest(f)' /\ KindsTrue'
<1>1. /\ Active(f) /\ io[f] \in {"sent", "back"} /\ Settle(f, Call(f), Failure("lost"), 0)
      /\ UNCHANGED <<forge, field, pc, answer, local>>
  BY DEF Break, Turn, Active, Rest
<1>2. Mute(Failure("lost"))
  BY DEF Failure, NoReply, Mute
<1>3. QED
  BY <1>1, <1>2, SettleHonest

LEMMA ReceiveHonest ==
  ASSUME Shapes, HonestInv, NEW f \in Fields, pc[f] # "ready", Replied(f), Receive(f, Call(f))
  PROVE  Beside(f) /\ Honest(f)' /\ KindsTrue'
<1>0. /\ Active(f) /\ io[f] = "back" /\ UNCHANGED <<forge, field, pc, answer>> /\ Honest(f) /\ KindsTrue
      /\ Of(f) \in Requests
  BY Owners DEF Receive, Turn, Active, HonestInv
<1>1. ASSUME NEW rep, Refused(f, Call(f), rep) PROVE Beside(f) /\ Honest(f)' /\ KindsTrue'
  BY <1>0, <1>1, SettleHonest DEF Refused
<1>2. ASSUME NEW n \in Nat, Settle(f, Call(f), reply[f], n), local' = [local EXCEPT ![f].tries = 0]
      PROVE  Beside(f) /\ Honest(f)' /\ KindsTrue'
  BY <1>0, <1>2, SettleHonest
<1>3. ASSUME NEW n \in Nat, Charged(f, n), Again(f, Call(f)) PROVE Beside(f) /\ Honest(f)' /\ KindsTrue'
  <2>0. memo' = memo /\ seen' = seen /\ reply' = reply
    BY <1>3 DEF Charged, Again
  <2>1. /\ \A g \in Fields \ {f} : Undisturbed(g)
        /\ \A q \in Requests \ {Of(f)} : rq'[q] = rq[q]
    BY <1>0, <1>3 DEF Charged, Again, Undisturbed, Shapes
  <2>2. Beside(f)
    BY <1>0, <2>0, <2>1 DEF Beside, Widens
  <2>3. DOMAIN local'[f] = DOMAIN local[f] /\ local'[f].change = local[f].change
    <3>1. {"tries", "change"} \subseteq DOMAIN local[f] /\ f \in DOMAIN local
      BY <1>0 DEF Honest, NoLocal, Shapes
    <3>2. QED
      BY <1>3, <3>1 DEF Again
  <2>4. pc[f] \notin {"create", "create_issue", "allow", "comment", "patch", "title", "delete", "look", "base"}
    <3>1. CASE pc[f] = "base"
      <4>1. field[f].base \in {"base", "main"}
        BY <1>0, <3>1 DEF Honest, Based, Shapes, Jobs
      <4>2. Call(f).key = Key(field[f].base)
        BY <3>1 DEF Call, Reads
      <4>3. QED
        BY <1>3, <4>1, <4>2 DEF Again, Key
    <3>2. QED
      BY <1>3, <3>1 DEF Again, Call, Writes, Key
  <2>5. io'[f] = "sent"
    BY <1>3 DEF Again, Shapes
  <2>6. Honest(f)'
    BY <1>0, <2>3, <2>4, <2>5 DEF Honest, Leaves, Looks, Fetched, Rests, Based, Back
  <2>7. KindsTrue'
    <3>1. ASSUME NEW g \in Fields, Active(g)', Back(g)', Call(g)'.how = "memo"
          PROVE  Active(g) /\ Back(g) /\ Call(g)' = Call(g) /\ reply'[g] = reply[g]
      <4>1. g # f
        BY <2>5, <3>1 DEF Back
      <4>2. QED
        BY <1>0, <2>1, <3>1, <4>1, CallKept DEF Undisturbed, Active, Back
    <3>2. QED
      BY <1>0, <2>0, <3>1, KindsKept
  <2>8. QED
    BY <2>2, <2>6, <2>7
<1>4. ASSUME NEW n \in Nat, Charged(f, n), More(f, n) PROVE Beside(f) /\ Honest(f)' /\ KindsTrue'
  <2>0. memo' = memo /\ seen' = seen /\ io' = io /\ local' = local
    BY <1>4 DEF Charged, More
  <2>1. /\ \A g \in Fields \ {f} : Undisturbed(g)
        /\ \A q \in Requests \ {Of(f)} : rq'[q] = rq[q]
    BY <1>0, <1>4 DEF Charged, More, Undisturbed, Shapes
  <2>2. Beside(f)
    BY <1>0, <2>0, <2>1 DEF Beside, Widens
  <2>3. reply'[f].status = reply[f].status /\ reply'[f].was = reply[f].was
    <3>1. DOMAIN reply[f] = {"status", "was", "ver", "write", "size", "body"} /\ f \in DOMAIN reply
      BY DEF Replied, Weighed, NoReply, Shapes
    <3>2. QED
      BY <1>4, <3>1 DEF More
  <2>4. Call(f)' = Call(f)
    BY <1>0, <2>0, CallKept
  <2>5. Honest(f)'
    <3>1. Leaves(f)' /\ Looks(f)'
      BY <1>0, <2>0, <2>3 DEF Honest, Leaves, Tells, Looks, Back, Active
    <3>2. Fetched(f)'
      BY <1>0, <2>0 DEF Fetched
    <3>3. Rests(f)' /\ Based(f)'
      BY <1>0, <2>0 DEF Honest, Rests, Based
    <3>4. QED
      BY <1>0, <2>0, <3>1, <3>2, <3>3 DEF Honest
  <2>6. KindsTrue'
    <3>1. ASSUME NEW g \in Fields, Active(g)', Back(g)', Call(g)'.how = "memo"
          PROVE  \/ Active(g) /\ Back(g) /\ Call(g)' = Call(g) /\ reply'[g] = reply[g]
                 \/ Kind(Call(g)'.key, reply'[g])
      <4>1. CASE g = f
        BY <1>0, <2>0, <2>3, <2>4, <3>1, <4>1 DEF KindsTrue, Kind, Back, Active
      <4>2. CASE g # f
        BY <1>0, <2>0, <2>1, <3>1, <4>2, CallKept DEF Undisturbed, Active, Back
      <4>3. QED
        BY <4>1, <4>2
    <3>2. QED
      BY <1>0, <2>0, <3>1, KindsKept
  <2>7. QED
    BY <2>2, <2>5, <2>6
<1>5. QED
  BY <1>1, <1>2, <1>3, <1>4, ReceiveCases

LEMMA AskHonest ==
  ASSUME Shapes, HonestInv, NEW f \in Fields, pc[f] # "ready", Ask(f, Call(f))
  PROVE  Beside(f) /\ Honest(f)' /\ KindsTrue'
<1> DEFINE r == Of(f)
           key == Call(f).key
           told == memo[r][key].reply
<1>0. /\ Active(f) /\ io[f] = "idle" /\ UNCHANGED <<rq, forge, field, pc, answer, local>>
      /\ Honest(f) /\ KindsTrue /\ r \in Requests /\ Of(f)' = r /\ Call(f)' = Call(f) /\ Active(f)'
  BY Owners, CallKept DEF Ask, Turn, Rest, Active, HonestInv, Of
<1>1. \A g \in Fields \ {f} : Undisturbed(g)
  BY <1>0 DEF Ask, Note, Undisturbed, Shapes
<1>2. \A q \in Requests \ {r} : memo'[q] = memo[q]
  BY <1>0 DEF Ask, Shapes
<1>3. Beside(f)
  BY <1>0, <1>1, <1>2 DEF Beside, Widens
<1>4. ASSUME NEW g \in Fields \ {f}, Active(g)', Back(g)'
      PROVE  Active(g) /\ Back(g) /\ Call(g)' = Call(g) /\ reply'[g] = reply[g]
  BY <1>0, <1>1, <1>4, CallKept DEF Undisturbed, Active, Back
<1>5. CASE /\ Call(f).how = "memo" /\ key \in DOMAIN memo[r] /\ memo[r][key].by = None
           /\ io' = [io EXCEPT ![f] = "done"] /\ reply' = [reply EXCEPT ![f] = told]
           /\ seen' = Note(f, Call(f), told, r) /\ UNCHANGED memo
  <2>1. /\ io'[f] = "done" /\ reply'[f] = told
        /\ [key |-> key, epoch |-> rq[r].epoch, status |-> told.status, ver |-> told.ver, floor |-> rq[r].wrote]
              \in seen'[f]
    BY <1>0, <1>5 DEF Note, Shapes
  <2>2. told.status = "ok" => Noted(f, key)'
    BY <1>0, <2>1 DEF Noted
  <2>3. Fetched(f)'
    BY <1>0, <1>5, <2>1, <2>2 DEF Fetched, Noted
  <2>4. pc[f] \notin {"create", "create_issue", "comment", "patch", "title", "look"}
    BY <1>5 DEF Call, Writes, Reads
  <2>5. Leaves(f)' /\ Looks(f)' /\ Rests(f)' /\ Based(f)'
    BY <1>0, <2>1, <2>4 DEF Honest, Leaves, Looks, Rests, Based
  <2>6. Kind(key, told)
    BY <1>0, <1>5 DEF KindsTrue
  <2>7. KindsTrue'
    <3>1. ASSUME NEW g \in Fields, Active(g)', Back(g)', Call(g)'.how = "memo"
          PROVE  \/ Active(g) /\ Back(g) /\ Call(g)' = Call(g) /\ reply'[g] = reply[g]
                 \/ Kind(Call(g)'.key, reply'[g])
      BY <1>0, <1>4, <2>1, <2>6, <3>1
    <3>2. QED
      BY <1>0, <1>5, <3>1, KindsKept
  <2>8. QED
    BY <1>0, <1>3, <2>3, <2>5, <2>7 DEF Honest
<1>6. CASE /\ io' = [io EXCEPT ![f] = "sent"] /\ UNCHANGED <<reply, seen>>
           /\ \/ UNCHANGED memo
              \/ /\ Call(f).how = "memo" /\ key \notin DOMAIN memo[r]
                 /\ memo' = [memo EXCEPT ![r] = With(@, key, f, NoReply)]
  <2>1. io'[f] = "sent"
    BY <1>6 DEF Shapes
  <2>2. Leaves(f)' /\ Looks(f)' /\ Fetched(f)' /\ Based(f)'
    BY <1>0, <2>1 DEF Honest, Leaves, Tells, Looks, Fetched, Based, Back
  <2>3. Rests(f)'
    <3>1. CASE pc[f] \in {"patch", "title"}
      <4>1. memo' = memo /\ seen' = seen
        BY <1>6, <3>1 DEF Call, Writes
      <4>2. QED
        BY <1>0, <2>1, <4>1 DEF Honest, Rests, Noted, PullRead, Key
    <3>2. CASE pc[f] \notin {"patch", "title"}
      BY <1>0, <3>2 DEF Rests
    <3>3. QED
      BY <3>1, <3>2
  <2>4. KindsTrue'
    <3>1. ASSUME NEW q \in Requests, NEW k \in DOMAIN memo'[q], memo'[q][k].by = None
          PROVE  k \in DOMAIN memo[q] /\ memo'[q][k] = memo[q][k]
      <4>1. CASE q # r
        BY <1>2, <3>1, <4>1
      <4>2. CASE q = r /\ memo' # memo
        <5>1. memo'[q] = With(memo[q], key, f, NoReply) /\ f # None
          BY <1>0, <1>6, <4>2, SessionAssumption DEF Shapes
        <5>2. QED
          BY <3>1, <5>1 DEF With
      <4>3. QED
        BY <3>1, <4>1, <4>2
    <3>2. ASSUME NEW g \in Fields, Active(g)', Back(g)', Call(g)'.how = "memo"
          PROVE  Active(g) /\ Back(g) /\ Call(g)' = Call(g) /\ reply'[g] = reply[g]
      BY <1>4, <2>1, <3>2 DEF Back
    <3>3. QED
      BY <1>0, <3>1, <3>2, KindsKept
  <2>5. QED
    BY <1>0, <1>3, <2>2, <2>3, <2>4 DEF Honest
<1>7. QED
  BY <1>5, <1>6 DEF Ask

(* A resolver starts.                                                      *)
LEMMA BeginHonest ==
  ASSUME Shapes, HonestInv, NEW f \in Fields, InTurn(f), Begin(f)
  PROVE  Beside(f) /\ Honest(f)' /\ KindsTrue'
<1>0. /\ pc[f] = "ready" /\ io[f] = "idle" /\ answer[f] = None
      /\ UNCHANGED <<rq, memo, forge, field, seen, io, reply, answer>>
      /\ Honest(f) /\ KindsTrue /\ Went(f) /\ Own(f) /\ field[f].op \in Ops
  BY BeginGoes DEF Begin, Moves, To, InTurn, HonestInv, Shapes, Jobs
<1>1. Beside(f)
  BY <1>0 DEF Beside, Widens, Undisturbed, Went, Own
<1>2. pc'[f] = FirstStep(field[f]) \/ (field[f].op = "runs" /\ pc'[f] = "window")
  BY <1>0 DEF Begin, To, Shapes
<1>3. /\ pc'[f] \in Path(field[f].op)
      /\ pc'[f] \notin {"create", "create_issue", "allow", "comment", "title", "base", "ready"}
      /\ pc'[f] = "patch" => field[f].op = "state"
  BY <1>0, <1>2 DEF FirstStep, Path, Ops
<1>4. /\ DOMAIN local'[f] = DOMAIN NoLocal
      /\ pc'[f] = "patch" => local'[f].change.base = None
  <2>1. {"change", "first", "began", "size", "page"} \subseteq DOMAIN local[f] /\ f \in DOMAIN local
        /\ DOMAIN local[f] = DOMAIN NoLocal
    BY <1>0 DEF Honest, NoLocal, Shapes
  <2>2. CASE \E size : Windowed(f, size) /\ field[f].op = "runs"
    BY <1>3, <2>1, <2>2 DEF Windowed
  <2>3. CASE local' = [local EXCEPT ![f].first = IF field[f].op = "list" THEN forge.list ELSE @,
                         ![f].change = IF field[f].op = "state"
                                       THEN [NoChange EXCEPT !.state = field[f].state] ELSE @,
                         ![f].began = forge.ver]
    <3>1. DOMAIN local'[f] = DOMAIN local[f]
      BY <2>1, <2>3
    <3>2. field[f].op = "state" => local'[f].change = [NoChange EXCEPT !.state = field[f].state]
      BY <2>1, <2>3
    <3>3. QED
      BY <1>3, <2>1, <3>1, <3>2 DEF NoChange
  <2>4. QED
    BY <2>2, <2>3 DEF Begin
<1>5. Honest(f)'
  BY <1>0, <1>3, <1>4 DEF Honest, Leaves, Looks, Fetched, Rests, Based, Back
<1>6. KindsTrue'
  <2>1. ASSUME NEW g \in Fields, Active(g)', Back(g)', Call(g)'.how = "memo"
        PROVE  Active(g) /\ Back(g) /\ Call(g)' = Call(g) /\ reply'[g] = reply[g]
    <3>1. g # f
      BY <1>0, <2>1 DEF Back
    <3>2. QED
      BY <1>1, <2>1, <3>1, CallKept DEF Beside, Widens, Undisturbed, Active, Back
  <2>2. QED
    BY <1>0, <2>1, KindsKept
<1>7. QED
  BY <1>1, <1>5, <1>6

(* A resolver goes on from its reply.  What it goes to rests on it.        *)
Onward(f) ==
    /\ DOMAIN local'[f] = DOMAIN NoLocal
    /\ \/ answer'[f] # None /\ pc'[f] = pc[f] /\ local'[f].change = local[f].change
       \/ /\ pc'[f] \in Path(field[f].op) \ {"ready", "repo"}
          /\ pc'[f] \in {"create", "create_issue"} => f \notin forge.made
          /\ pc'[f] = "allow" => f \in forge.made
          /\ pc'[f] = "comment" => (field[f].key = "issue") = forge.issue
          /\ pc'[f] = "base" => local'[f].change.base = field[f].base /\ field[f].base # None
          /\ pc'[f] = "title" => Noted(f, Key("pull"))
          /\ pc'[f] = "patch" => LET base == local'[f].change.base
                                 IN  \/ base \in {None, PullRead(f).base} \/ PullRead(f).state = "merged"
                                     \/ Noted(f, Key(base))

LEMMA OnwardHonest ==
  ASSUME Shapes, HonestInv, NEW f \in Fields, InTurn(f), Continue(f), Onward(f)
  PROVE  Beside(f) /\ Honest(f)' /\ KindsTrue'
<1>0. /\ Active(f) /\ UNCHANGED <<rq, memo, forge, field, seen>> /\ io'[f] = "idle"
      /\ \A g \in Fields \ {f} : io'[g] = io[g] /\ reply'[g] = reply[g]
      /\ Honest(f) /\ KindsTrue /\ Went(f) /\ Own(f) /\ Of(f)' = Of(f)
  BY ContinueGoes DEF Continue, Moves, Turn, Active, HonestInv, Shapes, Of
<1>1. Beside(f)
  BY <1>0 DEF Beside, Widens, Undisturbed, Went, Own
<1>2. ASSUME answer'[f] # None /\ pc'[f] = pc[f] /\ local'[f].change = local[f].change
      PROVE  Honest(f)'
  <2>1. ~Active(f)'
    BY <1>2 DEF Active
  <2>2. Leaves(f)' /\ Based(f)'
    BY <1>0, <1>2, <2>1 DEF Honest, Leaves, Based
  <2>3. Looks(f)' /\ Fetched(f)' /\ Rests(f)'
    BY <2>1 DEF Looks, Fetched, Rests
  <2>4. DOMAIN local'[f] = DOMAIN NoLocal /\ pc'[f] \in Path(field[f].op) /\ field' = field
    BY <1>0, <1>2 DEF Onward, Honest, Active
  <2>5. QED
    BY <2>2, <2>3, <2>4 DEF Honest
<1>3. ASSUME ~(answer'[f] # None /\ pc'[f] = pc[f] /\ local'[f].change = local[f].change)
      PROVE  Honest(f)'
  <2>1. Leaves(f)'
    BY <1>0, <1>3 DEF Onward, Leaves, Tells, Back
  <2>2. Looks(f)' /\ Fetched(f)' /\ Based(f)'
    BY <1>0, <1>3 DEF Onward, Looks, Fetched, Based, Back
  <2>3. \A key : Noted(f, key)' <=> Noted(f, key)
    BY <1>0 DEF Noted
  <2>4. PullRead(f)' = PullRead(f)
    BY <1>0 DEF PullRead, Key
  <2>5. Rests(f)'
    BY <1>0, <1>3, <2>3, <2>4 DEF Onward, Rests, Key
  <2>6. DOMAIN local'[f] = DOMAIN NoLocal /\ pc'[f] \in Path(field[f].op) /\ field' = field
    BY <1>0, <1>3 DEF Onward
  <2>7. QED
    BY <2>1, <2>2, <2>5, <2>6 DEF Honest
<1>4. Honest(f)'
  BY <1>2, <1>3
<1>5. KindsTrue'
  <2>1. ASSUME NEW g \in Fields, Active(g)', Back(g)', Call(g)'.how = "memo"
        PROVE  Active(g) /\ Back(g) /\ Call(g)' = Call(g) /\ reply'[g] = reply[g]
    <3>1. g # f
      BY <1>0, <2>1 DEF Back
    <3>2. QED
      BY <1>1, <2>1, <3>1, CallKept DEF Beside, Widens, Undisturbed, Active, Back
  <2>2. QED
    BY <1>0, <2>1, KindsKept
<1>6. QED
  BY <1>1, <1>4, <1>5

(* What is done with a reply.                                              *)
LEMMA EndOnward ==
  ASSUME Shapes, HonestInv, NEW f \in Fields, pc[f] # "ready", NEW how \in Ends, End(f, how), Keep(f)
  PROVE  Onward(f)
<1>1. answer'[f] = how /\ how # None /\ pc' = pc /\ local' = local
  BY SessionAssumption DEF End, Keep, Shapes
<1>2. QED
  BY <1>1 DEF Onward, HonestInv, Honest

LEMMA CreatesOnward ==
  ASSUME Shapes, HonestInv, NEW f \in Fields, Active(f), io[f] = "done",
         NamedRepository(f) \/ Created(f) \/ Allowed(f) \/ Commented(f)
  PROVE  Onward(f)
<1>0. /\ Honest(f) /\ KindsTrue /\ pc[f] # "ready" /\ pc[f] \in Path(field[f].op) /\ f \in DOMAIN pc /\ Keep(f)
      /\ Back(f) /\ Commentable /\ field[f].op \in Ops
  BY DEF HonestInv, Honest, Active, Shapes, Jobs, Back, NamedRepository, Created, Allowed, Commented
<1> forge.issue \in BOOLEAN
  BY DEF HonestInv
<1>1. \A how \in Ends : End(f, how) => Onward(f)
  BY <1>0, EndOnward
<1>2. ASSUME NEW step, To(f, step), step \in Path(field[f].op) \ {"ready", "repo", "base", "title", "patch"},
             step \in {"create", "create_issue"} => f \notin forge.made,
             step = "allow" => f \in forge.made,
             step = "comment" => (field[f].key = "issue") = forge.issue
      PROVE  Onward(f)
  <2>1. pc'[f] = step /\ DOMAIN local'[f] = DOMAIN NoLocal
    BY <1>0, <1>2 DEF To, Keep, Honest
  <2>2. QED
    BY <1>2, <2>1 DEF Onward
<1>3. CASE NamedRepository(f)
  <2>1. pc[f] = "repo" /\ f \notin forge.made /\ field[f].op \in {"create_issue", "create_pull"}
    BY <1>0, <1>3 DEF NamedRepository, Honest, Leaves, Path, Ops
  <2>2. CASE End(f, "failed")
    BY <1>1, <2>2 DEF Ends
  <2>3. CASE To(f, IF field[f].op = "create_issue" THEN "create_issue" ELSE "create")
    <3>1. (IF field[f].op = "create_issue" THEN "create_issue" ELSE "create") \in Path(field[f].op)
      BY <2>1 DEF Path
    <3>2. QED
      BY <1>2, <2>1, <2>3, <3>1
  <2>4. QED
    BY <1>3, <2>2, <2>3 DEF NamedRepository
<1>4. CASE Created(f)
  <2>1. CASE \E how \in {"failed", "done"} : End(f, how)
    BY <1>1, <2>1 DEF Ends
  <2>2. CASE ~Bad(f) /\ pc[f] = "create" /\ To(f, "allow")
    <3>1. f \in forge.made
      BY <1>0, <2>2 DEF Bad, Honest, Leaves, Tells
    <3>2. "allow" \in Path(field[f].op)
      BY <1>0, <2>2 DEF Path, Ops
    <3>3. QED
      BY <1>2, <2>2, <3>1, <3>2
  <2>3. QED
    BY <1>4, <2>1, <2>2 DEF Created
<1>5. CASE Allowed(f)
  BY <1>1, <1>5 DEF Allowed, Ends
<1>6. CASE Commented(f)
  <2>1. CASE \E how \in {"failed", "done"} : End(f, how)
    BY <1>1, <2>1 DEF Ends
  <2>2. CASE ~Bad(f) /\ pc[f] = "subject" /\ To(f, "comment")
    <3>1. field[f].op = "comment" /\ "comment" \in Path(field[f].op)
      BY <1>0, <2>2 DEF Path, Ops
    <3>2. field[f].key \in {"pull", "issue"}
      BY <1>0, <3>1 DEF Commentable, Shapes, Jobs
    <3>3. Call(f).how = "memo" /\ Call(f).key = Key(field[f].key)
      BY <2>2 DEF Call, Reads
    <3>4. Kind(Key(field[f].key), reply[f])
      BY <1>0, <3>3 DEF KindsTrue
    <3>5. (field[f].key = "issue") = forge.issue
      BY <2>2, <3>2, <3>4 DEF Kind, Bad, Key
    <3>6. QED
      BY <1>2, <2>2, <3>1, <3>5
  <2>3. QED
    BY <1>6, <2>1, <2>2 DEF Commented
<1>7. QED
  BY <1>3, <1>4, <1>5, <1>6

(* What a mutation was told of a key is in its cell.                       *)
LEMMA MutationTold ==
  ASSUME HonestInv, NEW f \in Fields, Active(f), io[f] = "done", ~Bad(f), Call(f).how = "memo",
         field[f].op \notin Queries
  PROVE  /\ Noted(f, Call(f).key)
         /\ Call(f).key = Key("pull") => PullRead(f) = Was(f).pull
BY DEF HonestInv, Honest, Fetched, Bad, Was, PullRead

LEMMA EditsOnward ==
  ASSUME Shapes, HonestInv, NEW f \in Fields, Active(f), io[f] = "done",
         Update(f) \/ Patch(f) \/ SetDraft(f) \/ DraftSet(f) \/ DeleteBranch(f)
  PROVE  Onward(f)
<1>0. /\ Honest(f) /\ pc[f] # "ready" /\ pc[f] \in Path(field[f].op) /\ field[f].op \in Ops
      /\ f \in DOMAIN pc /\ f \in DOMAIN local /\ "change" \in DOMAIN local[f]
      /\ DOMAIN local[f] = DOMAIN NoLocal
  BY DEF HonestInv, Honest, Active, Shapes, Jobs, NoLocal
<1>1. ASSUME NEW how \in Ends, End(f, how), Keep(f) PROVE Onward(f)
  BY <1>0, <1>1, EndOnward
<1>2. \A change : Put(f, change) => local'[f].change = change /\ DOMAIN local'[f] = DOMAIN NoLocal
  BY <1>0 DEF Put
<1>3. \A step : To(f, step) => pc'[f] = step
  BY <1>0 DEF To
<1>4. CASE Update(f)
  <2> DEFINE j == field[f]
             pull == Was(f).pull
             title == IF j.title = None THEN None
                      ELSE IF IsDraft(pull.title) THEN DraftTitle(j, j.title) ELSE j.title
             change == [title |-> title, state |-> j.state, base |-> j.base]
  <2>0. j.op = "update" /\ j.op \notin Queries /\ {"base", "patch"} \subseteq Path(j.op)
    BY <1>4 DEF Update, Queries, Path
  <2>1. change.base = j.base
    OBVIOUS
  <2>2. \/ \E how \in Ends : End(f, how) /\ Keep(f)
        \/ pc[f] = "pull" /\ ~Bad(f) /\ To(f, "base") /\ Put(f, change) /\ j.base # None
        \/ pc[f] = "pull" /\ ~Bad(f) /\ To(f, "patch") /\ Put(f, change)
             /\ (j.base = None \/ pull.state = "merged" \/ j.base = pull.base)
        \/ pc[f] = "base" /\ ~Bad(f) /\ To(f, "patch") /\ Keep(f)
    <3> HIDE DEF change
    <3>1. "failed" \in Ends
      BY DEF Ends
    <3>2. QED
      BY <1>4, <3>1 DEF Update, change
  <2> HIDE DEF change
  <2>3. CASE pc[f] = "pull" /\ ~Bad(f) /\ To(f, "base") /\ Put(f, change) /\ j.base # None
    BY <1>2, <1>3, <2>0, <2>1, <2>3 DEF Onward
  <2>4. CASE pc[f] = "pull" /\ ~Bad(f) /\ To(f, "patch") /\ Put(f, change)
               /\ (j.base = None \/ pull.state = "merged" \/ j.base = pull.base)
    <3>1. Call(f) = Reads(Key("pull"))
      BY <2>4 DEF Call
    <3>2. PullRead(f) = pull
      BY <2>0, <2>4, <3>1, MutationTold DEF Reads
    <3>3. pc'[f] = "patch" /\ local'[f].change = change /\ DOMAIN local'[f] = DOMAIN NoLocal
      BY <1>2, <1>3, <2>4
    <3>4. QED
      BY <2>0, <2>1, <2>4, <3>2, <3>3 DEF Onward
  <2>5. CASE pc[f] = "base" /\ ~Bad(f) /\ To(f, "patch") /\ Keep(f)
    <3>1. Call(f) = Reads(Key(j.base)) /\ local[f].change.base = j.base
      BY <1>0, <2>5 DEF Call, Honest, Based
    <3>2. Noted(f, Key(j.base))
      BY <2>0, <2>5, <3>1, MutationTold DEF Reads
    <3>3. pc'[f] = "patch" /\ local' = local
      BY <1>3, <2>5 DEF Keep
    <3>4. QED
      BY <1>0, <2>0, <3>1, <3>2, <3>3 DEF Onward
  <2>6. QED
    BY <1>1, <2>2, <2>3, <2>4, <2>5
<1>5. CASE Patch(f) \/ DraftSet(f)
  BY <1>1, <1>5 DEF Patch, DraftSet, Ends
<1>6. CASE SetDraft(f)
  <2>0. field[f].op \in {"draft", "ready"} /\ pc[f] = "pull"
    BY <1>6 DEF SetDraft
  <2>1. \/ \E how \in Ends : End(f, how) /\ Keep(f)
        \/ ~Bad(f) /\ To(f, "title") /\ (\E change : Put(f, change))
    <3>1. {"failed", "done"} \subseteq Ends
      BY DEF Ends
    <3>2. QED
      BY <1>6, <3>1, Zenon DEF SetDraft
  <2>2. CASE ~Bad(f) /\ To(f, "title") /\ (\E change : Put(f, change))
    <3>1. Call(f) = Reads(Key("pull"))
      BY <2>0 DEF Call
    <3>2. Noted(f, Key("pull"))
      BY <2>0, <2>2, <3>1, MutationTold DEF Reads, Queries
    <3>3. "title" \in Path(field[f].op)
      BY <2>0 DEF Path
    <3>4. pc'[f] = "title" /\ DOMAIN local'[f] = DOMAIN NoLocal
      BY <1>2, <1>3, <2>2
    <3>5. QED
      BY <3>2, <3>3, <3>4 DEF Onward
  <2>3. QED
    BY <1>1, <2>1, <2>2
<1>7. CASE DeleteBranch(f)
  <2>1. \/ \E how \in Ends : End(f, how) /\ Keep(f)
        \/ pc[f] = "look" /\ To(f, "delete") /\ Keep(f)
    BY <1>7 DEF DeleteBranch, Ends
  <2>2. CASE pc[f] = "look" /\ To(f, "delete") /\ Keep(f)
    <3>1. "delete" \in Path(field[f].op)
      BY <1>0, <2>2 DEF Path, Ops
    <3>2. pc'[f] = "delete" /\ local' = local
      BY <1>3, <2>2 DEF Keep
    <3>3. QED
      BY <1>0, <3>1, <3>2 DEF Onward
  <2>3. QED
    BY <1>1, <2>1, <2>2
<1>8. QED
  BY <1>4, <1>5, <1>6, <1>7

LEMMA QueriesOnward ==
  ASSUME Shapes, HonestInv, NEW f \in Fields, Active(f),
         Read(f) \/ Page(f) \/ Window(f) \/ Settings(f)
  PROVE  Onward(f)
<1>0. /\ Honest(f) /\ pc[f] # "ready" /\ pc[f] \in Path(field[f].op) /\ field[f].op \in Ops
      /\ f \in DOMAIN pc /\ f \in DOMAIN local /\ {"items", "page", "size", "change"} \subseteq DOMAIN local[f]
      /\ DOMAIN local[f] = DOMAIN NoLocal
  BY DEF HonestInv, Honest, Active, Shapes, Jobs, NoLocal
<1>1. DOMAIN local'[f] = DOMAIN NoLocal /\ local'[f].change = local[f].change
  <2>1. CASE Read(f)
    BY <1>0, <2>1 DEF Read, Keep
  <2>2. CASE Page(f)
    BY <1>0, <2>2 DEF Page, Keep
  <2>3. CASE Window(f)
    BY <1>0, <2>3 DEF Window, Keep
  <2>4. CASE Settings(f)
    BY <1>0, <2>4 DEF Settings, Windowed, Keep
  <2>5. QED
    BY <2>1, <2>2, <2>3, <2>4
<1>2. \/ \E how \in Ends : End(f, how)
      \/ pc[f] = "page" /\ To(f, "page")
      \/ pc[f] \in {"settings", "window"} /\ To(f, "window")
  BY DEF Read, Page, Window, Settings, Ends
<1>3. CASE \E how \in Ends : End(f, how)
  <2>1. answer'[f] # None /\ pc' = pc
    BY <1>3, SessionAssumption DEF End, Shapes
  <2>2. QED
    BY <1>1, <2>1 DEF Onward
<1>4. CASE \/ pc[f] = "page" /\ To(f, "page")
           \/ pc[f] \in {"settings", "window"} /\ To(f, "window")
  <2>1. pc'[f] \in {"page", "window"}
    BY <1>0, <1>4 DEF To
  <2>2. pc'[f] \in Path(field[f].op)
    BY <1>0, <1>4, <2>1 DEF Path, Ops
  <2>3. QED
    BY <1>1, <2>1, <2>2 DEF Onward
<1>5. QED
  BY <1>2, <1>3, <1>4

LEMMA ContinueHonest ==
  ASSUME Shapes, HonestInv, NEW f \in Fields, InTurn(f), Continue(f)
  PROVE  Beside(f) /\ Honest(f)' /\ KindsTrue'
<1>1. Active(f) /\ io[f] = "done"
  BY DEF Continue, Turn, Active
<1>2. Onward(f)
  BY <1>1, CreatesOnward, EditsOnward, QueriesOnward DEF Continue
<1>3. QED
  BY <1>2, OnwardHonest

(* The steps that are no resolver's own.                                   *)
LEMMA AroundHonest ==
  ASSUME HonestInv, \A g \in Fields : InTurn(g), Widens, UNCHANGED memo,
         \A g \in Fields : Undisturbed(g) /\ Steady(g)
  PROVE  HonestInv'
<1>1. \A g \in Fields : Honest(g)'
  BY KeptHonest DEF HonestInv
<1>2. KindsTrue'
  <2>1. ASSUME NEW g \in Fields, Active(g)', Back(g)', Call(g)'.how = "memo"
        PROVE  Active(g) /\ Back(g) /\ Call(g)' = Call(g) /\ reply'[g] = reply[g]
    BY <2>1, CallKept DEF Widens, Undisturbed, Active, Back
  <2>2. KindsTrue /\ field' = field /\ forge'.issue = forge.issue
    BY DEF HonestInv, Widens
  <2>3. QED
    BY <2>1, <2>2, KindsKept
<1>3. QED
  BY <1>1, <1>2 DEF HonestInv, Commentable, Widens

LEMMA ApartHonest ==
  ASSUME HonestInv, \A g \in Fields : InTurn(g) /\ Of(g) \in Requests, Apart
  PROVE  HonestInv'
<1>1. \A g \in Fields : Undisturbed(g) /\ Steady(g)
  BY DEF Undisturbed, Steady, Apart
<1>2. Widens /\ UNCHANGED memo
  BY DEF Widens, Apart
<1>3. QED
  BY <1>1, <1>2, AroundHonest

LEMMA MeddleHonest ==
  ASSUME HonestInv, \A g \in Fields : InTurn(g), Meddle
  PROVE  HonestInv'
<1>0. {"ver", "issue", "made", "noted", "branches", "pull"} \subseteq DOMAIN forge
  BY DEF HonestInv
<1>1. \A after \in Edited \union Listed :
        DOMAIN after = DOMAIN forge /\ after.issue = forge.issue /\ after.made = forge.made
        /\ after.noted = forge.noted
  BY <1>0 DEF Edited, Listed
<1>2. PICK after \in Edited \union Listed : forge' = [after EXCEPT !.ver = forge.ver + 1]
  BY DEF Meddle
<1>3. /\ DOMAIN forge' = DOMAIN forge /\ forge'.issue = forge.issue /\ forge'.made = forge.made
      /\ forge'.noted = forge.noted
  BY <1>0, <1>1, <1>2
<1>4. UNCHANGED <<rq, memo, field, pc, io, reply, local, answer, seen>>
  BY DEF Meddle
<1>5. \A g \in Fields : Undisturbed(g) /\ Steady(g)
  BY <1>3, <1>4 DEF Undisturbed, Steady
<1>6. QED
  BY <1>3, <1>4, <1>5, AroundHonest DEF Widens

LEMMA DropHonest ==
  ASSUME Shapes, HonestInv, NEW f \in Fields, Drop(f)
  PROVE  Beside(f) /\ Honest(f)' /\ KindsTrue'
<1>0. /\ Active(f) /\ Honest(f) /\ KindsTrue /\ Of(f) \in Requests
      /\ UNCHANGED <<rq, forge, field, pc, io, reply, local, seen>>
  BY Owners DEF Drop, Turn, Active, HonestInv
<1>1. answer'[f] # None /\ \A g \in Fields \ {f} : answer'[g] = answer[g]
  BY SessionAssumption DEF Drop, Shapes, Ends
<1>2. /\ \A q \in Requests \ {Of(f)} : memo'[q] = memo[q]
      /\ DOMAIN memo'[Of(f)] \subseteq DOMAIN memo[Of(f)]
      /\ \A k \in DOMAIN memo'[Of(f)] : memo'[Of(f)][k] = memo[Of(f)][k]
  BY <1>0 DEF Drop, Shapes
<1>3. Beside(f)
  BY <1>0, <1>1, <1>2 DEF Beside, Widens, Undisturbed
<1>4. ~Active(f)'
  BY <1>1 DEF Active
<1>5. Honest(f)'
  <2>1. Leaves(f)' /\ Based(f)'
    BY <1>0, <1>4 DEF Honest, Leaves, Based
  <2>2. Looks(f)' /\ Fetched(f)' /\ Rests(f)'
    BY <1>4 DEF Looks, Fetched, Rests
  <2>3. QED
    BY <1>0, <2>1, <2>2 DEF Honest
<1>6. KindsTrue'
  <2>1. ASSUME NEW g \in Fields, Active(g)', Back(g)', Call(g)'.how = "memo"
        PROVE  Active(g) /\ Back(g) /\ Call(g)' = Call(g) /\ reply'[g] = reply[g]
    <3>1. g # f
      BY <1>4, <2>1
    <3>2. QED
      BY <1>0, <1>1, <2>1, <3>1, CallKept DEF Active, Back
  <2>2. \A q \in Requests : \A k \in DOMAIN memo'[q] : k \in DOMAIN memo[q] /\ memo'[q][k] = memo[q][k]
    BY <1>2
  <2>3. QED
    BY <1>0, <2>1, <2>2, KindsKept
<1>7. QED
  BY <1>3, <1>5, <1>6

LEMMA HonestStart == ASSUME Init PROVE HonestInv
<1>1. /\ \A f \in Fields : pc[f] = "ready" /\ io[f] = "idle" /\ local[f] = NoLocal
      /\ \A r \in Requests : memo[r] = NoMemo
      /\ forge.made = {} /\ Commentable
  BY DEF Init, InitSession, Repositories
<1>2. {"ver", "issue", "made", "noted", "branches", "pull"} \subseteq DOMAIN forge /\ forge.issue \in BOOLEAN
  BY DEF Init, Repositories
<1>3. KindsTrue
  BY <1>1 DEF KindsTrue, NoMemo, Active
<1>4. \A f \in Fields : Honest(f)
  BY <1>1 DEF Honest, Leaves, Looks, Fetched, Rests, Based, Active
<1>5. QED
  BY <1>1, <1>2, <1>3, <1>4 DEF HonestInv

LEMMA HonestStep ==
  ASSUME IInv, HonestInv, [Next]_vars
  PROVE  HonestInv'
<1>0. /\ Shapes /\ Document /\ \A g \in Fields : InTurn(g) /\ Of(g) \in Requests
  BY Owners DEF IInv
<1>1. ASSUME NEW f \in Fields, Beside(f), Honest(f)', KindsTrue' PROVE HonestInv'
  BY <1>0, <1>1, BesideHonest
<1>2. ASSUME NEW r \in Requests, Authenticate(r) \/ Identify(r) \/ Identified(r) \/ NotIdentified(r)
      PROVE  HonestInv'
  <2>1. Apart
    BY <1>0, <1>2, BeforeApart DEF IInv, Sound
  <2>2. QED
    BY <1>0, <2>1, ApartHonest
<1>3. CASE Tick \/ Rename
  BY <1>0, <1>3, TimeApart, ApartHonest
<1>4. ASSUME NEW f \in Fields, Begin(f) \/ Continue(f) PROVE HonestInv'
  BY <1>0, <1>1, <1>4, BeginHonest, ContinueHonest
<1>5. ASSUME NEW f \in Fields, pc[f] # "ready",
             Ask(f, Call(f)) \/ Receive(f, Call(f)) \/ Break(f, Call(f)) \/ Serve(f)
      PROVE  HonestInv'
  <2>1. Replied(f)
    BY <1>0 DEF IInv
  <2>2. QED
    BY <1>0, <1>1, <1>5, <2>1, AskHonest, ReceiveHonest, BreakHonest, ServeHonest
<1>6. ASSUME NEW f \in Fields, Drop(f) PROVE HonestInv'
  BY <1>0, <1>1, <1>6, DropHonest
<1>7. CASE Meddle
  BY <1>0, <1>7, MeddleHonest
<1>8. CASE UNCHANGED vars
  <2>1. Apart
    BY <1>8 DEF vars, Apart
  <2>2. QED
    BY <1>0, <2>1, ApartHonest
<1>9. QED
  BY <1>2, <1>3, <1>4, <1>5, <1>6, <1>7, <1>8 DEF Next, FieldStep

(* Whoever answers goes on from a reply, or is dropped from a query.       *)
LEMMA Answering ==
  ASSUME Shapes, NEW f \in Fields, Next, answer'[f] # answer[f]
  PROVE  Continue(f) \/ Drop(f)
<1>1. ASSUME NEW g \in Fields, Continue(g), g # f PROVE FALSE
  <2>1. \/ answer' = answer
        \/ \E how : answer' = [answer EXCEPT ![g] = how]
    BY <1>1, Zenon DEF Continue, NamedRepository, Created, Allowed, Commented, Update, Patch, SetDraft,
                DraftSet, DeleteBranch, Read, Page, Window, Settings, To, End
  <2>2. QED
    BY <1>1, <2>1 DEF Shapes
<1>2. ASSUME NEW g \in Fields, Drop(g), g # f PROVE FALSE
  BY <1>2 DEF Drop, Shapes
<1>3. ASSUME NEW g \in Fields, Begin(g) \/ Ask(g, Call(g)) \/ Receive(g, Call(g)) \/ Break(g, Call(g)) \/ Serve(g)
      PROVE  FALSE
  BY <1>3 DEF Begin, To, Ask, Receive, Break, Rest, Serve, Handle
<1>4. ~(Tick \/ Rename \/ Meddle)
  BY DEF Tick, Rename, Meddle, Hold
<1>5. \A r \in Requests : ~(Authenticate(r) \/ Identify(r) \/ Identified(r) \/ NotIdentified(r))
  BY DEF Authenticate, Identify, Identified, NotIdentified, Hold
<1>6. QED
  BY <1>1, <1>2, <1>3, <1>4, <1>5 DEF Next, FieldStep

LEMMA AnswersHonest ==
  ASSUME Shapes, HonestInv, NEW f \in Fields, Continue(f), answer'[f] # answer[f]
  PROVE  Says(f)
<1>0. /\ Active(f) /\ io[f] = "done" /\ Back(f) /\ Honest(f) /\ pc[f] \in Path(field[f].op)
      /\ field[f].op \in Ops
  BY DEF Continue, Turn, Active, Back, HonestInv, Honest, Shapes, Jobs
<1>1. \A how : End(f, how) => answer'[f] = how
  BY DEF End, Shapes
<1>2. \A step : To(f, step) => FALSE
  BY DEF To
<1>3. CASE field[f].op \in {"create_issue", "create_pull"}
  <2>1. pc[f] \in {"repo", "create", "create_issue", "allow"}
    BY <1>0, <1>3 DEF Path
  <2>2. NamedRepository(f) \/ Created(f) \/ Allowed(f)
    BY <1>3, <2>1 DEF Continue, Commented, Update, Patch, SetDraft, DraftSet, DeleteBranch, Read, Page,
                      Window, Settings
  <2>3. CASE NamedRepository(f)
    <3>1. answer'[f] = "failed" /\ f \notin forge.made
      BY <1>0, <1>1, <1>2, <2>3 DEF NamedRepository, Honest, Leaves
    <3>2. QED
      BY <1>3, <3>1 DEF Says
  <2>4. CASE Created(f)
    <3>1. /\ answer'[f] = IF Bad(f) THEN "failed" ELSE "done"
          /\ Tells(f, f \in forge.made)
      BY <1>0, <1>1, <1>2, <2>4 DEF Created, Honest, Leaves
    <3>2. QED
      BY <1>0, <1>3, <3>1 DEF Says, Tells, Bad
  <2>5. CASE Allowed(f)
    <3>1. answer'[f] \in {"noted", "done"} /\ f \in forge.made
      BY <1>0, <1>1, <2>5 DEF Allowed, Honest, Leaves
    <3>2. QED
      BY <1>3, <3>1 DEF Says
  <2>6. QED
    BY <2>2, <2>3, <2>4, <2>5
<1>4. CASE field[f].op = "comment"
  <2>1. pc[f] \in {"subject", "comment"}
    BY <1>0, <1>4 DEF Path
  <2>2. Commented(f)
    BY <1>4, <2>1 DEF Continue, NamedRepository, Created, Allowed, Update, Patch, SetDraft, DraftSet,
                      DeleteBranch, Read, Page, Window, Settings
  <2>3. answer'[f] = "done" => pc[f] = "comment" /\ ~Bad(f)
    BY <1>1, <1>2, <2>2 DEF Commented
  <2>4. QED
    BY <1>0, <1>4, <2>3 DEF Says, Honest, Leaves, Bad
<1>5. CASE field[f].op = "delete"
  <2>1. pc[f] \in {"look", "delete"}
    BY <1>0, <1>5 DEF Path
  <2>2. DeleteBranch(f)
    BY <1>5, <2>1 DEF Continue, NamedRepository, Created, Allowed, Commented, Update, Patch, SetDraft,
                      DraftSet, Read, Page, Window, Settings
  <2>3. answer'[f] = "gone" => pc[f] = "look" /\ reply[f].status = "not_found"
    BY <1>1, <1>2, <2>2 DEF DeleteBranch
  <2>4. QED
    BY <1>0, <1>5, <2>3 DEF Says, Honest, Looks, Was
<1>6. CASE field[f].op \in {"draft", "ready"}
  <2>1. pc[f] \in {"pull", "title"}
    BY <1>0, <1>6 DEF Path
  <2>2. SetDraft(f) \/ DraftSet(f)
    BY <1>6, <2>1 DEF Continue, NamedRepository, Created, Allowed, Commented, Update, Patch,
                      DeleteBranch, Read, Page, Window, Settings
  <2>3. answer'[f] = "done" => IsDraft(Was(f).pull.title) = (field[f].op = "draft")
    <3>1. CASE SetDraft(f)
      BY <1>1, <1>2, <3>1 DEF SetDraft
    <3>2. CASE DraftSet(f)
      BY <1>1, <3>2 DEF DraftSet
    <3>3. QED
      BY <2>2, <3>1, <3>2
  <2>4. QED
    BY <1>6, <2>3 DEF Says
<1>7. QED
  BY <1>3, <1>4, <1>5, <1>6 DEF Says

LEMMA WritesFollow ==
  ASSUME Shapes, Sound, HonestInv, NEW f \in Fields, Next, Wrote(f)
  PROVE  Follows(f)
<1>1. Serve(f)
  <2>1. ASSUME NEW g \in Fields, FieldStep(g) \/ Drop(g) PROVE FALSE
    BY <2>1 DEF FieldStep, Begin, Continue, Moves, Ask, Receive, Break, Rest, Drop, Wrote
  <2>2. ~(Tick \/ Rename \/ Meddle)
    BY DEF Tick, Rename, Meddle, Hold, Wrote
  <2>3. \A r \in Requests : ~(Authenticate(r) \/ Identify(r) \/ Identified(r) \/ NotIdentified(r))
    BY DEF Authenticate, Identify, Identified, NotIdentified, Hold, Wrote
  <2>4. PICK g \in Fields : pc[g] # "ready" /\ Serve(g)
    BY <2>1, <2>2, <2>3 DEF Next
  <2>5. io' = [io EXCEPT ![g] = "back"]
    BY <2>4 DEF Serve, Handle
  <2>6. QED
    BY <2>4, <2>5 DEF Wrote, Shapes
<1>2. Active(f) /\ io[f] = "sent"
  BY <1>1 DEF Serve, Handle, Turn, Active
<1>3. Honest(f) /\ Told(f) /\ Filled(Of(f)) /\ Of(f) \in Requests
  BY Owners DEF HonestInv, Sound
<1>4. \A key : Noted(f, key) => Saw(f, key)
  BY <1>3 DEF Noted, Saw, Told, Filled
<1>5. QED
  BY <1>2, <1>3, <1>4 DEF Follows, Honest, Rests

(* The gateway says of a write what is so, and writes what it has read: a  *)
(* title since the request's own last write, a new base once it saw that   *)
(* branch; whatever the documents, and however many requests edit one      *)
(* pull request.                                                           *)
THEOREM HonestEdits == Spec => EditsHonest
<1>1. Init => HonestInv
  BY HonestStart
<1>2. IInv /\ HonestInv /\ [Next]_vars => HonestInv'
  BY HonestStep
<1>3. IInv /\ HonestInv /\ [Next]_vars
        => [\A f \in Fields : (answer'[f] # answer[f] => Says(f)) /\ (Wrote(f) => Follows(f))]_vars
  <2> SUFFICES ASSUME IInv, HonestInv, Next, NEW f \in Fields
               PROVE  (answer'[f] # answer[f] => Says(f)) /\ (Wrote(f) => Follows(f))
    OBVIOUS
  <2>0. Shapes /\ Sound
    BY DEF IInv, Sound
  <2>1. ASSUME answer'[f] # answer[f] PROVE Says(f)
    <3>1. CASE Continue(f)
      BY <2>0, <2>1, <3>1, AnswersHonest
    <3>2. CASE Drop(f)
      <4>1. field[f].op = "read"
        BY <3>2 DEF Drop
      <4>2. QED
        BY <4>1 DEF Says
    <3>3. QED
      BY <2>0, <2>1, <3>1, <3>2, Answering
  <2>2. ASSUME Wrote(f) PROVE Follows(f)
    BY <2>0, <2>2, WritesFollow
  <2>3. QED
    BY <2>1, <2>2
<1>4. QED
  BY <1>1, <1>2, <1>3, SessionKept, PTL DEF Spec, EditsHonest
=============================================================================
