---------------------------- MODULE SessionCache ----------------------------
(***************************************************************************)
(* The local model of a recording run: the KV cache it keeps from one call *)
(* to the next, under an eviction policy or none, and the recordings of    *)
(* the attempts that take turns on it                                      *)
(* (src/src/serving/recording/backend_hf.py and hooks.py, the policies of  *)
(* src/src/serving/kv_policies, and their use by run_attempt).             *)
(*                                                                         *)
(* A call runs in a thread of its own.  chat() takes the lock without      *)
(* waiting, so a call beside another is refused and changes nothing;       *)
(* start_attempt and finish_attempt take no lock.  A token is known by the *)
(* call that first said it, and whether the prompt or the model did.       *)
(***************************************************************************)
EXTENDS Integers, Sequences, FiniteSets, SequencesExt, FiniteSetsExt

CONSTANTS
  Setups,      \* of a run: policy, budget, sink, recent, sample, layers; and
               \* its bounds: attempts, made calls, strays among them, and the
               \* text of a prompt with its answer
  MaxFailed    \* bound of the failures

\* What the constructors of the policies check of their configuration.  H2O is
\* shown every row of the attention to a prompt (prefill_mode "full", sample = 0), or
\* a sample of at most max_prefill_queries of them ("sampled").
WellConfigured(s) ==
  /\ s.policy \in {"off", "none", "streaming", "random", "h2o"}
  /\ s.budget \in Nat /\ s.sink \in Nat /\ s.recent \in Nat /\ s.sample \in Nat
  /\ s.policy = "streaming" => s.budget = s.sink + s.recent
  /\ s.policy = "h2o" => s.budget >= s.sink + s.recent

ASSUME CacheAssumption ==
  /\ \A s \in Setups :
       /\ WellConfigured(s)
       /\ s.layers \in Nat \ {0} /\ s.attempts \in Nat \ {0}
       /\ s.made \in Nat /\ s.strays \in Nat /\ s.text \in Nat
  /\ MaxFailed \in Nat

VARIABLES
  setup,
  stage,       \* where run_attempt is
  attempt,
  chat,        \* the call that holds _chat_lock
  calls,       \* _call_idx
  made,        \* the calls so far
  stray,       \* those outside the run of an agent
  failed,      \* the failures so far
  talk,        \* the agent: its last prompt and the answer
  built,       \* _session_cache is not None
  ids,         \* _session_token_ids
  kv,          \* the slots of a layer: position and token
  mass,        \* H2O: the slot whose attention a score accumulates
  pend,        \* _pending_prefill_evictions: pre_len, or 0
  attemptDir,  \* _attempt_dir, or 0
  meta,        \* _meta["iters"]
  files,       \* disk: the recordings with .done, by attempt and call_idx
  saved,       \* disk: the meta.json files, with their iters
  fed,         \* history: what was put into the cache, in order
  torn,        \* history: a call failed on this cache
  strayed      \* history: the attempts whose start or end a call overlapped
               \* that began after they had waited for the lock

cacheVars == <<setup, stage, attempt, chat, calls, made, stray, failed, talk, built,
               ids, kv, mass, pend, attemptDir, meta, files, saved, fed, torn, strayed>>

cache == <<built, ids, kv, mass, pend, fed, torn>>
pipeline == <<stage, attempt, attemptDir, strayed, saved, setup, stray>>

Attempts == 1..setup.attempts
Layers == 1..setup.layers
Plain == setup.policy = "none"
NoMass == <<0, 0>>    \* a slot compacted before it was scored
Mixed == <<0, 1>>     \* a score of two slots
Idle == [at |-> "free", idx |-> 0, prompt |-> <<>>, delta |-> <<>>, size |-> 0,
         forwards |-> 0, own |-> FALSE, home |-> 0, late |-> FALSE]

Said(c) == 2 * c          \* a token of the prompt of call c
Generated(c) == 2 * c + 1  \* a token call c generated
Answer == [i \in 1..chat.size |-> Generated(made)]

CacheInit ==
  /\ setup \in Setups /\ stage = "wait" /\ attempt = 1
  /\ chat = Idle /\ calls = 0 /\ made = 0 /\ stray = 0 /\ failed = 0 /\ talk = <<>>
  /\ built = FALSE /\ ids = <<>> /\ fed = <<>> /\ torn = FALSE
  /\ kv = [l \in Layers |-> <<>>] /\ mass = kv /\ pend = [l \in Layers |-> 0]
  /\ attemptDir = 0 /\ meta = <<>> /\ strayed = {}
  /\ files = [a \in Attempts |-> {}] /\ saved = {}

Fault == failed < MaxFailed /\ failed' = failed + 1

\* A call that raises gives the lock back; the client may send it again.
Raise(tear) ==
  /\ chat' = Idle /\ talk' = chat.prompt /\ torn' = (torn \/ tear)
  /\ UNCHANGED <<calls, made, ids, built, meta, pipeline, files>>

-----------------------------------------------------------------------------
(* HFRecordingProvider.chat, up to the generation.                         *)

\* The prompt is the conversation so far, or the start of it, and new words.
Prompts ==
  {p \in {SubSeq(talk, 1, n) \o [i \in 1..new |-> Said(made + 1)] :
            n \in {i \in 0..Len(talk) : i = 0 \/ i >= Len(talk) - 2}, new \in 0..2} :
     Len(p) \in 1..setup.text}

Chat ==
  /\ chat.at = "free" /\ made < setup.made /\ stage \notin {"over", "closed"}
  /\ \E p \in Prompts : \E size \in 1..2 :
       /\ Len(p) + size <= setup.text
       /\ chat' = [Idle EXCEPT !.at = "called", !.idx = calls, !.prompt = p,
                              !.size = size, !.late = stage \in {"ready", "collect"}]
  /\ calls' = calls + 1 /\ made' = made + 1
  /\ IF stage = "run" THEN stray' = stray ELSE stray < setup.strays /\ stray' = stray + 1
  /\ UNCHANGED <<setup, stage, attempt, attemptDir, strayed, saved, cache, failed, talk,
                 meta, files>>

Prepared(delta, own) ==
  /\ chat' = [chat EXCEPT !.at = "prepared", !.delta = delta, !.own = own]
  /\ UNCHANGED <<pipeline, calls, made, failed, talk, meta, files>>

\* _drop_session_cache.
Dropped ==
  /\ kv' = [l \in Layers |-> <<>>] /\ mass' = kv' /\ pend' = [l \in Layers |-> 0]
  /\ fed' = <<>> /\ torn' = FALSE

InStep == Plain => Len(ids) = Len(kv[1])   \* get_seq_length(0)

\* _prepare_session_cache: no cache; a new one; only what follows the tokens
\* it has; or, when the prompt does not start with those, another new one.
NoCache ==
  /\ chat.at = "called" /\ setup.policy = "off"
  /\ Prepared(chat.prompt, FALSE) /\ UNCHANGED cache

Continues == IsStrictPrefix(ids, chat.prompt)

Build ==
  /\ chat.at = "called" /\ setup.policy # "off"
  /\ built => InStep /\ ~Continues
  /\ Dropped /\ built' = TRUE /\ ids' = chat.prompt
  /\ Prepared(chat.prompt, TRUE)

Extend ==
  /\ chat.at = "called" /\ built /\ InStep /\ Continues
  /\ Prepared(SubSeq(chat.prompt, Len(ids) + 1, Len(chat.prompt)), TRUE)
  /\ UNCHANGED cache

\* The assertion that guards the plain cache, before anything else.
OutOfStep ==
  /\ chat.at = "called" /\ built /\ ~InStep
  /\ Raise(FALSE) /\ UNCHANGED <<kv, mass, pend, fed, failed>>

\* run_generate: the cache must still be there, and recording_session needs
\* an attempt.
CanBegin == attemptDir # 0 /\ (built \/ setup.policy = "off")

BeginGenerate ==
  /\ chat.at = "prepared" /\ CanBegin
  /\ chat' = [chat EXCEPT !.at = "generate", !.home = attemptDir]
  /\ UNCHANGED <<pipeline, cache, calls, made, failed, talk, meta, files>>

CannotBegin ==
  /\ chat.at = "prepared" /\ ~CanBegin
  /\ Raise(built) /\ UNCHANGED <<kv, mass, pend, fed, failed>>

-----------------------------------------------------------------------------
(* model.generate: a forward pass over the layers for the prompt, and one  *)
(* for every generated token but the last.                                 *)

First == chat.forwards = 0
Text == chat.prompt \o Answer

\* Mutant: the positions are counted from the slots the cache has left.
BaseOfTheSlots == Len(kv[1])

\* cache_position counts from the length of the conversation, not of the cache.
Base == IF First THEN Len(chat.prompt) - Len(chat.delta)
        ELSE Len(chat.prompt) + chat.forwards - 1
Input == IF First THEN chat.delta ELSE <<Generated(made)>>
Fresh == [i \in 1..Len(Input) |-> <<Base + i, Input[i]>>]

\* _decide_evict: the slots a policy keeps of n, "scored" of which H2O has scores for.
Sinks == 1..setup.sink
Recents(n) == (n - setup.recent + 1)..n
Middle(n) == (setup.sink + 1)..(n - setup.recent)
Heavy == setup.budget - setup.sink - setup.recent
Spread(n) == {setup.sink + 1 + i * Max({1, Cardinality(Middle(n)) \div Heavy}) :
                i \in 0..(Heavy - 1)} \cap Middle(n)
Unscored(n, scored) ==
  setup.policy = "h2o" /\ n > setup.budget /\ scored < n - setup.recent

Keeps(n, scored) ==
  IF Plain \/ n <= setup.budget THEN {1..n}
  ELSE CASE setup.policy = "random" -> kSubset(setup.budget, 1..n)
         [] setup.policy = "streaming" -> {Sinks \cup Recents(n)}
         [] Unscored(n, scored) -> {Sinks \cup Spread(n) \cup Recents(n)}
         [] OTHER -> {Sinks \cup top \cup Recents(n) : top \in kSubset(Heavy, Middle(n))}

\* _physically_drop, and _post_evict_hook for the scores: what is kept moves up.
Nth(keep, n) == CHOOSE i \in keep : Cardinality({j \in keep : j <= i}) = n
Pick(s, keep) == [n \in 1..Cardinality(keep) |-> s[Nth(keep, n)]]
Compact(m, keep) ==
  [n \in 1..Cardinality(keep) |->
     IF Nth(keep, n) <= Len(m) THEN m[Nth(keep, n)] ELSE NoMass]
Evicted(slots, scores, keep) ==
  [kv |-> Pick(slots, keep), pend |-> 0,
   mass |-> IF scores = <<>> \/ keep = 1..Len(slots) THEN scores
            ELSE Compact(scores, keep)]

\* BaseEvictionCache.update.  H2O puts off a prompt it has no scores for.
Updates(l) ==
  LET slots == kv[l] \o Fresh
  IN IF First /\ Unscored(Len(slots), Len(mass[l]))
     THEN {[kv |-> slots, mass |-> mass[l], pend |-> Len(slots)]}
     ELSE {[Evicted(slots, mass[l], keep) EXCEPT !.pend = pend[l]] :
             keep \in Keeps(Len(slots), Len(mass[l]))}

\* H2OCache.observe: the attention to slot i is added to score i.
Scored(slots, scores) ==
  [i \in 1..Max({Len(slots), Len(scores)}) |->
     CASE i > Len(slots) -> scores[i]
       [] i > Len(scores) -> slots[i]
       [] OTHER -> IF scores[i] \in {NoMass, slots[i]} THEN slots[i] ELSE Mixed]

\* The hooks tell a prompt from a generated token by the slots that are left, not
\* by the passes, as update does.  What was put off is decided with a prompt whose
\* last row is shown, and must then be about the slots there are.  A sample of the
\* rows, the same for every layer, may leave out the last one.
LastShown == IF setup.sample \in 1..(Len(Input) - 1) THEN BOOLEAN ELSE {TRUE}
SeenAsPrompt(slots) == Len(Input) # 1 \/ Len(slots) <= Len(chat.prompt)
Due(u, shown) == shown /\ u.pend # 0 /\ SeenAsPrompt(u.kv)
Mismatched(u, shown) == Due(u, shown) /\ u.pend # Len(u.kv)

Observe(u, shown) ==
  LET scores == Scored(u.kv, u.mass)
  IN IF Due(u, shown)
     THEN {Evicted(u.kv, scores, keep) : keep \in Keeps(Len(u.kv), Len(scores))}
     ELSE {[u EXCEPT !.mass = scores]}

Passes(l, shown) ==
  IF setup.policy # "h2o" THEN Updates(l)
  ELSE UNION {Observe(u, shown) : u \in {v \in Updates(l) : ~Mismatched(v, shown)}}

\* What a layer may be left with when the pass ends in an exception.
Unpassed(l) == [kv |-> kv[l], mass |-> mass[l], pend |-> pend[l]]
Raises(l, shown) ==
  {[u EXCEPT !.mass = Scored(u.kv, u.mass), !.pend = 0] :
     u \in {v \in Updates(l) : setup.policy = "h2o" /\ Mismatched(v, shown)}}
Breaks(l) == {Unpassed(l)} \cup Updates(l)

Becomes(r) ==
  /\ kv' = [l \in Layers |-> r[l].kv]
  /\ mass' = [l \in Layers |-> r[l].mass]
  /\ pend' = [l \in Layers |-> r[l].pend]
  /\ fed' = fed \o Fresh

AllPass(shown) ==
  {r \in [Layers -> UNION {Passes(l, shown) : l \in Layers}] :
     \A l \in Layers : r[l] \in Passes(l, shown)}

Generating == chat.at = "generate" /\ chat.forwards < chat.size

\* A cache that was dropped meanwhile is the call's own, for nobody to see.
Forward ==
  /\ Generating
  /\ \/ chat.own /\ \E shown \in LastShown : \E r \in AllPass(shown) : Becomes(r)
     \/ ~chat.own /\ UNCHANGED <<kv, mass, pend, fed>>
  /\ chat' = [chat EXCEPT !.forwards = @ + 1]
  /\ UNCHANGED <<pipeline, calls, made, failed, talk, built, ids, torn, meta, files>>

PassesUntil(at, ways, shown) ==
  \E r \in [Layers -> ways \cup UNION {Passes(l, shown) \cup {Unpassed(l)} :
                                      l \in Layers}] :
    /\ r[at] \in ways
    /\ \A l \in Layers : /\ l < at => r[l] \in Passes(l, shown)
                         /\ l > at => r[l] = Unpassed(l)
    /\ Becomes(r)

\* Memory runs out in one of the layers; a cache that a failure has left with
\* uneven layers may not fit the mask; and what was put off may not match.
ForwardFails ==
  /\ Generating /\ Raise(chat.own)
  /\ \/ ~chat.own /\ Fault /\ UNCHANGED <<kv, mass, pend, fed>>
     \/ /\ chat.own /\ (Fault \/ (torn /\ UNCHANGED failed))
        /\ \E at \in Layers, shown \in LastShown : PassesUntil(at, Breaks(at), shown)
     \/ /\ chat.own /\ UNCHANGED failed
        /\ \E at \in Layers, shown \in LastShown :
             PassesUntil(at, Raises(at, shown), shown)

-----------------------------------------------------------------------------
(* LayerCapturer.flush and _extend_session_tokens.                         *)

Flush ==
  /\ chat.at = "generate" /\ chat.forwards = chat.size
  /\ chat.idx \notin files[chat.home]
  /\ files' = [files EXCEPT ![chat.home] = @ \cup {chat.idx}]
  /\ chat' = [chat EXCEPT !.at = "written"]
  /\ UNCHANGED <<pipeline, cache, calls, made, failed, talk, meta>>

FlushFails ==
  /\ chat.at = "generate" /\ chat.forwards = chat.size
  /\ \/ chat.idx \in files[chat.home] /\ UNCHANGED failed
     \/ Fault
  /\ Raise(chat.own) /\ UNCHANGED <<kv, mass, pend, fed>>

\* The last generated token is in no cache; with a policy it counts all the same.
Note ==
  /\ chat.at = "written"
  /\ meta' = Append(meta, [idx |-> chat.idx, home |-> chat.home])
  /\ ids' = IF ~built THEN ids
            ELSE IF Plain THEN SubSeq(Text, 1, Min({Len(kv[1]), Len(Text)})) ELSE Text
  /\ chat' = Idle /\ talk' = Text
  /\ UNCHANGED <<pipeline, calls, made, failed, built, kv, mass, pend, fed, torn, files>>

-----------------------------------------------------------------------------
(* run_attempt.                                                            *)

PipeFrame == UNCHANGED <<setup, calls, made, stray, failed, talk, files>>

\* Mutant: run_attempt goes on without waiting for the provider.
AwaitNobody ==
  /\ stage \in {"wait", "wait again"}
  /\ stage' = IF stage = "wait" THEN "ready" ELSE "collect"
  /\ UNCHANGED <<attempt, chat, cache, attemptDir, meta, saved, strayed>> /\ PipeFrame

\* wait_until_idle takes the lock and gives it back.
AwaitIdle ==
  /\ stage \in {"wait", "wait again"} /\ chat.at = "free"
  /\ stage' = IF stage = "wait" THEN "ready" ELSE "collect"
  /\ UNCHANGED <<attempt, chat, cache, attemptDir, meta, saved, strayed>> /\ PipeFrame

NextAttempt ==
  IF attempt < setup.attempts THEN attempt' = attempt + 1 /\ stage' = "wait"
  ELSE attempt' = attempt /\ stage' = "over"

\* The disk is full, or there is no image.
PreflightFails ==
  /\ stage = "ready" /\ NextAttempt
  /\ UNCHANGED <<chat, cache, attemptDir, meta, saved, strayed>> /\ PipeFrame

Overlapped == chat.at # "free" /\ chat.late

\* start_attempt, and the end of the provider, drop the cache.
Forgets ==
  /\ Dropped /\ built' = FALSE /\ ids' = <<>>
  /\ chat' = [chat EXCEPT !.own = FALSE]

StartAttempt ==
  /\ stage = "ready" /\ stage' = "run"
  /\ Forgets /\ calls' = 0 /\ attemptDir' = attempt /\ meta' = <<>> /\ talk' = <<>>
  /\ strayed' = strayed \cup {a \in {attempt} : Overlapped}
  /\ UNCHANGED <<attempt, setup, made, stray, failed, files, saved>>

AgentEnds ==
  /\ stage = "run" /\ stage' = "wait again"
  /\ UNCHANGED <<attempt, chat, cache, attemptDir, meta, saved, strayed>> /\ PipeFrame

\* finish_attempt: meta.json is written where the last attempt was started.
Finish ==
  /\ saved' = saved \cup {[attempt |-> attemptDir, iters |-> ToSet(meta)]}
  /\ attemptDir' = 0
  /\ strayed' = strayed \cup {a \in {attemptDir} : Overlapped}

FinishAttempt ==
  /\ stage = "collect" /\ NextAttempt /\ Finish
  /\ UNCHANGED <<chat, cache, meta>> /\ PipeFrame

\* The file cannot be written; the provider stays at the attempt.
FinishFails ==
  /\ stage = "collect" /\ NextAttempt /\ Fault
  /\ UNCHANGED <<chat, cache, meta, attemptDir, saved, strayed>>
  /\ UNCHANGED <<setup, calls, made, stray, talk, files>>

\* __exit__ makes up for an attempt that was not finished.
Exit ==
  /\ stage = "over" /\ stage' = "closed" /\ Forgets
  /\ \/ attemptDir # 0 /\ Finish
     \/ attemptDir = 0 /\ UNCHANGED <<saved, attemptDir, strayed>>
  /\ UNCHANGED <<attempt, meta>> /\ PipeFrame

CallStep ==
  \/ NoCache \/ Build \/ Extend \/ OutOfStep \/ BeginGenerate \/ CannotBegin
  \/ Forward \/ ForwardFails \/ Flush \/ FlushFails \/ Note

CacheNext ==
  \/ Chat \/ CallStep \/ AwaitIdle \/ PreflightFails \/ StartAttempt \/ AgentEnds
  \/ FinishAttempt \/ FinishFails \/ Exit

CacheSpec == CacheInit /\ [][CacheNext]_cacheVars

-----------------------------------------------------------------------------
CacheTypeOK ==
  /\ setup \in Setups /\ attempt \in Attempts /\ attemptDir \in 0..setup.attempts
  /\ stage \in {"wait", "ready", "run", "wait again", "collect", "over", "closed"}
  /\ chat.at \in {"free", "called", "prepared", "generate", "written"}
  /\ calls \in 0..setup.made /\ made \in 0..setup.made /\ failed \in 0..MaxFailed
  /\ Len(ids) <= setup.text /\ DOMAIN kv = Layers /\ DOMAIN mass = Layers
  /\ \A a \in Attempts : files[a] \subseteq 0..setup.made

Sound == built /\ ~torn

\* The last token of an answer, which no forward pass has seen.
AnswerEnd(p) == ids[p] % 2 = 1 /\ (p = Len(ids) \/ ids[p + 1] # ids[p])

\* Between calls, as long as none has failed, the cache was fed the conversation
\* the provider believes it holds: every token at its position, in order, and
\* none left out - but, with a policy, the last token of each answer.
FedTheText ==
  chat.at = "free" /\ Sound =>
    /\ \A i, j \in 1..Len(fed) : i < j => fed[i][1] < fed[j][1]
    /\ \A i \in 1..Len(fed) : fed[i][1] <= Len(ids) /\ ids[fed[i][1]] = fed[i][2]
    /\ \A p \in 1..Len(ids) :
         (\A i \in 1..Len(fed) : fed[i][1] # p) => ~Plain /\ AnswerEnd(p)

Firsts(s, n) == SubSeq(s, 1, n)
Lasts(s, n) == SubSeq(s, Len(s) - n + 1, Len(s))

\* Of what it was fed every layer holds, in order, as much as the budget allows:
\* everything, the sinks and the most recent, or those and others - or all it had
\* when H2O put off the decision and the sample left out the last row.
Windowed ==
  Sound => \A l \in Layers :
    LET held == kv[l]
    IN IF Plain \/ Len(fed) <= setup.budget THEN held = fed
       ELSE /\ Len(held) = setup.budget \/ (pend[l] # 0 /\ Len(held) = pend[l])
            /\ ToSet(held) \subseteq ToSet(fed)
            /\ \A i, j \in 1..Len(held) : i < j => held[i][1] < held[j][1]
            /\ setup.policy # "random" =>
                 /\ Firsts(held, setup.sink) = Firsts(fed, setup.sink)
                 /\ Lasts(held, setup.recent) = Lasts(fed, setup.recent)

\* A score of H2O is that of the slot with its index, also after failures; and every
\* slot has a score, unless a call has failed.  Nothing stays put off when H2O is
\* shown every row.
ScoresFollow ==
  setup.policy = "h2o" => \A l \in Layers :
    /\ Len(mass[l]) <= Len(kv[l])
    /\ \A i \in 1..Len(mass[l]) : mass[l][i] \in {NoMass, kv[l][i]}
    /\ Sound => mass[l] = kv[l] /\ (setup.sample = 0 => pend[l] = 0)

\* The cache that the next call builds on is the conversation, under the policy.
CacheIsText == FedTheText /\ Windowed /\ ScoresFollow

\* The meta.json of an attempt lists its own recordings, all of them and no others,
\* and none is refused because its number is taken - unless a call began after
\* run_attempt had waited for the provider to be idle, and was still under way
\* when the attempt was started or finished.
RecordedWhereItRan ==
  /\ \A m \in saved : m.attempt \notin strayed =>
       m.iters = {[idx |-> i, home |-> m.attempt] : i \in files[m.attempt]}
  /\ chat.at = "generate" /\ chat.home \notin strayed => chat.idx \notin files[chat.home]
=============================================================================
