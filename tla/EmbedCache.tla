----------------------------- MODULE EmbedCache -----------------------------
(***************************************************************************)
(* The embedding providers of one process (embeddings/_provider_cache.py,  *)
(* embeddings/__init__.py, embeddings/local.py, tools/_embedder.py): tool  *)
(* threads and the warm-up ask for a model's provider, one of them loads   *)
(* it outside the lock and the others wait, while the policy changes, the  *)
(* cache is reset and a model is being fetched to disk.                    *)
(*                                                                         *)
(* A load may itself ask for a provider: a thread's calls are a stack of   *)
(* at most two frames.                                                     *)
(***************************************************************************)
EXTENDS Naturals, Sequences, FiniteSets

CONSTANTS
    Thread, Model,
    Coded,             \* the models whose snapshot ships code
    MAX_ASKS,          \* calls of get_local_embedder
    MAX_CHANGES,       \* of the policy, and resets of the cache
    MAX_FETCHES,       \* steps of fetch_models
    MAX_MISSES         \* loads that fail and waits that time out, together

VARIABLES
    policy,            \* what the configuration permits: "tight" or "loose"
    disk,              \* model -> "absent", "incomplete" or "complete"
    providers,         \* _PROVIDER_CACHE: model -> an answer
    stamp, generation, \* _CACHE_FINGERPRINT, _GENERATION
    builds,            \* _PENDING: model -> place in holders, 0 when nothing is pending
    holders,           \* every _Pending made: [key, owner, stamp, generation, done, answer]
    frames,            \* thread -> its calls, the outer one first
    building,          \* _LOCAL.building
    asks, flips, resets, fails, timeouts

cacheVars == <<providers, stamp, generation, builds, holders>>

embedVars == <<policy, disk, cacheVars, frames, building, asks, flips, resets, fails, timeouts>>

NoAnswer == [kind |-> "none", stamp |-> "", began |-> 0]

(* A provider, with the policy it was asked for under and the resets before. *)
Provider(f) == [kind |-> "provider", stamp |-> f.stamp, began |-> f.began]

Raised(why) == [NoAnswer EXCEPT !.kind = why]

-----------------------------------------------------------------------------
(* The configuration, and fetch_models.                                    *)

Flip ==
    /\ flips + resets < MAX_CHANGES /\ flips' = flips + 1
    /\ policy' = IF policy = "tight" THEN "loose" ELSE "tight"
    /\ UNCHANGED <<disk, cacheVars, frames, building, asks, resets, fails, timeouts>>

Fetched == Cardinality({k \in Model : disk[k] # "absent"}) + Cardinality({k \in Model : disk[k] = "complete"})

Fetch(key) ==
    /\ disk[key] # "complete" /\ Fetched < MAX_FETCHES
    /\ disk' = [disk EXCEPT ![key] = IF @ = "absent" THEN "incomplete" ELSE "complete"]
    /\ UNCHANGED <<policy, cacheVars, frames, building, asks, flips, resets, fails, timeouts>>

(* reset_provider_cache                                                    *)
Reset ==
    /\ flips + resets < MAX_CHANGES /\ resets' = resets + 1
    /\ providers' = [k \in Model |-> NoAnswer] /\ builds' = [k \in Model |-> 0]
    /\ stamp' = "" /\ generation' = generation + 1
    /\ UNCHANGED <<policy, disk, holders, frames, building, asks, flips, fails, timeouts>>

-----------------------------------------------------------------------------
Top(t) == frames[t][Len(frames[t])]

FrameAt(t, step) == frames[t] # <<>> /\ Top(t).at = step

Goes(t, new) == frames' = [frames EXCEPT ![t] = [@ EXCEPT ![Len(@)] = new]]

Answers(t, answer) == Goes(t, [Top(t) EXCEPT !.at = "answered", !.answer = answer, !.generation = 0])

Outside == UNCHANGED <<policy, disk, flips, resets>>

Quiet == Outside /\ UNCHANGED <<asks, fails, timeouts>>

(* probe_model_cache: every file of the snapshot is there.                  *)
Whole(key) == disk[key] = "complete"

(* get_local_embedder, by a thread that does nothing or is loading a model. *)
BeginAsk(t, key) ==
    /\ asks < MAX_ASKS /\ asks' = asks + 1
    /\ frames[t] = <<>> \/ (Len(frames[t]) = 1 /\ FrameAt(t, "load"))
    /\ frames' = [frames EXCEPT ![t] = Append(@,
          [key |-> key, at |-> "ask", stamp |-> "", generation |-> 0, holder |-> 0, began |-> resets,
           asked |-> resets, whole |-> Whole(key), nested |-> FALSE, answer |-> NoAnswer])]
    /\ Outside /\ UNCHANGED <<cacheVars, building, fails, timeouts>>

(* _policy_fingerprint, before the lock is taken.                          *)
Ask(t) ==
    /\ FrameAt(t, "ask") /\ Goes(t, [Top(t) EXCEPT !.at = "decide", !.stamp = policy])
    /\ Quiet /\ UNCHANGED <<cacheVars, building>>

(* Another policy than the cached providers' empties the cache.            *)
Kept(t) == IF stamp = Top(t).stamp THEN providers ELSE [k \in Model |-> NoAnswer]

Now(t) == IF stamp = Top(t).stamp THEN generation ELSE generation + 1

Decides(t) ==
    /\ FrameAt(t, "decide")
    /\ providers' = Kept(t) /\ stamp' = Top(t).stamp /\ generation' = Now(t)
    /\ Quiet

Cached(t) == Kept(t)[Top(t).key].kind = "provider"

Pending(t) == IF Cached(t) THEN 0 ELSE builds[Top(t).key]

Serve(t) ==
    /\ Decides(t) /\ Cached(t) /\ Answers(t, Kept(t)[Top(t).key])
    /\ UNCHANGED <<builds, holders, building>>

(* The thread's own load of the same model asks for it.                    *)
Reentered(t) ==
    /\ Decides(t) /\ Pending(t) # 0 /\ holders[Pending(t)].owner = t /\ Answers(t, NoAnswer)
    /\ UNCHANGED <<builds, holders, building>>

ForeignBuild(t) == Pending(t) # 0 /\ holders[Pending(t)].owner # t

(* Mutant: a thread that loads a model waits for another's load.           *)
NotBuilding(t) == FALSE

Building(t) == building[t]

BuildUnshared(t) ==
    /\ Decides(t) /\ ForeignBuild(t) /\ Building(t)
    /\ Goes(t, [Top(t) EXCEPT !.at = "load", !.holder = 0, !.began = resets])
    /\ UNCHANGED <<builds, holders, building>>

Wait(t) ==
    /\ Decides(t) /\ ForeignBuild(t) /\ ~Building(t)
    /\ Goes(t, [Top(t) EXCEPT !.at = "wait", !.holder = Pending(t), !.generation = Now(t)])
    /\ UNCHANGED <<builds, holders, building>>

Build(t) ==
    LET f == Top(t) IN
    /\ Decides(t) /\ ~Cached(t) /\ builds[f.key] = 0
    /\ holders' = Append(holders, [key |-> f.key, owner |-> t, stamp |-> f.stamp, generation |-> Now(t),
                                   done |-> FALSE, answer |-> NoAnswer])
    /\ builds' = [builds EXCEPT ![f.key] = Len(holders')]
    /\ building' = [building EXCEPT ![t] = TRUE]
    /\ Goes(t, [f EXCEPT !.at = "load", !.holder = Len(holders'), !.generation = Now(t), !.began = resets])

-----------------------------------------------------------------------------
(* A load: LocalEmbeddingProvider, and its probe of the model cache.       *)

(* The policy is read again by the load.                                   *)
RefusedCode(key) == policy = "tight" /\ key \in Coded /\ disk[key] # "absent"

Loads(t, answer) == FrameAt(t, "load") /\ Goes(t, [Top(t) EXCEPT !.at = "loaded", !.answer = answer])

Load(t) ==
    /\ FrameAt(t, "load")
    /\ Loads(t, IF RefusedCode(Top(t).key) THEN Raised("refused")
                ELSE IF ~Whole(Top(t).key) THEN Raised("missing") ELSE Provider(Top(t)))
    /\ Quiet /\ UNCHANGED <<cacheVars, building>>

(* A model that is there and does not load.                                *)
LoadFails(t) ==
    /\ FrameAt(t, "load") /\ ~RefusedCode(Top(t).key) /\ Whole(Top(t).key)
    /\ fails + timeouts < MAX_MISSES /\ fails' = fails + 1
    /\ Loads(t, NoAnswer)
    /\ Outside /\ UNCHANGED <<cacheVars, building, asks, timeouts>>

Shared(t) == Top(t).holder # 0

UnsharedEnds(t) ==
    /\ FrameAt(t, "loaded") /\ ~Shared(t) /\ Answers(t, Top(t).answer)
    /\ Quiet /\ UNCHANGED <<cacheVars, building>>

Current(f) == f.stamp = stamp /\ f.generation = generation

(* _build_and_publish: the flag that says the thread loads a model is down  *)
(* from here on, whichever frame it was that raised it.                     *)
Publish(t) ==
    LET f == Top(t) IN
    /\ FrameAt(t, "loaded") /\ Shared(t)
    /\ building' = [building EXCEPT ![t] = FALSE]
    /\ builds' = [builds EXCEPT ![f.key] = IF @ = f.holder THEN 0 ELSE @]
    /\ holders' = [holders EXCEPT ![f.holder] = [@ EXCEPT !.done = TRUE, !.answer = f.answer]]
    /\ providers' = IF f.answer.kind = "provider" /\ Current(f) THEN [providers EXCEPT ![f.key] = f.answer]
                    ELSE providers
    /\ Answers(t, f.answer)
    /\ Quiet /\ UNCHANGED <<stamp, generation>>

-----------------------------------------------------------------------------
(* A thread that waits for another's load.                                 *)

Takes(t, h) ==
    h.answer.kind \in {"none", "provider"} /\ h.generation = Top(t).generation /\ h.stamp = Top(t).stamp

Woken(t) ==
    LET h == holders[Top(t).holder] IN
    /\ FrameAt(t, "wait") /\ h.done
    /\ IF Takes(t, h) THEN Answers(t, h.answer) 
       ELSE Goes(t, [Top(t) EXCEPT !.at = "ask", !.stamp = "", !.generation = 0, !.holder = 0])
    /\ Quiet /\ UNCHANGED <<cacheVars, building>>

(* BUILD_WAIT_TIMEOUT_SECONDS have passed.                                 *)
WaitedLong(t) ==
    /\ FrameAt(t, "wait") /\ ~holders[Top(t).holder].done
    /\ fails + timeouts < MAX_MISSES /\ timeouts' = timeouts + 1
    /\ Answers(t, NoAnswer)
    /\ Outside /\ UNCHANGED <<cacheVars, building, asks, fails>>

(* A call that ends goes back to the load it was made from, if any.        *)
Below(t) == IF Len(frames[t]) = 1 THEN <<>> ELSE <<[frames[t][1] EXCEPT !.nested = @ \/ Shared(t)]>>

Return(t) ==
    /\ FrameAt(t, "answered") /\ frames' = [frames EXCEPT ![t] = Below(t)]
    /\ Quiet /\ UNCHANGED <<cacheVars, building>>

-----------------------------------------------------------------------------
EmbedInit ==
    /\ policy = "tight" /\ disk \in {[k \in Model |-> "absent"], [k \in Model |-> "complete"]}
    /\ providers = [k \in Model |-> NoAnswer] /\ stamp = "" /\ generation = 0
    /\ builds = [k \in Model |-> 0] /\ holders = <<>>
    /\ frames = [t \in Thread |-> <<>>] /\ building = [t \in Thread |-> FALSE]
    /\ asks = 0 /\ flips = 0 /\ resets = 0 /\ fails = 0 /\ timeouts = 0

EmbedNext ==
    \/ Flip \/ Reset
    \/ \E key \in Model : Fetch(key) \/ \E t \in Thread : BeginAsk(t, key)
    \/ \E t \in Thread :
          \/ Ask(t) \/ Serve(t) \/ Reentered(t) \/ BuildUnshared(t) \/ Wait(t) \/ Build(t)
          \/ Load(t) \/ LoadFails(t) \/ UnsharedEnds(t) \/ Publish(t)
          \/ Woken(t) \/ WaitedLong(t) \/ Return(t)

EmbedSpec == EmbedInit /\ [][EmbedNext]_embedVars

-----------------------------------------------------------------------------
(* Since the last reset, one load of a model is shared at a time: the       *)
(* others wait for it.                                                      *)
OneLoad ==
    \A k \in Model :
        Cardinality({h \in DOMAIN holders :
            /\ holders[h].key = k /\ ~holders[h].done
            /\ \E t \in Thread : \E n \in DOMAIN frames[t] :
                  frames[t][n].holder = h /\ frames[t][n].at \in {"load", "loaded"} /\ frames[t][n].began = resets}) <= 1

(* What a call is given was asked for under the policy that call read, and  *)
(* its load began after the last reset before the call; a model that was    *)
(* whole on disk before the call is never reported missing.                 *)
ServedCurrent ==
    \A t \in Thread : FrameAt(t, "answered") =>
        LET f == Top(t)
        IN  /\ f.answer.kind = "provider" => f.answer.stamp = f.stamp /\ f.answer.began >= f.asked
            /\ f.answer.kind = "missing" => ~f.whole

(* A thread that is loading a model never waits for another thread's load,  *)
(* unless the load it made in between took the flag down.                   *)
BuilderWaits ==
    \A t \in Thread : FrameAt(t, "wait") /\ Len(frames[t]) = 2 => frames[t][1].nested

ProvidersSound == OneLoad /\ ServedCurrent /\ BuilderWaits

-----------------------------------------------------------------------------
(* Why: the inductive invariant.                                            *)

Stamps == {"", "tight", "loose"}

SomeAnswer == [kind : {"none", "provider", "refused", "missing"}, stamp : Stamps, began : Nat]

SomeFrame == [key : Model, at : {"ask", "decide", "wait", "load", "loaded", "answered"}, stamp : Stamps,
              generation : Nat, holder : Nat, began : Nat, asked : Nat, whole : BOOLEAN, nested : BOOLEAN,
              answer : SomeAnswer]

SomeHolder == [key : Model, owner : Thread, stamp : Stamps, generation : Nat, done : BOOLEAN, answer : SomeAnswer]

EmbedTypeOK ==
    /\ policy \in Stamps /\ disk \in [Model -> {"absent", "incomplete", "complete"}]
    /\ providers \in [Model -> SomeAnswer] /\ stamp \in Stamps /\ generation \in Nat /\ resets \in Nat
    /\ builds \in [Model -> Nat] /\ holders \in Seq(SomeHolder)
    /\ frames \in [Thread -> Seq(SomeFrame)] /\ building \in [Thread -> BOOLEAN]

(* What is cached is of the current policy, and of no load before the last  *)
(* reset; what is pending is not done, and an answer of its load's policy.  *)
CacheHolds ==
    /\ \A k \in Model :
          /\ providers[k].kind = "provider" => providers[k].stamp = stamp /\ providers[k].began = resets
          /\ builds[k] # 0 => builds[k] \in DOMAIN holders /\ ~holders[builds[k]].done /\ holders[builds[k]].key = k
    /\ \A h \in DOMAIN holders : holders[h].answer.kind = "provider" => holders[h].answer.stamp = holders[h].stamp

(* A frame whose load is shared.                                            *)
Builds(f) == f.at \in {"load", "loaded"} /\ f.holder # 0

(* A shared load is its holder's, not published, and what the cache waits   *)
(* for unless there was a reset.                                            *)
BuildHolds(f) ==
    Builds(f) =>
        /\ f.holder \in DOMAIN holders /\ ~holders[f.holder].done
        /\ holders[f.holder].key = f.key /\ holders[f.holder].stamp = f.stamp
        /\ holders[f.holder].generation = f.generation /\ f.generation <= generation
        /\ f.generation = generation => f.began = resets
        /\ f.began = resets => builds[f.key] = f.holder

(* What a frame has is no older than its call.                              *)
FrameHolds(f) ==
    /\ f.asked <= resets /\ f.began <= resets /\ (f.whole => Whole(f.key))
    /\ f.at \in {"load", "loaded"} => f.asked <= f.began
    /\ f.at = "loaded" /\ f.answer.kind = "provider" => f.answer.began = f.began
    /\ f.at \in {"loaded", "answered"} =>
          /\ f.answer.kind = "provider" => f.answer.stamp = f.stamp /\ f.answer.began >= f.asked
          /\ f.answer.kind = "missing" => ~f.whole
    /\ BuildHolds(f)
    /\ f.at = "wait" =>
          /\ f.holder \in DOMAIN holders
          /\ LET h == holders[f.holder]
             IN  h.done /\ h.answer.kind = "provider" /\ h.generation = f.generation => f.asked <= h.answer.began

(* Two shared loads have holders of their own, and one that a thread waits  *)
(* for in its generation began after the thread asked.                      *)
Apart(f, g) ==
    Builds(g) =>
        /\ Builds(f) => f.holder # g.holder
        /\ f.at = "wait" /\ f.holder = g.holder /\ f.generation = g.generation => f.asked <= g.began

FramesApart ==
    \A t, u \in Thread : \A n \in DOMAIN frames[t], m \in DOMAIN frames[u] :
        <<t, n>> # <<u, m>> => Apart(frames[t][n], frames[u][m])

(* The flag of a thread that loads a model.                                 *)
ThreadHolds(t) ==
    LET s == frames[t] IN
    /\ Len(s) <= 2
    /\ s = <<>> => ~building[t]
    /\ Len(s) = 1 /\ s[1].at \notin {"load", "loaded"} => ~building[t]
    /\ s # <<>> /\ s[1].at \in {"load", "loaded"} => s[1].holder # 0
    /\ Len(s) = 2 => s[1].at = "load" /\ (s[2].at = "wait" => s[1].nested)
    /\ s # <<>> /\ s[1].at = "load" /\ ~building[t] =>
          s[1].nested \/ (Len(s) = 2 /\ s[2].at = "answered" /\ s[2].holder # 0)

EmbedIInv ==
    /\ EmbedTypeOK /\ CacheHolds /\ FramesApart
    /\ \A t \in Thread : ThreadHolds(t) /\ \A n \in DOMAIN frames[t] : FrameHolds(frames[t][n])
=============================================================================
