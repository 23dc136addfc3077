----------------------------- MODULE TeamSpaces -----------------------------
(***************************************************************************)
(* One team namespace from its first row to its expiry (tools/consolidate  *)
(* and namespaces/manager): stores in worker threads, forgets and the      *)
(* promotion of its important rows into the project namespace as jobs of   *)
(* the write lane, kills and failed writes in between, and recalls while   *)
(* the clock passes its expiry.                                            *)
(*                                                                         *)
(* Both namespaces are in one file, or each in its own; a promotion by     *)
(* memory_consolidate opens the project's store, one by memory_maintain    *)
(* writes to the store it has.                                             *)
(***************************************************************************)
EXTENDS Naturals, FiniteSets

CONSTANTS
    TeamRow,           \* ids of the team's rows
    MAX_STORES, MAX_EDITS, MAX_PROMOTIONS, MAX_FAULTS,
    TTL                \* ttl_hours

VARIABLES
    layout,            \* "one file" or "two files"
    team,              \* id -> "none", "high" or "low": the rows, by importance
    storing,           \* ids a store is about, between its two commits
    project,           \* id -> "none", "copied" or "edited": the promoted rows, where project recalls look
    strays,            \* promoted rows of the project namespace in the team's own file
    lifecycle,         \* the row in memory_namespaces: "none", "active", "completed" or "expired"
    clock, expires,    \* hours since completion is possible, and the expiry
    promotion,         \* [at, by, listed, already, left, high]: the promotion on the lane
    due,               \* important rows the completed promotion found
    copied,            \* rows a promotion has ever copied
    answered,          \* the last recall of the team: "none", "rows" or "expired"
    stores, edits, promotions, teamFaults

teamVars == <<layout, team, storing, project, strays, lifecycle, clock, expires, promotion, due, copied, answered,
              stores, edits, promotions, teamFaults>>

targetVars == <<project, strays, copied>>

lifeVars == <<lifecycle, expires>>

NoPromotion == [at |-> "none", by |-> "none", already |-> {}, left |-> {}, high |-> {}]

LaneFree == promotion.at = "none"

-----------------------------------------------------------------------------
(* Tenants.                                                                *)

(* ensure_team_namespace, and then the row with its vector.                *)
StoreBegins(i) ==
    /\ stores < MAX_STORES /\ stores' = stores + 1
    /\ i \notin storing /\ storing' = storing \cup {i}
    /\ lifecycle' = IF lifecycle = "none" THEN "active" ELSE lifecycle
    /\ UNCHANGED <<layout, team, targetVars, clock, expires, promotion, due, answered, edits, promotions, teamFaults>>

StoreCommits(i, importance) ==
    /\ i \in storing /\ storing' = storing \ {i}
    /\ team' = [team EXCEPT ![i] = importance]
    /\ UNCHANGED <<layout, targetVars, lifeVars, clock, promotion, due, answered, stores, edits, promotions, teamFaults>>

OnLane == LaneFree

Forget(i) ==
    /\ OnLane /\ team[i] # "none" /\ edits < MAX_EDITS /\ edits' = edits + 1
    /\ team' = [team EXCEPT ![i] = "none"]
    /\ UNCHANGED <<layout, storing, targetVars, lifeVars, clock, promotion, due, answered, stores, promotions, teamFaults>>

(* A store of the project revises a promoted row, in a worker thread.      *)
EditPromoted(i) ==
    /\ project[i] = "copied" /\ edits < MAX_EDITS /\ edits' = edits + 1
    /\ project' = [project EXCEPT ![i] = "edited"]
    /\ UNCHANGED <<layout, team, storing, strays, copied, lifeVars, clock, promotion, due, answered,
                   stores, promotions, teamFaults>>

ForgetPromoted(i) ==
    /\ LaneFree /\ project[i] # "none" /\ edits < MAX_EDITS /\ edits' = edits + 1
    /\ project' = [project EXCEPT ![i] = "none"]
    /\ UNCHANGED <<layout, team, storing, strays, copied, lifeVars, clock, promotion, due, answered,
                   stores, promotions, teamFaults>>

Tick ==
    /\ lifecycle = "completed" /\ clock <= expires /\ clock' = clock + 1
    /\ UNCHANGED <<layout, team, storing, targetVars, lifeVars, promotion, due, answered,
                   stores, edits, promotions, teamFaults>>

(* team_namespace_expired, which writes what it finds.                     *)
Over == lifecycle = "expired" \/ (lifecycle = "completed" /\ expires <= clock)

Recall ==
    /\ lifecycle # "none" /\ answered' = IF Over THEN "expired" ELSE "rows"
    /\ lifecycle' = IF Over THEN "expired" ELSE lifecycle
    /\ UNCHANGED <<layout, team, storing, targetVars, clock, expires, promotion, due,
                   stores, edits, promotions, teamFaults>>

-----------------------------------------------------------------------------
(* A promotion: one job of the lane.                                       *)

Tenants == UNCHANGED <<layout, storing, team, clock, answered, stores, edits>>

Completed == lifecycle \in {"completed", "expired"}

SkipPromotion ==
    /\ LaneFree /\ Completed /\ promotions < MAX_PROMOTIONS /\ promotions' = promotions + 1
    /\ Tenants /\ UNCHANGED <<targetVars, lifeVars, promotion, due, teamFaults>>

(* The file the promoted rows are written to.                              *)
Target(by) == IF layout = "one file" \/ by = "consolidate" THEN "project" ELSE "team"

There(by) == IF Target(by) = "project" THEN {i \in TeamRow : project[i] # "none"} ELSE strays

(* Mutant: rows promoted before are promoted again.                        *)
NoneAlready(by) == {}

Already(by) == There(by)

(* list_entries, and after it the ids that are already there.              *)
BeginPromotion(by) ==
    /\ LaneFree /\ ~Completed /\ promotions < MAX_PROMOTIONS /\ promotions' = promotions + 1
    /\ LET listed == {i \in TeamRow : team[i] # "none"}
       IN  promotion' = [at |-> "listed", by |-> by, already |-> {}, left |-> listed,
                         high |-> {i \in listed : team[i] = "high"}]
    /\ Tenants /\ UNCHANGED <<targetVars, lifeVars, due, teamFaults>>

(* memory_consolidate, and the consolidation of memory_maintain.           *)
Consolidate == BeginPromotion("consolidate")

Maintain == BeginPromotion("maintain")

FindPromoted ==
    /\ promotion.at = "listed"
    /\ promotion' = [promotion EXCEPT !.at = "copying", !.already = Already(promotion.by)]
    /\ Tenants /\ UNCHANGED <<targetVars, lifeVars, due, promotions, teamFaults>>

Copying(i) == promotion.at = "copying" /\ i \in promotion.left

Done(i) == promotion' = [promotion EXCEPT !.left = @ \ {i}]

PassRow(i) ==
    /\ Copying(i) /\ (i \in promotion.already \/ i \notin promotion.high)
    /\ Done(i) /\ Tenants /\ UNCHANGED <<targetVars, lifeVars, due, promotions, teamFaults>>

(* The copy has the importance and the text of the listing.                *)
CopyRow(i) ==
    /\ Copying(i) /\ i \notin promotion.already /\ i \in promotion.high
    /\ IF Target(promotion.by) = "project"
       THEN project' = [project EXCEPT ![i] = "copied"] /\ UNCHANGED strays
       ELSE strays' = strays \cup {i} /\ UNCHANGED project
    /\ copied' = copied \cup {i}
    /\ Done(i) /\ Tenants /\ UNCHANGED <<lifeVars, due, promotions, teamFaults>>

AllCopied == promotion.at = "copying" /\ promotion.left = {}

(* mark_team_namespace_completed                                           *)
Ensure ==
    /\ AllCopied /\ promotion' = [promotion EXCEPT !.at = "ensured"]
    /\ lifecycle' = IF lifecycle = "none" THEN "active" ELSE lifecycle
    /\ Tenants /\ UNCHANGED <<targetVars, expires, due, promotions, teamFaults>>

Mark ==
    /\ promotion.at = "ensured" /\ promotion' = NoPromotion
    /\ lifecycle' = "completed" /\ expires' = clock + TTL
    /\ due' = promotion.high
    /\ Tenants /\ UNCHANGED <<targetVars, promotions, teamFaults>>

(* A write that fails ends the promotion, and so does a kill.              *)
Fault ==
    /\ ~LaneFree /\ teamFaults < MAX_FAULTS /\ teamFaults' = teamFaults + 1
    /\ promotion' = NoPromotion
    /\ Tenants /\ UNCHANGED <<targetVars, lifeVars, due, promotions>>

-----------------------------------------------------------------------------
TeamInit ==
    /\ layout \in {"one file", "two files"}
    /\ team = [i \in TeamRow |-> "none"] /\ storing = {} /\ project = [i \in TeamRow |-> "none"] /\ strays = {}
    /\ lifecycle = "none" /\ clock = 0 /\ expires = 0 /\ promotion = NoPromotion
    /\ due = {} /\ copied = {} /\ answered = "none"
    /\ stores = 0 /\ edits = 0 /\ promotions = 0 /\ teamFaults = 0

TeamNext ==
    \/ \E i \in TeamRow :
          \/ StoreBegins(i) \/ Forget(i) \/ EditPromoted(i) \/ ForgetPromoted(i) \/ PassRow(i) \/ CopyRow(i)
          \/ \E importance \in {"high", "low"} : StoreCommits(i, importance)
    \/ Tick \/ Recall \/ SkipPromotion \/ FindPromoted \/ Ensure \/ Mark \/ Fault
    \/ Consolidate \/ Maintain

TeamSpec == TeamInit /\ [][TeamNext]_teamVars

-----------------------------------------------------------------------------
(* A team that is completed has had every important row of its promotion    *)
(* copied, whatever kills and failures came before.                         *)
CompletedIsPromoted == Completed => due \subseteq copied

(* No promotion writes over a promoted row a tenant has revised, brings a    *)
(* forgotten row to the project, or copies again what a completed team had. *)
CopiesOnce ==
    \A i \in TeamRow :
        /\ project[i] = "edited" => project'[i] # "copied"
        /\ (project[i] = "none" /\ project'[i] = "copied") => (team[i] # "none" /\ ~Completed)

(* A recall that found the team expired is never followed by one that       *)
(* answers its rows, and only a completed team expires.                     *)
ExpiryHolds ==
    /\ answered = "expired" => answered' = "expired"
    /\ lifecycle' = "expired" => Completed

(* A completed team is promoted, once, over no revision and of no forgotten *)
(* row, and an expired one stays expired.                                   *)
TeamSound == [][CopiesOnce /\ ExpiryHolds /\ CompletedIsPromoted']_teamVars

-----------------------------------------------------------------------------
(* Why: the inductive invariant.                                            *)

TeamTypeOK ==
    /\ team \in [TeamRow -> {"none", "high", "low"}] /\ project \in [TeamRow -> {"none", "copied", "edited"}]
    /\ strays \subseteq TeamRow /\ copied \subseteq TeamRow /\ due \subseteq TeamRow
    /\ lifecycle \in {"none", "active", "completed", "expired"}
    /\ promotion \in [at : {"none", "listed", "copying", "ensured"}, by : {"none", "consolidate", "maintain"},
                      already : SUBSET TeamRow, left : SUBSET TeamRow, high : SUBSET TeamRow]

(* What is in the project, or beside it, was copied there by a promotion.   *)
ThereWasCopied == strays \subseteq copied /\ \A i \in TeamRow : project[i] # "none" => i \in copied

(* A promotion, of a team that is not completed: the rows it has to pass    *)
(* are the team's, and those it has passed are copied.                      *)
PromotionPasses ==
    /\ IF LaneFree THEN promotion.left = {} ELSE ~Completed
    /\ \A i \in promotion.left : team[i] # "none"
    /\ promotion.at = "listed" => promotion.high \subseteq promotion.left
    /\ promotion.at = "copying" =>
          /\ promotion.high \ promotion.left \subseteq copied /\ promotion.already \subseteq copied
          /\ Target(promotion.by) = "project" =>
                \A i \in promotion.left : project[i] # "none" => i \in promotion.already
    /\ promotion.at = "ensured" => promotion.high \subseteq copied

TeamIInv ==
    /\ TeamTypeOK /\ ThereWasCopied /\ PromotionPasses
    /\ CompletedIsPromoted
    /\ answered = "expired" => lifecycle = "expired"
=============================================================================
