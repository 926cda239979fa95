----------------------------- MODULE Permissions -----------------------------
(***************************************************************************)
(* The permission ledger (context-store/src/permissions.rs), the commands  *)
(* that write it (context-cli/src/commands/permission.rs) and the          *)
(* evaluation of its rules (context-core/src/authority).  Each command is  *)
(* a process with a connection of its own; supersede reads the rules       *)
(* before it opens its transaction.                                        *)
(***************************************************************************)
EXTENDS Integers, Sequences, FiniteSets

CONSTANTS PermissionIds,   \* identities of rules
          Clients,         \* processes that run supersede
          Actions,         \* PermissionAction
          Patterns,        \* resources of rules: sequences of segments
          Paths,           \* resources of requests
          Expiries,        \* instants at which a rule can expire
          Never,           \* no expiry, or one that does not parse
          LastInstant,     \* bound on the clock
          MaxUses          \* bound on recorded uses

VARIABLES rules,        \* permission_rules, by identity
          superseded,   \* the identities in permission_supersessions
          uses,         \* how many permission_uses
          now,          \* the clock
          superseding   \* what each supersede has read: a rule or nothing

permissionVars == <<rules, superseded, uses, now, superseding>>

Recorded == DOMAIN rules

(* segments_match: "**" takes any number of segments, "*" takes one. *)
ResourceMatches(pattern, path) ==
    LET match[i \in 1..(Len(pattern) + 1), j \in 1..(Len(path) + 1)] ==
            IF i > Len(pattern) THEN j > Len(path)
            ELSE IF pattern[i] = "**"
                 THEN \E k \in j..(Len(path) + 1) : match[i + 1, k]
                 ELSE /\ j <= Len(path)
                      /\ pattern[i] = "*" \/ pattern[i] = path[j]
                      /\ match[i + 1, j + 1]
    IN  match[1, 1]

Expired(rule) == rule.expires # Never /\ rule.expires < now

(* The rules that evaluate looks at. The subject and the scope of a rule   *)
(* are not compared, nor its uses.                                         *)
Applicable(action, path) ==
    {id \in Recorded \ superseded :
        /\ ~Expired(rules[id])
        /\ rules[id].action = action
        /\ ResourceMatches(rules[id].resource, path)}

Deciding(action, path, decision) ==
    {id \in Applicable(action, path) : rules[id].decision = decision}

Decision(action, path) ==
    IF Deciding(action, path, "deny") # {} THEN "deny"
    ELSE IF Deciding(action, path, "allow") # {} THEN "allow"
    ELSE "ask"

-----------------------------------------------------------------------------
PermissionInit ==
    /\ rules = <<>>
    /\ superseded = {}
    /\ uses = 0
    /\ now = 0
    /\ superseding = [c \in Clients |-> {}]

(* INSERT OR REPLACE. *)
WithReplaced(id, rule) ==
    [i \in Recorded \cup {id} |-> IF i = id THEN rule ELSE rules[i]]

(* An INSERT into a table whose primary key is the identity: an identity   *)
(* that is there keeps its rule and the statement fails.                   *)
With(id, rule) ==
    [i \in Recorded \cup {id} |-> IF i \in Recorded THEN rules[i] ELSE rule]

(* handle_allow and handle_deny: the identity is new, and which one it is   *)
(* makes no difference.                                                     *)
AppendRule(decision) ==
    /\ PermissionIds # Recorded
    /\ \E a \in Actions, p \in Patterns, x \in Expiries \cup {Never} :
          rules' = With(CHOOSE id \in PermissionIds : id \notin Recorded,
                        [action |-> a, resource |-> p, decision |-> decision, expires |-> x])
    /\ UNCHANGED <<superseded, uses, now, superseding>>

Flipped(decision) == IF decision = "allow" THEN "deny" ELSE "allow"

(* handle_supersede reads the rules; a rule that is not recorded is an     *)
(* error.  The person gives both identities.                               *)
ReadExisting(c) ==
    /\ superseding[c] = {}
    /\ \E old \in Recorded, new \in PermissionIds :
          superseding' = [superseding EXCEPT ![c] = {[old |-> old, new |-> new, rule |-> rules[old]]}]
    /\ UNCHANGED <<rules, superseded, uses, now>>

(* The transaction of supersede: both rows or, when the new identity is    *)
(* taken, neither.                                                         *)
Supersede(c) ==
    /\ \E s \in superseding[c] :
          /\ rules' = With(s.new, [s.rule EXCEPT !.decision = Flipped(@)])
          /\ superseded' = IF s.new \in Recorded THEN superseded ELSE superseded \cup {s.old}
    /\ superseding' = [superseding EXCEPT ![c] = {}]
    /\ UNCHANGED <<uses, now>>

(* record_use: a row of its own. *)
RecordUse ==
    /\ uses < MaxUses
    /\ Recorded # {}
    /\ uses' = uses + 1
    /\ UNCHANGED <<rules, superseded, now, superseding>>

Tick ==
    /\ now < LastInstant
    /\ now' = now + 1
    /\ UNCHANGED <<rules, superseded, uses, superseding>>

PermissionNext ==
    \/ AppendRule("allow")
    \/ AppendRule("deny")
    \/ \E c \in Clients : ReadExisting(c) \/ Supersede(c)
    \/ RecordUse
    \/ Tick

PermissionSpec == PermissionInit /\ [][PermissionNext]_permissionVars

-----------------------------------------------------------------------------
(* The denials that cover a request. *)
Denials(action, path) == Deciding(action, path, "deny")

(* A request that is denied stays denied until each rule that denies it    *)
(* has expired or a person has superseded that very rule: no allowance,    *)
(* use, or supersession of another rule lifts it, in any order of the      *)
(* commands (context-store/src/permissions.rs, authority/matcher.rs).      *)
DenialStands ==
    [][\A a \in Actions, p \in Paths :
          Decision(a, p) = "deny" /\ Decision(a, p)' # "deny" =>
              \A id \in Denials(a, p) :
                  \/ Expired(rules[id])'
                  \/ \E c \in Clients : \E s \in superseding[c] :
                        s.old = id /\ id \in superseded' \ superseded]_permissionVars
==============================================================================
