----------------------------- MODULE PolicyEngine -----------------------------
(***************************************************************************)
(* services/policy/policy.go: the rule table, the default, and goroutines  *)
(* in Evaluate.  Evaluate copies what it needs under the read lock, then   *)
(* judges, audits and returns without it.  LoadSafeDefaults adds its rules *)
(* one AddRule at a time.  EvaluateMessage is Evaluate with the message's  *)
(* type as the action.                                                     *)
(***************************************************************************)
EXTENDS Naturals, Sequences

CONSTANTS
    Actions,        \* action names; the empty name is not one of them
    Capabilities,   \* capabilities; "" is none
    Evaluators,     \* goroutines that call Evaluate
    SafeDefaults    \* LoadSafeDefaults' rules in order: [action, rule]

ASSUME PolicyAssumption ==
    /\ Len(SafeDefaults) \in Nat \ {0}
    /\ \A i \in 1 .. Len(SafeDefaults) :
        /\ SafeDefaults[i].action \in Actions
        /\ SafeDefaults[i].rule \in
              [verdict : {"allow", "deny", "confirm"}, capability : Capabilities]

VARIABLES
    rules,          \* e.rules: action -> rule
    defaultDeny,    \* e.defaultDeny
    loading,        \* the rules LoadSafeDefaults has added, while it runs
    eval,           \* of each evaluator: the call it is in
    inForce         \* history: of each evaluator in a call, the answers to
                    \* its request under the tables there were meanwhile

tableVars == <<rules, defaultDeny>>
policyVars == <<tableVars, loading, eval, inForce>>

(* "other" is a verdict of a rule that is none of the three constants; no  *)
(* case of Evaluate's switch takes it, and what it returns keeps its zero  *)
(* values: not allowed, with a Verdict that reads VerdictAllow.            *)
Verdicts == {"allow", "deny", "confirm", "other"}
Rules == [verdict : Verdicts, capability : Capabilities]
NoRule == [verdict |-> "none", capability |-> ""]
NoEval == [at |-> "idle"]

Requests == [at : {"called"}, action : Actions, capability : Capabilities]
Readings == [at : {"read"}, action : Actions, capability : Capabilities,
             rule : Rules \cup {NoRule}, deny : BOOLEAN]
Outcomes == [at : {"returned"}, verdict : Verdicts, audited : {"allow", "deny"}]

PolicyTypeOK ==
    /\ rules \in [Actions -> Rules \cup {NoRule}]
    /\ defaultDeny \in BOOLEAN
    /\ loading \in 0 .. (Len(SafeDefaults) - 1)
    /\ eval \in [Evaluators -> {NoEval} \cup Requests \cup Readings \cup Outcomes]
    /\ inForce \in [Evaluators -> SUBSET Verdicts]

NewEngine ==
    /\ rules = [a \in Actions |-> NoRule]
    /\ defaultDeny \in BOOLEAN
    /\ loading = 0
    /\ eval = [v \in Evaluators |-> NoEval]
    /\ inForce = [v \in Evaluators |-> {}]

(* Evaluate's verdict on a request with this capability, from the rule it  *)
(* found and the default.  Allowed is: the verdict is "allow".             *)
Judge(rule, deny, capability) ==
    CASE rule = NoRule -> IF deny THEN "deny" ELSE "allow"
      [] rule.verdict = "allow" ->
            IF rule.capability \in {"", capability} THEN "allow" ELSE "deny"
      [] OTHER -> rule.verdict

(* The histories of the calls that are under way after the tables changed. *)
Watch ==
    inForce' = [v \in Evaluators |->
        IF eval[v].at \in {"called", "read"}
        THEN inForce[v] \cup {Judge(rules'[eval[v].action], defaultDeny', eval[v].capability)}
        ELSE inForce[v]]
-----------------------------------------------------------------------------
SetRule(action, rule) ==
    /\ rules' = [rules EXCEPT ![action] = rule]
    /\ UNCHANGED <<defaultDeny, eval>>
    /\ Watch

AddRule(action, rule) == SetRule(action, rule) /\ UNCHANGED loading

RemoveRule(action) == SetRule(action, NoRule) /\ UNCHANGED loading

SetDefaultDeny(deny) ==
    /\ defaultDeny' = deny
    /\ UNCHANGED <<rules, loading, eval>>
    /\ Watch

(* One iteration of LoadSafeDefaults' loops; after the last it returns. *)
LoadSafeDefaults ==
    LET next == SafeDefaults[loading + 1] IN
    /\ SetRule(next.action, next.rule)
    /\ loading' = (loading + 1) % Len(SafeDefaults)

Call(v, action, capability) ==
    /\ eval[v] = NoEval
    /\ eval' = [eval EXCEPT ![v] =
            [at |-> "called", action |-> action, capability |-> capability]]
    /\ inForce' = [inForce EXCEPT ![v] = {Judge(rules[action], defaultDeny, capability)}]
    /\ UNCHANGED <<tableVars, loading>>

(* Mutation of Judged: the default is read after the lock is released. *)
Judged_by_later_default(v) == Judge(eval[v].rule, defaultDeny, eval[v].capability)

(* rule, exists := e.rules[req.Action]; defaultDeny := e.defaultDeny *)
Read(v) ==
    /\ eval[v].at = "called"
    /\ eval' = [eval EXCEPT ![v] =
            [at |-> "read", action |-> @.action, capability |-> @.capability,
             rule |-> rules[@.action], deny |-> defaultDeny]]
    /\ UNCHANGED <<tableVars, loading, inForce>>

Judged(v) == Judge(eval[v].rule, eval[v].deny, eval[v].capability)

(* The verdict, the audit entry ("deny" unless allowed), and the return. *)
Decide(v) ==
    /\ eval[v].at = "read"
    /\ eval' = [eval EXCEPT ![v] =
            [at |-> "returned", verdict |-> Judged(v),
             audited |-> IF Judged(v) = "allow" THEN "allow" ELSE "deny"]]
    /\ UNCHANGED <<tableVars, loading, inForce>>

(* The caller uses the result and is free for the next request. *)
Used(v) ==
    /\ eval[v].at = "returned"
    /\ eval' = [eval EXCEPT ![v] = NoEval]
    /\ inForce' = [inForce EXCEPT ![v] = {}]
    /\ UNCHANGED <<tableVars, loading>>

PolicyNext ==
    \/ \E a \in Actions, r \in Rules : AddRule(a, r)
    \/ \E a \in Actions : RemoveRule(a)
    \/ \E deny \in BOOLEAN : SetDefaultDeny(deny)
    \/ LoadSafeDefaults
    \/ \E v \in Evaluators :
        \/ \E a \in Actions, c \in Capabilities : Call(v, a, c)
        \/ Read(v) \/ Decide(v) \/ Used(v)

PolicySpec == NewEngine /\ [][PolicyNext]_policyVars
-----------------------------------------------------------------------------
(* Evaluate gives an answer that the rules and the default gave together   *)
(* at one moment of the call.  An operator who first adds a denying rule   *)
(* and then relaxes the default lets nothing through in between, also when *)
(* the request reads its rule before and returns after both.               *)
JudgedAtOneMoment ==
    \A v \in Evaluators :
        eval[v].at = "returned" => eval[v].verdict \in inForce[v]
=============================================================================
