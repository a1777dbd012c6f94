---------------------------- MODULE IntentRouting -----------------------------
(***************************************************************************)
(* How a request is given an intent and a route: the intents and their     *)
(* policies (FlowEngine modules/intents, tables eivs.intents and           *)
(* eivs.intent_policies), the classification of a request by a language    *)
(* model (eivs/intent_service.py) and the three steps of a plan that use   *)
(* them: intent_classify, policy_route and intent_validate.  Policies are  *)
(* read when a request is classified and again when it is routed, and may  *)
(* be edited at any time between.                                          *)
(***************************************************************************)
EXTENDS Naturals, Sequences, FiniteSets

CONSTANTS
    IntentTenants, Codes, Languages,
    Rules,              \* what a policy may say: thresholds and multi_intent_mode
    Confidences,        \* what the model reports, 0 to 100
    RawChecks,          \* the checks an agent may report, as it writes them
    IntentRequests,
    MaxIntents, MaxPolicies,
    NoRule

ASSUME ConfidencesAssumption == Confidences \subseteq Nat

VARIABLES
    intents,    \* eivs.intents with its eivs.intent_policies, by tenant and code
    runs        \* eivs.email_intent_runs and the results of the three steps

routingVars == <<intents, runs>>

NoIntent == [row |-> FALSE, pol |-> {}]
NoRun == [pc |-> "new", got |-> <<>>, lang |-> "none", stored |-> "none", routed |-> "none",
          ticket |-> FALSE, checks |-> {}, verdict |-> "none"]

RoutingInit ==
    /\ intents = [k \in IntentTenants \X Codes |-> NoIntent]
    /\ runs = [r \in IntentRequests |-> NoRun]

IntentRows  == {k \in DOMAIN intents : intents[k].row}
PolicyCount == Cardinality(UNION {{k} \X intents[k].pol : k \in IntentRows})

-----------------------------------------------------------------------------
(* The routes of modules/intents.  A code is unique per tenant, a policy per *)
(* intent and language; a duplicate is refused and changes nothing.          *)

create_intent(k, P) ==
    /\ ~intents[k].row /\ Cardinality(IntentRows) < MaxIntents
    /\ PolicyCount + Cardinality(P) <= MaxPolicies
    /\ intents' = [intents EXCEPT ![k] = [row |-> TRUE, pol |-> P]]
    /\ UNCHANGED runs

\* The code may change to one the tenant does not use; the policies go along.
\* (is_active only decides what the model is offered, and it may answer with
\* any code: it is left out.)
update_intent(k, code) ==
    LET n == <<k[1], code>>
    IN  /\ intents[k].row /\ ~intents[n].row
        /\ intents' = [intents EXCEPT ![k] = NoIntent, ![n] = intents[k]]
        /\ UNCHANGED runs

\* Policies and validation rules go with it (ON DELETE CASCADE).
delete_intent(k) ==
    /\ intents[k].row
    /\ intents' = [intents EXCEPT ![k] = NoIntent]
    /\ UNCHANGED runs

create_intent_policy(k, l, u) ==
    /\ intents[k].row /\ PolicyCount < MaxPolicies
    /\ \A p \in intents[k].pol : p.lang # l
    /\ intents' = [intents EXCEPT ![k].pol = @ \cup {[lang |-> l, rule |-> u]}]
    /\ UNCHANGED runs

update_intent_policy(k, p, l, u) ==
    /\ p \in intents[k].pol
    /\ \A o \in intents[k].pol \ {p} : o.lang # l
    /\ intents' = [intents EXCEPT ![k].pol = (@ \ {p}) \cup {[lang |-> l, rule |-> u]}]
    /\ UNCHANGED runs

delete_intent_policy(k, p) ==
    /\ p \in intents[k].pol
    /\ intents' = [intents EXCEPT ![k].pol = @ \ {p}]
    /\ UNCHANGED runs

IntentRoutes ==
    \E k \in IntentTenants \X Codes, l \in Languages, u \in Rules :
        \/ create_intent(k, {}) \/ create_intent(k, {[lang |-> l, rule |-> u]})
        \/ \E c \in Codes : update_intent(k, c)
        \/ delete_intent(k)
        \/ create_intent_policy(k, l, u)
        \/ \E p \in intents[k].pol : update_intent_policy(k, p, l, u) \/ delete_intent_policy(k, p)

-----------------------------------------------------------------------------
(* Choosing policies and routing. *)

\* The policies that may be chosen from one intent's: the language asked for,
\* else 'multi', else whichever comes first.
ChosenOf(P, lang) ==
    LET exact == {p \in P : p.lang = lang}
        multi == {p \in P : p.lang = "multi"}
    IN  IF exact # {} THEN exact ELSE IF multi # {} THEN multi ELSE P

\* The rule in force for a code.  Intents are looked up by their code alone: of
\* several tenants' rows the last one read counts, inactive or not.
SelectedRules(code, lang) ==
    LET K == {k \in IntentRows : k[2] = code}
    IN  IF K = {} THEN {NoRule}
        ELSE UNION {IF intents[k].pol = {} THEN {NoRule}
                    ELSE {p.rule : p \in ChosenOf(intents[k].pol, lang)} : k \in K}

\* _select_policies_for_intents: one rule for each code that was classified.
SelectPolicies(got, lang) ==
    LET C == {got[i].code : i \in DOMAIN got}
    IN  {f \in [C -> Rules \cup {NoRule}] : \A c \in C : f[c] \in SelectedRules(c, lang)}

DefaultRule == [auto |-> 85, manual |-> 60, mode |-> "DEFAULT"]

\* Mutant: what reaches the manual threshold is processed automatically.
LevelSwapped(pol, ci) ==
    LET u == IF pol[ci.code] = NoRule THEN DefaultRule ELSE pol[ci.code]
    IN  IF ci.conf >= u.manual THEN "auto" ELSE IF ci.conf >= u.auto THEN "manual" ELSE "low"

Level(pol, ci) ==
    LET u == IF pol[ci.code] = NoRule THEN DefaultRule ELSE pol[ci.code]
    IN  IF ci.conf >= u.auto THEN "auto" ELSE IF ci.conf >= u.manual THEN "manual" ELSE "low"

\* The first of those with the highest confidence.
Primary(got) == got[CHOOSE i \in DOMAIN got :
                        /\ \A j \in DOMAIN got : got[j].conf <= got[i].conf
                        /\ \A j \in 1 .. i - 1 : got[j].conf < got[i].conf]

apply_routing_logic(got, pol) ==
    IF got = <<>> THEN "MANUAL_REVIEW"
    ELSE LET top    == Primary(got)
             levels == {Level(pol, got[i]) : i \in DOMAIN got}
             mode   == IF pol[top.code] = NoRule THEN "DEFAULT" ELSE pol[top.code].mode
         IN  CASE mode = "DEFAULT" /\ Level(pol, top) = "low" -> "REROUTE"
               [] \/ mode = "DEFAULT" /\ Level(pol, top) = "auto"
                  \/ mode = "STRICT_SINGLE" /\ Len(got) = 1 /\ Level(pol, top) = "auto"
                  \/ mode = "AUTO_ALL" /\ "auto" \in levels
                  \/ mode = "AUTO_SUBSET" /\ "auto" \in levels /\ "manual" \notin levels
                  -> "AUTO_PROCESS"
               [] OTHER -> "MANUAL_REVIEW"

-----------------------------------------------------------------------------
(* The steps of a request. *)

\* classify_email and classify_request commit a row with the careful outcome
\* before they ask the model.
ProvisionalRun(r) ==
    /\ runs[r].pc = "new"
    /\ runs' = [runs EXCEPT ![r].pc = "asked", ![r].stored = "MANUAL_REVIEW"]
    /\ UNCHANGED intents

\* The model does not answer, or its answer is not the JSON asked for: the
\* provisional row is the result, and the step succeeds.
LlmFails(r) ==
    /\ runs[r].pc = "asked"
    /\ runs' = [runs EXCEPT ![r].pc = "classified"]
    /\ UNCHANGED intents

\* The model's intents (which need not be ones it was offered) are routed and
\* the row is written over.
Classify(r, got, lang) ==
    /\ runs[r].pc = "asked"
    /\ \E pol \in SelectPolicies(got, lang) :
         runs' = [runs EXCEPT ![r] = [@ EXCEPT !.pc = "classified", !.got = got, !.lang = lang,
                                               !.stored = apply_routing_logic(got, pol)]]
    /\ UNCHANGED intents

\* policy_route: the policies as they are now, whatever was stored.  A request
\* for a person raises a ticket at once.  (Nothing reads the intents any more,
\* so the model lets go of them.)
policy_route(r) ==
    /\ runs[r].pc = "classified"
    /\ \E pol \in SelectPolicies(runs[r].got, runs[r].lang) :
         LET d == apply_routing_logic(runs[r].got, pol)
         IN  runs' = [runs EXCEPT ![r] = [@ EXCEPT !.pc = "routed", !.got = <<>>, !.routed = d,
                                                   !.ticket = d = "MANUAL_REVIEW"]]
    /\ UNCHANGED intents

-----------------------------------------------------------------------------
(* intent_validate: an agent makes the checks, the verdict is computed here. *)

\* The status words that count as a pass.
PassWords == {"SUCCESS", "PASS", "PASSED", "TRUE", "OK", "YES"}

\* A severity that is neither is CRITICAL; without a Boolean a status word is
\* looked for, and a check that says nothing has failed.
_normalize_check(c) ==
    [severity |-> IF c.severity \in {"CRITICAL", "WARNING"} THEN c.severity ELSE "CRITICAL",
     passed   |-> IF c.passed \in {"true", "false"} THEN c.passed = "true"
                  ELSE c.status \in PassWords]

\* Mutant: the agent's own overall_status is believed.
BelieveAgent(raw, claim) == claim

overall_status(raw, claim) ==
    LET failed == {c \in raw : ~_normalize_check(c).passed}
    IN  IF raw = {} THEN "PARTIAL"
        ELSE IF \E c \in failed : _normalize_check(c).severity = "CRITICAL" THEN "FAILED"
        ELSE IF failed # {} THEN "PARTIAL" ELSE "SUCCESS"

\* It follows the classification, as policy_route does.  An agent that ends in
\* any other way than success has verified nothing.
intent_validate(r, ok, raw, claim) ==
    /\ runs[r].pc = "classified" /\ (~ok => raw = {})
    /\ runs' = [runs EXCEPT ![r] = [@ EXCEPT !.pc = "validated", !.got = <<>>, !.checks = raw,
                    !.verdict = IF ok THEN overall_status(raw, claim) ELSE "PARTIAL"]]
    /\ UNCHANGED intents

Guesses == UNION {[1 .. n -> [code : Codes, conf : Confidences]] : n \in 0 .. 2}

RequestSteps(r) ==
    \/ ProvisionalRun(r) \/ LlmFails(r) \/ policy_route(r)
    \/ \E got \in Guesses, lang \in Languages : Classify(r, got, lang)
    \/ \E ok \in BOOLEAN, raw \in SUBSET RawChecks, claim \in {"SUCCESS", "PARTIAL", "FAILED"} :
          intent_validate(r, ok, raw, claim)

RoutingNext == IntentRoutes \/ \E r \in IntentRequests : RequestSteps(r)

-----------------------------------------------------------------------------
(* What routing promises. *)

\* Some rule for the intent's code, in some language, lets its confidence
\* through; a code no rule is in force for answers to the default.
Backed(ci) ==
    LET U == UNION {SelectedRules(ci.code, l) : l \in Languages \cup {"none"}}
    IN  \/ \E u \in U \ {NoRule} : ci.conf >= u.auto
        \/ NoRule \in U /\ ci.conf >= DefaultRule.auto

\* policy_route sends a request to automatic processing only with an intent
\* whose confidence reaches the threshold in force at that moment, however the
\* policies were edited since the request was classified; a request the model
\* did not answer for, or answered without an intent, is never sent there.
RoutedOnEvidence ==
    [][\A r \in IntentRequests :
         (runs'[r].routed = "AUTO_PROCESS" /\ runs[r].routed # "AUTO_PROCESS")
            => \E i \in DOMAIN runs[r].got : Backed(runs[r].got[i])]_routingVars

\* is_auto_process_safe (a SUCCESS verdict) means that the agent reported at
\* least one check and none that says anything but a pass, whatever the agent
\* claims overall and however it words its checks; and a verdict of PARTIAL,
\* which lets a request be recovered, never covers up a failed critical check.
SafeIsVerified ==
    \A r \in IntentRequests :
        LET Says(c) == c.passed = "true" \/ (c.passed # "false" /\ c.status \in PassWords)
        IN  /\ runs[r].verdict = "SUCCESS" =>
                  runs[r].checks # {} /\ \A c \in runs[r].checks : Says(c)
            /\ runs[r].verdict = "PARTIAL" =>
                  \A c \in runs[r].checks : Says(c) \/ c.severity = "WARNING"

=============================================================================
