--------------------------- MODULE DocumentServices ---------------------------
(***************************************************************************)
(* The services around documents: Template Builder (templates, rendering,  *)
(* imports), the runs and tests of Prompt Builder, and DocAI.  As in       *)
(* module Configuration a behaviour is about one subject: requests about   *)
(* it interleave, the tables of the others stay as they were.  A subject   *)
(* comes with the requests that make the rows it needs, and where rows of  *)
(* one table have nothing to do with each other the first one stands for   *)
(* all.                                                                    *)
(***************************************************************************)
EXTENDS RenderJobs, TemplateImport, PromptRuns, DocParsing

VARIABLE subject

documentVars == <<subject, templateVars, renderVars, importVars, promptVars, parsingVars>>

\* Ids are given out from 1, and there are a name and a form to use.
ASSUME ServicesAssumption == 1 \in TplIds \cap RegIds \cap Prompts /\ Names # {} /\ Forms # {}

Subjects == {"editing", "template", "block", "placeholder", "tests", "documents", "imports", "prompts", "evaluations", "training", "rules", "accounts"}

Init ==
    /\ subject \in Subjects
    /\ TemplateInit /\ RenderInit /\ ImportInit /\ PromptInit /\ ParsingInit

NewTemplates == \E t \in TplIds, l \in Layouts : create_template(t, l)

PromptInputs == \E p \in Prompts, I \in SUBSET InputDefs : replace_prompt_inputs(p, I)

\* What a placeholder is like does not matter to the marketplace.
ListedPlaceholders ==
    \E r \in RegIds : delete_placeholder(r) \/ \E n \in Names : create_placeholder(r, n, CHOOSE f \in Forms : TRUE)

\* What is listed on the marketplace is the subject.
Market ==
    \/ subject = "template" /\ NewTemplates
    \/ subject = "block" /\ BlockRoutes
    \/ subject = "placeholder" /\ ListedPlaceholders
    \/ subject \in {"template", "block", "placeholder"} /\ MarketRoutes(subject)

StoreRoutes ==
    \/ subject = "editing" /\ TemplateRoutes(1)
    \/ Market
    \/ subject = "tests" /\ (NewTemplates \/ PlaceholderRoutes \/ BindingRoutes \/ TestRoutes)
    \/ subject = "documents" /\ (NewTemplates \/ \E f \in Forms : create_placeholder(1, CHOOSE n \in Names : TRUE, f) \/ bind_placeholder(1, 1))

TemplateBuilder ==
    /\ \/ StoreRoutes /\ UNCHANGED <<renderVars, importVars>>
       \/ subject = "documents" /\ RenderNext /\ UNCHANGED importVars
       \/ subject = "imports" /\ ImportNext /\ UNCHANGED <<templateVars, renderVars>>
    /\ UNCHANGED <<promptVars, parsingVars>>

PromptBuilder ==
    /\ \/ subject = "prompts" /\ (create_prompt(1) \/ EditPrompt(1) \/ RunPrompts)
       \/ subject = "evaluations" /\ (NewPrompts \/ PromptInputs \/ RunPrompts \/ TestPrompts)
    /\ UNCHANGED <<templateVars, renderVars, importVars, parsingVars>>

DocAI ==
    /\ \E p \in Processes :
          \/ subject = "training" /\ (TrainTypes(p) \/ EditMappings(p) \/ ParseFiles(p))
          \/ subject = "rules" /\ (dtype = [t \in DocTypes |-> NoDocRow] \/ djob[p].op = "train") /\ TrainTypes(p)
          \/ subject = "rules" /\ EditRules(p)
          \/ subject = "accounts" /\ Accounts(p)
          \/ subject \in {"training", "rules", "accounts"} /\ ProcessDies(p)
    /\ UNCHANGED <<templateVars, renderVars, importVars, promptVars>>

Next == UNCHANGED subject /\ (TemplateBuilder \/ PromptBuilder \/ DocAI)

Spec == Init /\ [][Next]_documentVars

=============================================================================
