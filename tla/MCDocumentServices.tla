-------------------------- MODULE MCDocumentServices --------------------------
(***************************************************************************)
(* One or two of everything: two requests for one template, two workers    *)
(* for one file, two processes for one rule.                               *)
(***************************************************************************)
EXTENDS DocumentServices, TLC

MCLayouts == {[text |-> {"x"}, images |-> {}], [text |-> {"x"}, images |-> {"y"}]}

MCForms == {[mode |-> "llm_prompt", saved |-> FALSE, sql |-> FALSE, params |-> {}, active |-> TRUE],
            [mode |-> "manual_sql", saved |-> FALSE, sql |-> TRUE, params |-> {"y"}, active |-> TRUE],
            [mode |-> "manual_sql", saved |-> FALSE, sql |-> FALSE, params |-> {}, active |-> FALSE]}

Element(k, t, r) == [kind |-> k, text |-> t, rows |-> r]

MCElements == {Element("head", "a", <<>>), Element("bold", "b", <<>>), Element("para", "b", <<>>),
               Element("para", "c", <<>>), Element("para", "", <<>>), Element("list", "d", <<>>),
               Element("table", "t", <<"a", "", "u", "v">>)}

MCFormats == {<<"pdf", "pdf">>, <<"html", "html">>, <<"zip", "docx">>, <<"zip", "xlsx">>, <<"other", "pdf">>, <<"other", "other">>}

MCDocuments ==
    {[bytes |-> f[1], hint |-> f[2], body |-> body] :
        f \in MCFormats, body \in UNION {[1..n -> MCElements] : n \in 0..4}}

MCInputDefs == {[name |-> "x", required |-> TRUE, default |-> "none"], [name |-> "x", required |-> TRUE, default |-> "ok"],
                [name |-> "x", required |-> FALSE, default |-> "none"]}
MCBindDefs  == {[name |-> "x", source |-> "runtime"], [name |-> "x", source |-> "datasource"]}
MCGuards    == {{}, {"safe_mode", "topic"}}
MCAnswers   == {[taint |-> {}, json |-> TRUE, good |-> TRUE, names |-> TRUE],
                [taint |-> {}, json |-> TRUE, good |-> FALSE, names |-> FALSE],
                [taint |-> {}, json |-> FALSE, good |-> TRUE, names |-> FALSE],
                [taint |-> {"topic"}, json |-> TRUE, good |-> TRUE, names |-> TRUE]}

MCFiles == {[ext |-> "image", text |-> "a", tools |-> {"tesseract"}, invoice |-> FALSE],
            [ext |-> "pdf", text |-> "b", tools |-> {"pdfminer", "pypdf"}, invoice |-> TRUE],
            [ext |-> "office", text |-> "b", tools |-> {}, invoice |-> FALSE]}
MCSimilarity    == [x \in {"", "a", "b"} |-> [y \in {"a", "b"} |-> IF x = y THEN 100 ELSE 10]]
MCBuiltInFields == ("a" :> {"amount"} @@ "b" :> {"email"})
MCRuleBodies    == {[field |-> "amount", on |-> {"a"}], [field |-> "email", on |-> {"b"}]}
MCMappingRows   == {[source |-> "amount", target |-> "email", active |-> TRUE]}

=============================================================================
