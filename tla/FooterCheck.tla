---------------------------- MODULE FooterCheck ----------------------------
(***************************************************************************)
(* The required check of a pull request: a governor-changing one needs a   *)
(* Governor Footer in its description (tools/check_governor_footer.py).    *)
(* The same shared policy stands behind the reminder of the hooks, so the  *)
(* two can be compared.  No state: a body is a sequence of lines, a line   *)
(* a record of what the regular expressions of the tool make of it.        *)
(***************************************************************************)
EXTENDS GovernorGate, Naturals

FIELD_ORDER == <<"trigger", "reviewer", "rounds", "r-points-fixed", "r-points-deferred",
                 "r-points-rejected", "touched-adr-consequences", "pr-scope-notes",
                 "final-verdict", "links">>
RequiredFields == {FIELD_ORDER[i] : i \in DOMAIN FIELD_ORDER}
TRIGGER_VALUES == {"yes", "no"}
VERDICT_VALUES == {"merge-ready", "minor-fixes", "needs-reinforcement", "block"}
INTEGER_FIELDS == {"rounds", "r-points-fixed", "r-points-deferred", "r-points-rejected"}

\* A value: its text, what it is as a number (Nothing unless all of it is
\* digits), and the kinds of its entries between commas.
EntryKinds == {"none", "n/a", "adr_id", "url", "other"}

\* A line: "footer" is the heading at the margin and "footer_indented" the same
\* heading anywhere else; "heading" any other second-level heading; "fence" the
\* first or last line of a code block; "field" what LINE_RE matches.
LineKinds == {"fence", "footer", "footer_indented", "heading", "blank", "field", "other"}

\* A body: its lines, and where BYPASS_TOKEN occurs in it.
BypassPlaces == {"nowhere", "in_code", "in_text"}
BypassesCheck(body) == body.bypass = "in_text"

-----------------------------------------------------------------------------
(* Finding the block.                                                       *)

\* Every fence toggles: a line counts when an even number of them is before it.
FencesBefore(lines, i) == Cardinality({j \in 1 .. i - 1 : lines[j].kind = "fence"})
StrippedLines(lines) ==
    {i \in DOMAIN lines : lines[i].kind # "fence" /\ FencesBefore(lines, i) % 2 = 0}

\* The first heading outside of code; 0 when there is none.
IsFooterHeading(line) == line.kind \in {"footer", "footer_indented"}
FooterHeading(lines) ==
    LET found == {i \in StrippedLines(lines) : IsFooterHeading(lines[i])}
    IN  IF found = {} THEN 0 ELSE CHOOSE i \in found : \A j \in found : i <= j

\* Its lines, up to the next second-level heading at the margin.
EndsBlock(line) == line.kind \in {"footer", "heading"}
FooterBlock(lines) ==
    LET h == FooterHeading(lines)
    IN  {i \in StrippedLines(lines) :
            h < i /\ \A j \in StrippedLines(lines) : h < j /\ j <= i => ~EndsBlock(lines[j])}

-----------------------------------------------------------------------------
(* Reading the block.  A violation is a pair of a rule and what broke it.   *)

\* The lines that name a field for the first time; the others are duplicates.
FieldLines(lines) == {i \in FooterBlock(lines) : lines[i].kind = "field"}
Kept(lines) ==
    {i \in FieldLines(lines) : \A j \in FieldLines(lines) : j < i => lines[j].field # lines[i].field}
HasField(lines, f) == \E i \in Kept(lines) : lines[i].field = f
ValueOf(lines, f) == lines[CHOOSE i \in Kept(lines) : lines[i].field = f].value

ValidValue(field, value) ==
    /\ field = "trigger" => value.text \in TRIGGER_VALUES
    /\ field = "final-verdict" => value.text \in VERDICT_VALUES
    /\ field \in INTEGER_FIELDS => value.number # Nothing
    /\ field = "touched-adr-consequences" => value.text = "none" \/ value.entries \subseteq {"adr_id"}
    /\ field = "links" => value.entries \subseteq {"n/a", "url"}

\* The rules for single lines.
LineViolations(lines) ==
    {<<"shape", i>> : i \in {j \in FooterBlock(lines) : lines[j].kind \notin {"field", "blank"}}}
    \union {<<"duplicate", i>> : i \in FieldLines(lines) \ Kept(lines)}
    \union {<<"value", i>> : i \in {j \in Kept(lines) : ~ValidValue(lines[j].field, lines[j].value)}}

\* The rules for all fields together.
Rank(f) == CHOOSE k \in DOMAIN FIELD_ORDER : FIELD_ORDER[k] = f
FieldViolations(lines) ==
    {<<"missing", f>> : f \in {g \in RequiredFields : ~HasField(lines, g)}}
    \union {<<"unexpected", i>> : i \in {j \in Kept(lines) : lines[j].field \notin RequiredFields}}

OutOfOrder(lines) ==
    {<<"order", i>> : i \in {j \in Kept(lines) : /\ lines[j].field \in RequiredFields
                                                /\ \E k \in Kept(lines) :
                                                      /\ lines[k].field \in RequiredFields
                                                      /\ k < j
                                                      /\ Rank(lines[j].field) < Rank(lines[k].field)}}

NoRounds(lines) ==
    IF /\ HasField(lines, "rounds") /\ HasField(lines, "trigger")
       /\ ValueOf(lines, "trigger").text = "yes" /\ ValueOf(lines, "rounds").number = 0
    THEN {<<"rounds", 0>>} ELSE {}

\* parse_footer: whether there is a footer, and what is wrong with it.  One
\* that declares no trigger is not looked at any further.
FooterFound(body) == ~BypassesCheck(body) /\ FooterHeading(body.lines) # 0
DeclaresNo(lines) == HasField(lines, "trigger") /\ ValueOf(lines, "trigger").text = "no"
FooterViolations(body) ==
    IF ~FooterFound(body) \/ DeclaresNo(body.lines) THEN {}
    ELSE LineViolations(body.lines) \union FieldViolations(body.lines)
            \union OutOfOrder(body.lines) \union NoRounds(body.lines)

-----------------------------------------------------------------------------
(* The check of a pull request with these changed files.                    *)

\* _is_governor_changing, over the functions of the shared policy.
RequiresFooter(changed) == changed # {} /\ ~IsLogOnlyBackfill(changed) /\ IsGovernorChanging(changed)

CheckBody(body, required, changed) ==
    LET governor == required /\ RequiresFooter(changed)
    IN  IF BypassesCheck(body) THEN IF governor THEN {<<"bypass", 0>>} ELSE {}
        ELSE FooterViolations(body) \union
             CASE ~governor -> {}
               [] governor /\ ~FooterFound(body) -> {<<"no_footer", 0>>}
               [] OTHER -> IF HasField(body.lines, "trigger") /\ ValueOf(body.lines, "trigger").text # "yes"
                           THEN {<<"trigger", 0>>} ELSE {}

\* main: the exit status.
Passes(body, required, changed) == CheckBody(body, required, changed) = {}
=============================================================================
