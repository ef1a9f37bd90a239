----------------------------- MODULE PriceEditor -----------------------------
(***************************************************************************)
(* The editor of expression prices in the system settings of the web front *)
(* end: the price and the request rules a model is billed with, kept as    *)
(* one expression, shown as a form (visual mode) or as a text (raw mode).  *)
(*                                                                         *)
(* The panel keeps the price and the rules as two expressions; the editor  *)
(* inside it keeps what its controls show, and four React effects carry    *)
(* changes from one to the other.  An action is a handler of the user's    *)
(* event with the render it causes, or the effects of one render: they all *)
(* read the values of that render, and what they set is batched into the   *)
(* next one.  The user acts when no effect is left to run.                 *)
(*                                                                         *)
(* An expression is a base price and the layers of request rules it is     *)
(* multiplied with, the outermost one last; it stands for its text up to   *)
(* white space and the writing of numbers.  A layer is a sequence of       *)
(* factors, each one the sequence of the tests of its condition.  A        *)
(* configuration of the visual editor stands for the text it is written    *)
(* as, and is one that this text is read back as.                          *)
(***************************************************************************)
EXTENDS Naturals, Sequences, SequencesExt

CONSTANTS
    Configs,    \* prices the visual editor can show, as it writes them
    Default,    \* the one of createDefaultVisualConfig
    Loose,      \* prices of one tier it reads as another one: with cr * 0
    ReadAs,     \* what it reads them as: without
    Opaque,     \* prices it cannot show
    Groups,     \* rule groups the user may enter
    Presets,    \* the templates: a price and rule groups
    Typed,      \* expressions the user may type
    Stored,     \* expressions saved before
    MaxGroups,  \* bound on the rule groups shown
    MaxSaves    \* bound on saves

NoConfig == "null"
ZeroPrice == "p * 0 + c * 0"
Conditions == {"plain", "exists", "guarded", "blank"}
Tests == {"plain", "exists", "compare"}

(* multiplier: whether it is a number yet.                                 *)
RuleGroup == [multiplier : BOOLEAN, conditions : Seq(Conditions)]

(* Rules are multiplied with a price, so there are none without one.       *)
Rules == Seq(Seq(Tests) \ {<<>>})
Prices == Configs \cup Loose \cup Opaque
Exprs ==
    {e \in [base : Prices \cup {"", ZeroPrice}, layers : Seq(Rules \ {<<>>})] :
        e.base = "" => e.layers = <<>>}

ASSUME PriceEditorAssumption ==
    /\ Default \in Configs
    /\ Configs \cap Loose = {} /\ Opaque \cap (Configs \cup Loose) = {}
    /\ ReadAs \in [Loose -> Configs]
    /\ {"", NoConfig, ZeroPrice} \cap Prices = {}
    /\ Groups \subseteq RuleGroup
    /\ Presets \subseteq [expr : Prices, requestRules : Seq(RuleGroup)]
    /\ Typed \subseteq Exprs /\ Stored \subseteq Exprs
    /\ MaxGroups \in Nat /\ MaxSaves \in Nat

VARIABLES
    stored,      \* the model's entry in billing_setting.billing_expr
    open,        \* editorOpen
    isEdit,      \* the panel edits a saved model: its name is fixed
    named,       \* the name field is filled
    pricingMode, \* the tab
    panel,       \* billingExpr and requestRuleExpr of the panel
    editor,      \* the state of the mounted editor
    initRef,     \* initRef.current
    seen,        \* the panel as the effects of the last render saw it
    renamed,     \* modelName has changed since the last render
    settled,     \* no effect is left to run
    saves,
    intended,    \* the price the user has set (history)
    exempt       \* it is one the editor may lose (history)

history == <<intended, exempt>>
page == <<open, isEdit, named, pricingMode>>
vars == <<stored, page, panel, editor, initRef, seen, renamed, settled, saves,
          history>>

----------------------------------------------------------------------------
(* Expressions.                                                            *)

Price(base) == [base |-> base, layers |-> <<>>]
Empty == Price("")

(* The tests a condition is written as: a number compared with a parameter *)
(* and a text searched in one are guarded by a test that the parameter is  *)
(* there; an incomplete condition is left out.                             *)
buildRequestConditionExpr(c) ==
    CASE c = "blank" -> <<>>
      [] c = "guarded" -> <<"exists", "compare">>
      [] OTHER -> <<c>>

buildRuleGroupFactor(g) ==
    IF g.multiplier
    THEN FlattenSeq([i \in 1 .. Len(g.conditions) |->
                        buildRequestConditionExpr(g.conditions[i])])
    ELSE <<>>

(* x, unless the text it is written as is empty: filter(Boolean).          *)
IfAny(text, x) == IF text = <<>> THEN <<>> ELSE <<x>>

buildRequestRuleExpr(gs) ==
    FlattenSeq([i \in 1 .. Len(gs) |-> IfAny(buildRuleGroupFactor(gs[i]),
                                             buildRuleGroupFactor(gs[i]))])

(* The condition is split at its && before its tests are read one by one,  *)
(* so the second test of a guarded condition is read alone: and is not one *)
(* the reader knows.                                                       *)
tryParseRequestCondition(test) ==
    IF test \in {"plain", "exists"} THEN <<test>> ELSE <<>>

(* Mutant: one test that can be read is enough.                            *)
ParseSomeTest(f) == \E i \in 1 .. Len(f) : tryParseRequestCondition(f[i]) # <<>>

tryParseRuleGroupFactor(f) ==
    \A i \in 1 .. Len(f) : tryParseRequestCondition(f[i]) # <<>>

canUseVisualRules(rule) == \A i \in 1 .. Len(rule) : tryParseRuleGroupFactor(rule[i])

(* tryParseRequestRuleExpr(rule) || []                                     *)
tryParseRequestRuleExpr(rule) ==
    IF canUseVisualRules(rule)
    THEN [i \in 1 .. Len(rule) |->
            [multiplier |-> TRUE,
             conditions |-> FlattenSeq([k \in 1 .. Len(rule[i]) |->
                                tryParseRequestCondition(rule[i][k])])]]
    ELSE <<>>

combineBillingExpr(e, rule) ==
    IF e = Empty \/ rule = <<>> THEN e ELSE [e EXCEPT !.layers = Append(@, rule)]

splitBillingExprAndRequestRules(e) ==
    IF e.layers # <<>> /\ canUseVisualRules(Last(e.layers))
    THEN [billingExpr |-> [e EXCEPT !.layers = Front(@)],
          requestRuleExpr |-> Last(e.layers)]
    ELSE [billingExpr |-> e, requestRuleExpr |-> <<>>]

(* Prices with several tiers are read only if they are written the same    *)
(* way again; one tier is read in any case, and its coefficients that are  *)
(* zero are not written.                                                   *)
tryParseVisualConfig(e) ==
    IF e.layers # <<>> \/ e.base \notin Configs \cup Loose THEN NoConfig
    ELSE IF e.base \in Loose THEN ReadAs[e.base] ELSE e.base

generateExprFromVisualConfig(config) ==
    Price(IF config = NoConfig THEN ZeroPrice ELSE config)

createDefaultVisualConfig == Default

----------------------------------------------------------------------------
(* The editor.                                                             *)

(* Its state when it is mounted on a panel's expressions.                  *)
TieredPricingEditor(p) ==
    [mode |-> "visual",
     config |-> tryParseVisualConfig(p.billingExpr),
     rawExpr |-> combineBillingExpr(p.billingExpr, p.requestRuleExpr),
     groups |-> tryParseRequestRuleExpr(p.requestRuleExpr)]

NoEditor == [mode |-> "none", config |-> NoConfig, rawExpr |-> Empty, groups |-> <<>>]
Unseen == [billingExpr |-> Empty, requestRuleExpr |-> <<<<>>>>]

effectiveExpr(ed) ==
    IF ed.mode = "visual"
    THEN generateExprFromVisualConfig(ed.config)
    ELSE splitBillingExprAndRequestRules(ed.rawExpr).billingExpr

(* The first effect, where it does not return early: the editor is filled  *)
(* from the panel's expressions of this render.                            *)
initialize(ed, p) ==
    LET parsed == tryParseVisualConfig(p.billingExpr)
    IN [mode |-> IF parsed # NoConfig THEN "visual"
                 ELSE IF p.billingExpr # Empty THEN "raw" ELSE ed.mode,
        config |-> IF parsed = NoConfig /\ p.billingExpr = Empty
                   THEN createDefaultVisualConfig ELSE parsed,
        rawExpr |-> combineBillingExpr(p.billingExpr, p.requestRuleExpr),
        groups |-> tryParseRequestRuleExpr(p.requestRuleExpr)]

(* Mutant: the rules are not handed on.                                    *)
ReportPriceOnly(ed, p) == [p EXCEPT !.billingExpr = effectiveExpr(ed)]

(* What the third and fourth effect hand to the panel.                     *)
reported(ed, p) ==
    [billingExpr |-> effectiveExpr(ed),
     requestRuleExpr |-> IF ed.mode = "visual"
                         THEN buildRequestRuleExpr(ed.groups) ELSE p.requestRuleExpr]

(* The effects of one render; latch is what the first one sets initRef to. *)
(* The second one arms the first one again after mounting and whenever the *)
(* name has changed.                                                       *)
Effects(latch) ==
    LET first == ~initRef /\ seen # panel
    IN /\ ~settled
       /\ editor' = IF first THEN initialize(editor, panel) ELSE editor
       /\ initRef' = (~renamed /\ (initRef \/ (first /\ latch)))
       /\ panel' = reported(editor, panel)
       /\ seen' = panel /\ renamed' = FALSE
       /\ settled' = (editor' = editor /\ panel' = panel)
       /\ UNCHANGED <<stored, page, saves, history>>

(* Mutant: initRef is never set.                                           *)
EffectsUnlatched == Effects(FALSE)

useEffects == Effects(TRUE)

(* A render with no editor, or with a new one on the panel's expressions.  *)
Render(mode, p) ==
    /\ pricingMode' = mode /\ panel' = p
    /\ editor' = IF mode = "tiered_expr" THEN TieredPricingEditor(p) ELSE NoEditor
    /\ seen' = Unseen /\ initRef' = FALSE
    /\ renamed' = (mode = "tiered_expr") /\ settled' = (mode # "tiered_expr")

(* A price the visual editor can show and writes again as it is, with      *)
(* rules it can show.                                                      *)
Readable(e) ==
    /\ e.base \in Configs /\ Len(e.layers) <= 1
    /\ \A i \in 1 .. Len(e.layers) : canUseVisualRules(e.layers[i])

Intends(e) == intended' = e /\ exempt' = (exempt \/ ~Readable(e))

(* Set by an event that hands new rules to the panel at once, while the    *)
(* price follows by an effect: the first effect, if armed, runs in between *)
(* and puts the old price back.                                            *)
IntendsAtOnce(e) ==
    LET new == splitBillingExprAndRequestRules(e)
    IN /\ intended' = e
       /\ exempt' = \/ exempt \/ ~Readable(e)
                    \/ /\ ~initRef /\ new.requestRuleExpr # panel.requestRuleExpr
                       /\ new.billingExpr # panel.billingExpr

IntendsAfresh(e) == intended' = e /\ exempt' = ~Readable(e)

----------------------------------------------------------------------------
(* The panel.                                                              *)

handleEdit ==
    /\ settled
    /\ open' = TRUE /\ isEdit' = TRUE /\ named' = TRUE
    /\ Render(IF stored = Empty THEN "other" ELSE "tiered_expr",
              splitBillingExprAndRequestRules(stored))
    /\ IntendsAfresh(stored)
    /\ UNCHANGED <<stored, saves>>

handleAdd ==
    /\ settled /\ stored = Empty
    /\ open' = TRUE /\ isEdit' = FALSE /\ named' = FALSE
    /\ Render("other", [billingExpr |-> Empty, requestRuleExpr |-> <<>>])
    /\ IntendsAfresh(Empty)
    /\ UNCHANGED <<stored, saves>>

typeName ==
    /\ open /\ settled /\ ~isEdit
    /\ named' = TRUE
    /\ IF pricingMode = "tiered_expr"
       THEN renamed' = TRUE /\ settled' = FALSE
       ELSE UNCHANGED <<renamed, settled>>
    /\ UNCHANGED <<stored, open, isEdit, pricingMode, panel, editor, initRef, seen,
                   saves, history>>

(* A price opened where there was none starts as the default one.          *)
handlePricingModeChange(mode) ==
    /\ open /\ settled /\ mode # pricingMode
    /\ Render(mode, IF mode = "tiered_expr" /\ panel.billingExpr = Empty
                    THEN [panel EXCEPT !.billingExpr = Price(Default)] ELSE panel)
    /\ IF mode = "tiered_expr" /\ panel.billingExpr = Empty
       THEN IntendsAfresh(combineBillingExpr(Price(Default), panel.requestRuleExpr))
       ELSE UNCHANGED history
    /\ UNCHANGED <<stored, open, isEdit, named, saves>>

Submitted == combineBillingExpr(panel.billingExpr, panel.requestRuleExpr)

(* commitDraft, persistPricingData, and the panel loaded again with what   *)
(* was saved.                                                              *)
commitOpenEditor ==
    /\ open /\ settled /\ named /\ saves < MaxSaves
    /\ saves' = saves + 1
    /\ isEdit' = TRUE
    /\ stored' = IF pricingMode = "tiered_expr" THEN Submitted ELSE Empty
    /\ Render(pricingMode, IF pricingMode = "tiered_expr" THEN panel
                           ELSE [billingExpr |-> Empty, requestRuleExpr |-> <<>>])
    /\ IntendsAfresh(stored')
    /\ UNCHANGED <<open, named>>

----------------------------------------------------------------------------
(* The controls of the editor.                                             *)

Editing(mode) == open /\ settled /\ pricingMode = "tiered_expr" /\ editor.mode = mode

(* The event leaves the editor as ed and the panel with the given rules.   *)
Shows(ed, rule) ==
    /\ editor' = ed
    /\ panel' = [panel EXCEPT !.requestRuleExpr = rule]
    /\ settled' = FALSE
    /\ UNCHANGED <<stored, page, initRef, seen, renamed, saves>>

handleVisualChange(config) ==
    /\ Editing("visual")
    /\ Shows([editor EXCEPT !.config = config], panel.requestRuleExpr)
    /\ Intends(combineBillingExpr(Price(config), buildRequestRuleExpr(editor.groups)))

handleRuleGroupsChange(gs) ==
    /\ Editing("visual") /\ canUseVisualRules(panel.requestRuleExpr)
    /\ Shows([editor EXCEPT !.groups = gs], panel.requestRuleExpr)
    /\ Intends(combineBillingExpr(generateExprFromVisualConfig(editor.config),
                                  buildRequestRuleExpr(gs)))

addRuleGroup ==
    /\ Len(editor.groups) < MaxGroups
    /\ handleRuleGroupsChange(Append(editor.groups,
            [multiplier |-> FALSE, conditions |-> <<"blank">>]))

handleRawChange(e) ==
    /\ Editing("raw")
    /\ Shows([editor EXCEPT !.rawExpr = e],
             splitBillingExprAndRequestRules(e).requestRuleExpr)
    /\ IntendsAtOnce(e)

(* Mutant: the groups are not read from the text.                          *)
ToVisualKeepsGroups(ed) ==
    LET parsed == tryParseVisualConfig(splitBillingExprAndRequestRules(ed.rawExpr).billingExpr)
    IN [ed EXCEPT !.mode = "visual",
                  !.config = IF parsed = NoConfig THEN createDefaultVisualConfig
                             ELSE parsed]

toVisualMode(ed) ==
    LET parts == splitBillingExprAndRequestRules(ed.rawExpr)
        parsed == tryParseVisualConfig(parts.billingExpr)
    IN [ed EXCEPT !.mode = "visual",
                  !.config = IF parsed = NoConfig THEN createDefaultVisualConfig
                             ELSE parsed,
                  !.groups = tryParseRequestRuleExpr(parts.requestRuleExpr)]

toRawMode(ed) ==
    [ed EXCEPT !.mode = "raw",
               !.rawExpr = combineBillingExpr(generateExprFromVisualConfig(ed.config),
                                              buildRequestRuleExpr(ed.groups))]

handleModeChange ==
    /\ \/ /\ Editing("raw")
          /\ Shows(toVisualMode(editor),
                   splitBillingExprAndRequestRules(editor.rawExpr).requestRuleExpr)
       \/ /\ Editing("visual")
          /\ Shows(toRawMode(editor), panel.requestRuleExpr)
    /\ UNCHANGED history

applyPreset(preset) ==
    LET rule == buildRequestRuleExpr(preset.requestRules)
        parsed == tryParseVisualConfig(Price(preset.expr))
    IN /\ Editing("visual") \/ Editing("raw")
       /\ Shows([mode |-> IF parsed = NoConfig THEN "raw" ELSE "visual",
                 config |-> parsed,
                 rawExpr |-> combineBillingExpr(Price(preset.expr), rule),
                 groups |-> preset.requestRules], rule)
       /\ IntendsAtOnce(combineBillingExpr(Price(preset.expr), rule))

----------------------------------------------------------------------------
Init ==
    /\ stored \in Stored
    /\ open = FALSE /\ isEdit = FALSE /\ named = FALSE /\ pricingMode = "other"
    /\ panel = [billingExpr |-> Empty, requestRuleExpr |-> <<>>]
    /\ editor = NoEditor /\ seen = Unseen
    /\ initRef = FALSE /\ renamed = FALSE /\ settled = TRUE
    /\ saves = 0 /\ intended = Empty /\ exempt = FALSE

Next ==
    \/ useEffects
    \/ handleEdit \/ handleAdd \/ typeName \/ commitOpenEditor
    \/ \E mode \in {"tiered_expr", "other"} : handlePricingModeChange(mode)
    \/ \E config \in Configs : handleVisualChange(config)
    \/ addRuleGroup
    \/ \E i \in 1 .. Len(editor.groups), g \in Groups :
         handleRuleGroupsChange([editor.groups EXCEPT ![i] = g])
    \/ \E i \in 1 .. Len(editor.groups) :
         handleRuleGroupsChange(RemoveAt(editor.groups, i))
    \/ \E e \in Typed : handleRawChange(e)
    \/ handleModeChange
    \/ \E preset \in Presets : applyPreset(preset)

Spec == Init /\ [][Next]_vars

(* React runs the effects of a render it has committed.                    *)
FairSpec == Spec /\ WF_vars(useEffects)

----------------------------------------------------------------------------
(* Properties.                                                             *)

(* The variables have the types of the code's state, and an editor is      *)
(* there exactly while its tab is the one shown.                           *)
TypeOK ==
    /\ stored \in Exprs /\ intended \in Exprs
    /\ open \in BOOLEAN /\ isEdit \in BOOLEAN /\ named \in BOOLEAN
    /\ pricingMode \in {"tiered_expr", "other"}
    /\ panel \in [billingExpr : Exprs, requestRuleExpr : Rules]
    /\ editor \in [mode : {"none", "visual", "raw"}, config : Configs \cup {NoConfig},
                   rawExpr : Exprs, groups : Seq(RuleGroup)]
    /\ (editor.mode = "none") = (pricingMode = "other")
    /\ initRef \in BOOLEAN /\ renamed \in BOOLEAN /\ settled \in BOOLEAN
    /\ saves \in 0 .. MaxSaves /\ exempt \in BOOLEAN

(* What a text is split into; it is whole when nothing that could be split *)
(* off is left under its rules.                                            *)
BaseOf(e) == splitBillingExprAndRequestRules(e).billingExpr
RuleOf(e) == splitBillingExprAndRequestRules(e).requestRuleExpr
Whole(e) == RuleOf(BaseOf(e)) = <<>>

(* Texts have their readable rules outermost, as combineBillingExpr writes *)
(* them.  Instances need not satisfy this; the proofs about saving do.     *)
RulesOutermost == \A e \in Typed \cup Stored : Whole(e)

(* Opening, renaming, changing tabs and modes, saving and opening again    *)
(* keep the price and the rules the user has set, as long as the visual    *)
(* editor can show them and write them again as they are: the effects that *)
(* copy them to and fro lose nothing.  The exception is a template or a    *)
(* text that changes both the price and the rules while the first effect   *)
(* is armed.                                                               *)
PriceSurvivesEditor ==
    settled /\ pricingMode = "tiered_expr" /\ ~exempt => Submitted = intended

(* The same for every price the editor does not take for another one: what *)
(* raw mode is for.                                                        *)
PriceAlwaysSurvives ==
    settled /\ pricingMode = "tiered_expr" /\ intended.base \notin Loose =>
        Submitted = intended

(* What you write is what gets executed: a price the visual editor takes   *)
(* for one it can show, without rules, stays as the user has written it    *)
(* when it is opened and saved.                                            *)
WrittenIsExecuted ==
    settled /\ pricingMode = "tiered_expr" /\ editor.mode = "visual"
    /\ intended = stored /\ intended.layers = <<>>
    /\ tryParseVisualConfig(intended) # NoConfig => Submitted = intended

(* Once the effects have settled, saving stores what the editor shows: the *)
(* form's price and rules in visual mode; in raw mode the text, if the     *)
(* rules beside it can be read.                                            *)
ShownIsSubmitted ==
    settled /\ pricingMode = "tiered_expr" =>
        \/ /\ editor.mode = "visual"
           /\ Submitted = combineBillingExpr(generateExprFromVisualConfig(editor.config),
                                             buildRequestRuleExpr(editor.groups))
        \/ /\ editor.mode = "raw"
           /\ canUseVisualRules(panel.requestRuleExpr) => Submitted = editor.rawExpr

(* The tests a request must pass for the groups' multipliers.              *)
Demands(gs) ==
    [i \in 1 .. Len(gs) |->
        {t \in Tests : \E k \in 1 .. Len(gs[i].conditions) :
            t \in Range(buildRequestConditionExpr(gs[i].conditions[k]))}]

Effective(gs) ==
    FlattenSeq([i \in 1 .. Len(gs) |-> IfAny(buildRuleGroupFactor(gs[i]), gs[i])])

(* Rules read back from an expression demand exactly what the rules it was *)
(* built from demand, or are not read at all: a discount is never granted  *)
(* on fewer tests than the user entered.                                   *)
RuleNeverWeakened ==
    LET rule == buildRequestRuleExpr(editor.groups)
    IN tryParseRequestRuleExpr(rule) # <<>> =>
            Demands(tryParseRequestRuleExpr(rule)) = Demands(Effective(editor.groups))

(* The effects come to rest: they do not answer each other for ever.       *)
Settles == []<>settled
=============================================================================
