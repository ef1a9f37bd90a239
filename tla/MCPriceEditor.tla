---------------------------- MODULE MCPriceEditor ----------------------------
(* Instances of PriceEditor for TLC.                                       *)
EXTENDS PriceEditor

CONSTANTS base, flat, loose, custom

Shown == {base, flat}

(* tier("base", p * 3 + c * 15 + cr * 0) is read as the flat price.        *)
ZeroCoefficients == [e \in {loose} |-> flat]

Group(conditions) == [multiplier |-> TRUE, conditions |-> conditions]

(* A rule the reader knows, whose conditions are not all entered, and one  *)
(* it does not; the templates and saved prices have complete ones.         *)
EnteredGroups == {Group(<<"exists", "blank">>), Group(<<"plain", "guarded">>)}

Templates ==
    {[expr |-> flat, requestRules |-> <<>>],
     [expr |-> flat, requestRules |-> <<Group(<<"exists">>)>>]}

With(price, rule) == combineBillingExpr(Price(price), rule)

TypedExprs ==
    {Empty, Price(custom), Price(loose), With(flat, <<<<"plain">>>>)}

StoredExprs ==
    {Empty, Price(custom), Price(loose), With(flat, <<<<"plain">>, <<"exists">>>>)}

(* The hypothesis of the theorems about saving holds in these instances.   *)
ASSUME OutermostHere == RulesOutermost
=============================================================================
