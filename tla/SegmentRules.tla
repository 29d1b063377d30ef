---------------------------- MODULE SegmentRules ----------------------------
(***************************************************************************)
(* Audience rules: backend/app/segmentation/rules.py, with one field or    *)
(* two of each type.                                                       *)
(*                                                                         *)
(* A rule is a tree: a function of the paths of its parts, <<>> for the    *)
(* whole and <<i, j>> for the j-th condition in its i-th. A part is a      *)
(* group [op] or a condition [field, operator, value]. A value is [list,   *)
(* items]: a list of items, or a single item. In a customer's view each    *)
(* field holds the set of its values, which is empty where the code has    *)
(* None; only a list field may hold several.                               *)
(* Numbers and dates are integers. The rendering of a rule as a sentence,  *)
(* letter case, and values that are not of the field's type are left out.  *)
(***************************************************************************)
EXTENDS Integers, Sequences

FieldType ==
    [purchase_frequency_per_month |-> "number", discount_dependency |-> "number",
     signup_date |-> "date", city |-> "string", lifecycle_stage |-> "enum",
     marketing_consent |-> "boolean", preferred_categories |-> "list"]

NumberOperators == {"eq", "neq", "gt", "gte", "lt", "lte", "between", "is_null", "is_not_null"}
StringOperators == {"eq", "neq", "contains", "not_contains", "in", "not_in", "is_null",
                    "is_not_null"}
DateOperators == {"before", "after", "on", "between", "in_last_days", "not_in_last_days",
                  "is_null", "is_not_null"}
ListOperators == {"contains_any", "contains_all", "not_contains", "is_empty", "is_not_empty"}

OperatorsByType ==
    [number |-> NumberOperators, string |-> StringOperators, date |-> DateOperators,
     list |-> ListOperators, enum |-> {"eq", "neq", "in", "not_in"},
     boolean |-> {"is_true", "is_false"}]

TakesList == {"in", "not_in", "contains_any", "contains_all"}
MaxNestingDepth == 5

IsGroup(part) == "op" \in DOMAIN part
Conditions(rule, path) ==
    {p \in DOMAIN rule : Len(p) = Len(path) + 1 /\ \A i \in DOMAIN path : p[i] = path[i]}
Item(value) == value.items[1]
Items(value) == {value.items[i] : i \in DOMAIN value.items}

\* validate_rule of a condition.
ValidCondition(c) ==
    /\ c.field \in DOMAIN FieldType
    /\ c.operator \in OperatorsByType[FieldType[c.field]]
    /\ c.operator = "between" => c.value.list /\ Len(c.value.items) = 2
    /\ c.operator \in TakesList => c.value.list

\* validate_rule of a whole rule.
ValidRule(rule) ==
    \A path \in DOMAIN rule :
        /\ Len(path) <= MaxNestingDepth
        /\ IF IsGroup(rule[path]) THEN rule[path].op \in {"AND", "OR"} ELSE ValidCondition(rule[path])

-----------------------------------------------------------------------------
(* Conditions. A comparison with a list where a single value is expected   *)
(* is never met; a single text where not_contains expects a list is read   *)
(* letter by letter and shares no item with the customer's.                *)

CompareNumber(operator, actual, value) ==
    IF operator = "between"
    THEN value.items[1] <= actual /\ actual <= value.items[2]
    ELSE /\ ~value.list
         /\ CASE operator = "eq" -> actual = Item(value)
              [] operator = "neq" -> actual # Item(value)
              [] operator = "gt" -> actual > Item(value)
              [] operator = "gte" -> actual >= Item(value)
              [] operator = "lt" -> actual < Item(value)
              [] operator = "lte" -> actual <= Item(value)

\* A date that lies ahead is within the last days, however few.
CompareDate(operator, actual, value, now) ==
    IF operator = "between"
    THEN value.items[1] <= actual /\ actual <= value.items[2]
    ELSE /\ ~value.list
         /\ CASE operator = "before" -> actual < Item(value)
              [] operator = "after" -> actual > Item(value)
              [] operator = "on" -> actual = Item(value)
              [] operator = "in_last_days" -> now - actual <= Item(value)
              [] operator = "not_in_last_days" -> now - actual > Item(value)

CompareString(operator, actual, value) ==
    CASE operator = "in" -> actual \in Items(value)
      [] operator = "not_in" -> actual \notin Items(value)
      [] operator \in {"eq", "contains"} -> ~value.list /\ actual = Item(value)
      [] operator \in {"neq", "not_contains"} -> value.list \/ actual # Item(value)

CompareList(operator, actual, value) ==
    LET wanted == IF value.list THEN Items(value) ELSE {}
    IN CASE operator = "is_empty" -> actual = {}
         [] operator = "is_not_empty" -> actual # {}
         [] operator = "contains_any" -> actual \intersect wanted # {}
         [] operator = "contains_all" -> wanted \subseteq actual
         [] operator = "not_contains" -> actual \intersect wanted = {}

\* A missing value satisfies no comparison at all.
BugAbsenceSatisfies(operator) == FALSE

\* A missing value satisfies the negative comparisons only.
AbsenceSatisfies(operator) ==
    operator \in {"neq", "not_in", "not_contains", "not_in_last_days"}

\* _evaluate_condition, in the order of its early returns.
EvaluateCondition(c, customer, now) ==
    LET actual == customer[c.field]
        type == FieldType[c.field]
        one == CHOOSE v \in actual : TRUE
    IN CASE c.operator = "is_null" -> actual = {}
         [] c.operator = "is_not_null" -> actual # {}
         [] type = "boolean" -> (actual = {TRUE}) = (c.operator = "is_true")
         [] type = "list" -> CompareList(c.operator, actual, c.value)
         [] OTHER ->
              IF actual = {} THEN AbsenceSatisfies(c.operator)
              ELSE CASE type = "number" -> CompareNumber(c.operator, one, c.value)
                     [] type = "date" -> CompareDate(c.operator, one, c.value, now)
                     [] type \in {"string", "enum"} -> CompareString(c.operator, one, c.value)

\* evaluate, part by part.
Evaluate(rule, customer, now) ==
    LET holds[path \in DOMAIN rule] ==
            IF ~IsGroup(rule[path]) THEN EvaluateCondition(rule[path], customer, now)
            ELSE IF Conditions(rule, path) = {} THEN TRUE
            ELSE IF rule[path].op = "AND" THEN \A p \in Conditions(rule, path) : holds[p]
            ELSE \E p \in Conditions(rule, path) : holds[p]
    IN holds[<<>>]

=============================================================================
