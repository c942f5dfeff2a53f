---------------------------- MODULE PortForwarder ---------------------------
(***************************************************************************)
(* The rule table of the port forwarder (src/osfx_plugin_port_forwarder.c) *)
(* and its file.  Where a packet is forwarded to, and the hit and drop     *)
(* counters, are left out: a rule is its name and what it matches.         *)
(***************************************************************************)
EXTENDS SlotOrder, Sequences

CONSTANTS
  RuleNames,
  Protos,
  Ports,
  MaxRules      \* OSFX_PF_RULE_MAX

NoName  == "no name"
NoProto == "no proto"
AnyPort == 0

ASSUME ForwarderAssumption ==
  /\ NoName \notin RuleNames /\ NoProto \notin Protos
  /\ Ports \subseteq Nat \ {AnyPort}
  /\ MaxRules \in Nat \ {0}

VARIABLES
  rules,       \* rules[]
  file,        \* the lines of the rule file
  fileExists,
  saved        \* history: the rules at the last save, <<>> if it was cut short

forwarderVars == <<rules, file, fileExists, saved>>

RuleSlots == 1 .. MaxRules

\* whole: all texts of the rule were copied in.
Rule == [used : {TRUE}, enabled : BOOLEAN, name : RuleNames \cup {NoName},
         from : Protos \cup {NoProto}, port : Ports \cup {AnyPort}, whole : BOOLEAN]

FreeRule == [used |-> FALSE]

NoRules == [r \in RuleSlots |-> FreeRule]

ForwarderInit ==
  /\ rules = NoRules
  /\ file = <<>> /\ fileExists = FALSE
  /\ saved = <<>>

Named(n) == {r \in RuleSlots : rules[r].used /\ rules[r].name = n}
FreeSlots == {r \in RuleSlots : ~rules[r].used}

Lowest(S) == CHOOSE r \in S : \A q \in S : r <= q

\* A slip: a rule of that name is not looked for.
SlotForFresh(n) == IF FreeSlots # {} THEN Lowest(FreeSlots) ELSE 0

\* find_rule, or else alloc_rule; 0 for a full table.
SlotFor(n) == IF Named(n) # {} THEN Lowest(Named(n))
              ELSE IF FreeSlots # {} THEN Lowest(FreeSlots)
              ELSE 0

Put(r, rule) ==
  /\ r # 0
  /\ rules' = [rules EXCEPT ![r] = rule]
  /\ UNCHANGED <<file, fileExists, saved>>

AddRule(n, from, port) ==
  Put(SlotFor(n), [used |-> TRUE, enabled |-> TRUE, name |-> n, from |-> from,
                   port |-> port, whole |-> TRUE])

\* A text is too long: osfx_pf_add_rule returns 0 and leaves the slot in use and
\* enabled, with the texts copied so far.  A name that is too long is the name of
\* no rule, so every such call takes another slot.
AddUnnamed(port) ==
  /\ FreeSlots # {}
  /\ Put(Lowest(FreeSlots), [used |-> TRUE, enabled |-> TRUE, name |-> NoName, from |-> NoProto,
                             port |-> port, whole |-> FALSE])

AddTruncated(n, from, port) ==
  \E proto \in {from, NoProto} :
    Put(SlotFor(n), [used |-> TRUE, enabled |-> TRUE, name |-> n, from |-> proto,
                     port |-> port, whole |-> FALSE])

RemoveRule(n) ==
  /\ Named(n) # {}
  /\ Put(Lowest(Named(n)), FreeRule)

EnableRule(n, e) ==
  /\ Named(n) # {}
  /\ Put(Lowest(Named(n)), [rules[Lowest(Named(n))] EXCEPT !.enabled = e])

Matches(rule, proto, port) ==
  /\ rule.used /\ rule.enabled
  /\ rule.from = proto
  /\ rule.port \in {AnyPort, port}

\* osfx_pf_forward: the first rule that matches takes the packet.
Takes(table, r, proto, port) ==
  /\ Matches(table[r], proto, port)
  /\ \A q \in RuleSlots : q < r => ~Matches(table[q], proto, port)

\* The rules of the slots of S, in the order of the slots.
RulesOf(S) == [i \in 1 .. Cardinality(S) |-> rules[NthSlot(S, i)]]

Whole == {r \in RuleSlots : rules[r].used /\ rules[r].whole}

\* A slip: only the enabled rules are written.
LinesOfEnabled == RulesOf({r \in Whole : rules[r].enabled})

\* A slip: the file is opened for appending.
LinesAppended == file \o RulesOf(Whole)

\* osfx_pf_save writes a line per rule in use.  A line with an empty text does
\* not parse when it is loaded: such lines are left out.
Lines == RulesOf(Whole)

\* No write is checked: the file may end after any line, or within one.
Save ==
  /\ \/ file' = Lines /\ saved' = RulesOf(Whole)
     \/ \E k \in 0 .. Len(Lines) - 1 : file' = SubSeq(Lines, 1, k) /\ saved' = <<>>
  /\ fileExists' = TRUE
  /\ UNCHANGED rules

\* osfx_pf_load: the table is cleared, and the lines go to its slots in order.
LoadRules ==
  /\ rules' = IF fileExists
              THEN [r \in RuleSlots |-> IF r <= Len(file) THEN file[r] ELSE FreeRule]
              ELSE rules
  /\ UNCHANGED <<file, fileExists, saved>>
-----------------------------------------------------------------------------
(* Correctness *)

ForwarderTypeOK ==
  /\ \A r \in RuleSlots : rules[r] = FreeRule \/ rules[r] \in Rule
  /\ Len(file) <= MaxRules
  /\ \A i \in 1 .. Len(file) : file[i] \in Rule

\* A name is held by one rule at most: remove and enable look only at the first,
\* and a second one would go on forwarding.
UniqueRuleNames ==
  \A n \in RuleNames : \A q, r \in Named(n) : q = r

\* A load from a file a save has finished brings back every rule that was
\* whole, enabled or not, in the order the packets are matched in; and no packet
\* is taken by a rule whose texts were cut.
RulesComeBack ==
  [][LoadRules /\ rules' # rules /\ saved # <<>> =>
       /\ \A r \in RuleSlots :
            IF r <= Len(saved) THEN rules'[r] = saved[r] ELSE ~rules'[r].used
       /\ \A r \in RuleSlots, p \in Protos, port \in Ports \cup {AnyPort} :
            Takes(rules', r, p, port) => rules'[r].whole]_forwarderVars
=============================================================================
