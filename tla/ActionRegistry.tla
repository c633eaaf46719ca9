-------------------------- MODULE ActionRegistry --------------------------
(***************************************************************************)
(* What an action is and who may see it: the contract of a descriptor      *)
(* (action-contract), the registry with its search and suggestions         *)
(* (action-runtime: registry.mjs, catalog.mjs, action-suggest.mjs) and the *)
(* agent profile that exposes a part of it (agent-profile).  Names and     *)
(* texts are sequences of pieces: startsWith is a prefix, includes an      *)
(* infix.  Everything here is a function of its arguments.                 *)
(***************************************************************************)
EXTENDS Naturals, Sequences, FiniteSets, SequencesExt, FiniteSetsExt, Functions

CONSTANTS NameOrder,       \* every name, in the order of compareCodePoints
          ReservedNames,   \* RESERVED_ACTION_NAMES, the discovery tools of the MCP server
          ForbiddenFields  \* FORBIDDEN_DEFAULT_KEYS of a preset

Builtin(name) == Len(name) > 1 /\ Head(name) = "builtin"
Includes(text, part) ==
    \E i \in 0 .. Len(text) - Len(part) : SubSeq(text, i + 1, i + Len(part)) = part

(* validateActionDescriptor: what ties the name, the source, the behaviour  *)
(* and the permissions of a descriptor together.                            *)
NamespaceRight(d) ==
    IF d.kind = "builtin" THEN Builtin(d.id) /\ Builtin(d.tool)
    ELSE /\ ~Builtin(d.id) /\ ~Builtin(d.tool)
         /\ \A a \in d.aliases : ~Builtin(a)
         /\ d.kind = "plugin" => IsStrictPrefix(d.tool, d.id)

DescriptorValid(d) ==
    /\ ({d.id} \union d.aliases) \intersect ReservedNames = {}
    /\ NamespaceRight(d)
    /\ d.destructive => d.confirm
    /\ d.mode = "pure" => ~d.openWorld /\ ~d.destructive /\ d.effects = {} /\ d.needs = {}

(* defineMetadata: what every descriptor of the builtin catalogue shares.   *)
BuiltinDescriptor(entry) ==
    [id |-> entry.id, aliases |-> entry.aliases, version |-> "1.0.0", kind |-> "builtin",
     tool |-> IF IsPrefix(<<"builtin", "office">>, entry.id) THEN <<"builtin", "office">>
              ELSE <<"builtin", "utilities">>,
     publisher |-> "useful.project", mode |-> entry.mode, readOnly |-> TRUE,
     destructive |-> FALSE, idempotent |-> entry.idempotent, openWorld |-> FALSE,
     effects |-> {}, confirm |-> FALSE, needs |-> {}, inputs |-> entry.inputs,
     outputs |-> entry.outputs, sensitive |-> entry.sensitive, title |-> entry.title,
     keywords |-> entry.keywords, description |-> entry.description]

----------------------------------------------------------------------------
(* The registry: the entries in the order they were registered.             *)

NamesOf(d) == {d.id} \union d.aliases
RegistryNames(reg) == UNION {NamesOf(reg[i].d) : i \in DOMAIN reg}
Resolve(reg, name) == CHOOSE e \in ToSet(reg) : name \in NamesOf(e.d)

(* register: the descriptor is valid and none of its names is taken.        *)
RegisterRefusal(reg, d) ==
    IF ~DescriptorValid(d) THEN "DESCRIPTOR_INVALID"
    ELSE IF d.id \in d.aliases \/ NamesOf(d) \intersect RegistryNames(reg) # {}
         THEN "ACTION_NAME_COLLISION"
    ELSE "none"

(* Registration stops at the first entry refused.                           *)
Registered(reg, entries) ==
    FoldLeft(LAMBDA acc, e :
                 IF acc.code # "none" THEN acc
                 ELSE LET code == RegisterRefusal(acc.reg, e.d)
                      IN  IF code # "none" THEN [acc EXCEPT !.code = code]
                          ELSE [acc EXCEPT !.reg = Append(@, e)],
             [reg |-> reg, code |-> "none"], entries)

Rank(name) == CHOOSE i \in DOMAIN NameOrder : NameOrder[i] = name

(* tokenRelevance: the best way in which one token matches.                 *)
Matches(d, token) ==
    <<<<1000, d.id = token>>,
      <<900, token \in d.aliases>>,
      <<800, IsPrefix(token, d.id)>>,
      <<700, \E a \in d.aliases : IsPrefix(token, a)>>,
      <<650, d.title = token>>,
      <<600, token \in d.keywords>>,
      <<500, Includes(d.title, token)>>,
      <<450, \E k \in d.keywords : Includes(k, token)>>,
      <<400, Includes(d.id, token) \/ \E a \in d.aliases : Includes(a, token)>>,
      <<100, Includes(d.description, token)>>>>
TokenScores(d, token) ==
    LET m == Matches(d, token) IN {m[i][1] : i \in {j \in DOMAIN m : m[j][2]}}

(* relevance: every token must match; the whole phrase earns a bonus.       *)
Matched(d, tokens) == \A i \in DOMAIN tokens : TokenScores(d, tokens[i]) # {}
Relevance(d, tokens) ==
    IF tokens = <<>> THEN 0
    ELSE FoldLeft(LAMBDA sum, t : sum + Max(TokenScores(d, t)), 0, tokens)
         + (IF Includes(d.title, FlattenSeq(tokens)) THEN 75
            ELSE IF Includes(d.description, FlattenSeq(tokens)) THEN 25 ELSE 0)

(* query: the entries that match and pass the filters, in a total order.    *)
Filtered(list, q) ==
    SelectSeq(list, LAMBDA d : /\ Matched(d, q.tokens)
                               /\ d.kind \in q.kinds /\ d.mode \in q.modes
                               /\ q.readOnly => d.readOnly)
SortKey(d, q) == IF q.sort = "relevance" THEN Relevance(d, q.tokens) ELSE Rank(d.id)
Before(a, b, q) ==
    IF SortKey(a, q) # SortKey(b, q)
    THEN IF q.direction = "desc" THEN SortKey(a, q) > SortKey(b, q) ELSE SortKey(a, q) < SortKey(b, q)
    ELSE Rank(a.id) < Rank(b.id)
Ranked(list, q) ==
    LET s == Filtered(list, q)
        place(i) == Cardinality({j \in DOMAIN s : Before(s[j], s[i], q)}) + 1
    IN  [p \in DOMAIN s |-> s[CHOOSE i \in DOMAIN s : place(i) = p]]

(* One page from an offset the cursor carries, and the next cursor.         *)
Page(ranked, offset, limit) ==
    LET page == SubSeq(ranked, offset + 1, IF offset + limit < Len(ranked) THEN offset + limit
                                           ELSE Len(ranked))
        next == offset + Len(page)
    IN  [actions |-> page, next |-> IF next < Len(ranked) THEN <<next>> ELSE <<>>]

(* suggestActions: the signals found in the text, for listed actions that   *)
(* run without a window; the highest score of each, best first.             *)
Suggestions(list, signals, limit, minimum) ==
    LET shownIds == {list[i].id : i \in {j \in DOMAIN list : list[j].mode # "ui-only"}}
        scored == {<<s.id, Max({t.score : t \in {u \in signals : u.id = s.id}})>> :
                       s \in {u \in signals : u.id \in shownIds}}
        good == {p \in scored : p[2] >= minimum}
        place(p) == Cardinality({o \in good : \/ o[2] > p[2]
                                              \/ o[2] = p[2] /\ Rank(o[1]) < Rank(p[1])}) + 1
    IN  [k \in 1 .. Min({limit, Cardinality(good)}) |-> CHOOSE p \in good : place(p) = k]

----------------------------------------------------------------------------
(* The agent profile: a list of actions, each pinned to an identity, with   *)
(* the surfaces that show it, its own aliases and its presets.              *)

(* validateProfileSchema: an alias has no dot, an action id has one.        *)
ShapeRight(profile) ==
    \A i \in DOMAIN profile :
        /\ Len(profile[i].action) > 1
        /\ profile[i].kind \in {"builtin", "plugin", "local"}
        /\ \A a \in profile[i].aliases : Len(a) = 1

(* assertProfileDocument: no action, alias or preset twice.                 *)
DocumentRefusal(profile) ==
    IF ~ShapeRight(profile) THEN "AGENT_PROFILE_INVALID"
    ELSE IF \/ \E i, j \in DOMAIN profile :
                  /\ i # j
                  /\ \/ profile[i].action = profile[j].action
                     \/ profile[i].aliases \intersect profile[j].aliases # {}
            \/ \E i \in DOMAIN profile : \E s, t \in profile[i].presets :
                  s # t /\ s.id = t.id
         THEN "AGENT_PROFILE_COLLISION"
    ELSE "none"

(* validatePreset: known fields, none forbidden and none sensitive ("*" is  *)
(* the whole input).                                                        *)
PresetValid(d, preset) ==
    /\ preset.fields \subseteq d.inputs
    /\ preset.fields \intersect (ForbiddenFields \union d.sensitive) = {}
    /\ "*" \in d.sensitive => preset.fields = {}

PinsRight(item, d) ==
    d.version = item.version /\ d.kind = item.kind /\ d.publisher = item.publisher

(* validateProfileAgainstRegistry: per item, in order.                      *)
ItemRefusal(item, reg) ==
    IF \/ item.action \notin RegistryNames(reg)
       \/ Resolve(reg, item.action).d.id # item.action THEN "AGENT_PROFILE_UNKNOWN_ACTION"
    ELSE LET d == Resolve(reg, item.action).d
         IN  IF ~PinsRight(item, d) THEN "AGENT_PROFILE_PIN_MISMATCH"
             ELSE IF \E s \in item.presets : ~PresetValid(d, s) THEN "AGENT_PROFILE_PRESET_INVALID"
             ELSE IF item.aliases \intersect RegistryNames(reg) # {} THEN "AGENT_PROFILE_COLLISION"
             ELSE "none"
ProfileRefusal(profile, reg) ==
    IF DocumentRefusal(profile) # "none" THEN DocumentRefusal(profile)
    ELSE FoldLeft(LAMBDA code, item : IF code # "none" THEN code ELSE ItemRefusal(item, reg),
                  "none", profile)

(* AgentExposure.list and resolve.  The name of an action works on every    *)
(* surface that shows it, an alias of the profile on the command line only. *)
ShownOn(item, where) == IF where = "cli" THEN item.cli ELSE item.mcp
ExposedEntry(item, reg, where) ==
    LET e == Resolve(reg, item.action)
    IN  [e EXCEPT !.d.aliases = IF where = "cli" THEN item.aliases ELSE {}]
Exposed(profile, reg, where) ==
    LET items == SelectSeq(profile, LAMBDA item : ShownOn(item, where))
    IN  [i \in DOMAIN items |-> ExposedEntry(items[i], reg, where)]

\* Faulty variant: an item found by its alias is not asked whether it is shown.
ItemsByAlias(profile, name, where) ==
    LET own   == {item \in ToSet(profile) : item.action = name /\ ShownOn(item, where)}
        other == {item \in ToSet(profile) : where = "cli" /\ name \in item.aliases}
    IN  IF own # {} THEN own ELSE other

Items(profile, name, where) ==
    LET own   == {item \in ToSet(profile) : item.action = name}
        other == {item \in ToSet(profile) : where = "cli" /\ name \in item.aliases}
    IN  {item \in (IF own # {} THEN own ELSE other) : ShownOn(item, where)}

(* createDefaultBuiltinProfile: everything shown, pinned as it is.          *)
DefaultProfile(reg) ==
    [i \in DOMAIN reg |-> [action |-> reg[i].d.id, version |-> reg[i].d.version,
                           kind |-> reg[i].d.kind, publisher |-> reg[i].d.publisher,
                           cli |-> TRUE, mcp |-> TRUE, aliases |-> {}, presets |-> {}]]
==========================================================================
