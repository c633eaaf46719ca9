-------------------------- MODULE UtilityActions --------------------------
(***************************************************************************)
(* The utilities of the builtin catalogue whose answers are computed:      *)
(* action-runtime/src/utility-actions.mjs and semantics.mjs, and the       *)
(* receipts of action-contract/src/receipt.mjs.  Each action takes an      *)
(* exercise and keeps its answer; the properties compare the answer with   *)
(* what the utility promises, said without the algorithm.  Texts are       *)
(* sequences of the pieces the algorithm tells apart, bytes are numbers.   *)
(***************************************************************************)
EXTENDS Integers, Sequences, FiniteSets, SequencesExt, FiniteSetsExt, Functions

CONSTANTS Exercises,    \* inputs, <<utility, argument, ...>>
          OctetMax,     \* 255: the largest octet in the arithmetic of addresses
          SampleSpace,  \* 256: the number of values of a random sample
          ReceiptBytes  \* EXECUTION_RECEIPT_MAX_BYTES

VARIABLES exercise, result
utilityVars == <<exercise, result>>

UtilityInit == exercise \in Exercises /\ result = <<>>

\* What a handler makes of an input it throws INPUT_INVALID on, and of one it takes.
Unfit == <<>>
Accepted(value) == <<value>>

Solve(utility, value) ==
    /\ result = <<>> /\ exercise[1] = utility
    /\ result' = <<value>> /\ UNCHANGED exercise

----------------------------------------------------------------------------
(* Text diff.  The table of longest common subsequences of the suffixes.    *)
Lcs(old, new) ==
    LET t[i \in 0 .. Len(old), j \in 0 .. Len(new)] ==
            IF i = Len(old) \/ j = Len(new) THEN 0
            ELSE IF old[i + 1] = new[j + 1] THEN t[i + 1, j + 1] + 1
            ELSE Max({t[i + 1, j], t[i, j + 1]})
    IN  t

(* One round of the walk that writes the records.                           *)
DiffStep(old, new, t, s) ==
    LET record(type, text) == Append(s.out, [type |-> type, text |-> text])
        more == s.i < Len(old)
        both == more /\ s.j < Len(new)
    IN  IF both /\ old[s.i + 1] = new[s.j + 1]
        THEN [i |-> s.i + 1, j |-> s.j + 1, out |-> record("context", old[s.i + 1])]
        ELSE IF more /\ (~both \/ t[s.i + 1, s.j] >= t[s.i, s.j + 1])
        THEN [s EXCEPT !.i = @ + 1, !.out = record("remove", old[s.i + 1])]
        ELSE IF s.j < Len(new)
        THEN [s EXCEPT !.j = @ + 1, !.out = record("add", new[s.j + 1])]
        ELSE s

DiffRecords(old, new) ==
    LET t == Lcs(old, new)
    IN  FoldLeft(LAMBDA s, k : DiffStep(old, new, t, s), [i |-> 0, j |-> 0, out |-> <<>>],
                 [k \in 1 .. Len(old) + Len(new) |-> k]).out

\* Faulty variant: ranges that overlap begin a hunk of their own.
RangesApart(ranges, from, to) == Append(ranges, [from |-> from, to |-> to])
(* The range of one change, joined with the previous one when they touch.   *)
Joined(ranges, from, to) ==
    IF ranges # <<>> /\ from <= Last(ranges).to + 1
    THEN [ranges EXCEPT ![Len(ranges)].to = Max({@, to})]
    ELSE Append(ranges, [from |-> from, to |-> to])

(* diffHunks: the ranges, and where each begins in the two texts.           *)
DiffHunks(records, context) ==
    LET changed == SelectSeq([k \in DOMAIN records |-> k], LAMBDA k : records[k].type # "context")
        ranges  == FoldLeft(LAMBDA acc, k : Joined(acc, Max({1, k - context}), Min({Len(records), k + context})),
                            <<>>, changed)
        old(from, to) == Cardinality({k \in from .. to : records[k].type # "add"})
        new(from, to) == Cardinality({k \in from .. to : records[k].type # "remove"})
    IN  [h \in DOMAIN ranges |->
            LET r == ranges[h]
            IN  [oldStart |-> old(1, r.from - 1) + 1, oldLines |-> old(r.from, r.to),
                 newStart |-> new(1, r.from - 1) + 1, newLines |-> new(r.from, r.to),
                 lines |-> SubSeq(records, r.from, r.to)]]

SolveDiff ==
    Solve("diff", LET records == DiffRecords(exercise[2], exercise[3])
                  IN  [records |-> records, hunks |-> DiffHunks(records, exercise[4])])

----------------------------------------------------------------------------
(* IPv4.  An octet is written in canonical decimal.                         *)
OctetValue(digits) ==
    IF \/ Len(digits) \notin 1 .. 3
       \/ Len(digits) > 1 /\ digits[1] = 0
       \/ FoldLeft(LAMBDA n, d : 10 * n + d, 0, digits) > 255
    THEN Unfit ELSE Accepted(FoldLeft(LAMBDA n, d : 10 * n + d, 0, digits))
SolveOctet == Solve("octet", OctetValue(exercise[2]))

(* parseCidr, formatIpv4 and the answers of ipv4Handler; the prefix is told *)
(* in bits of an address of four octets.                                    *)
OctetBase == OctetMax + 1
OctetBits == CHOOSE n \in 0 .. 8 : 2 ^ n = OctetBase
AddressValue(octets) == FoldLeft(LAMBDA n, o : n * OctetBase + o, 0, octets)
FormatIpv4(value) == [k \in 1 .. 4 |-> (value \div OctetBase ^ (4 - k)) % OctetBase]
Cidr(octets, prefix) ==
    LET size    == 2 ^ (4 * OctetBits - prefix)
        network == (AddressValue(octets) \div size) * size
    IN  [size |-> size, network |-> network, broadcast |-> network + size - 1]
InNetwork(cidr, octets) == AddressValue(octets) >= cidr.network /\ AddressValue(octets) <= cidr.broadcast
SolveIpv4 == Solve("ipv4", Cidr(exercise[2], exercise[3]))

(* isPrivate, isLoopback, isMulticast, of real octets.                      *)
PrivateIpv4(o) == o[1] = 10 \/ o[1] * 16 + o[2] \div 16 = 2753 \/ o[1] * 256 + o[2] = 49320
SolveClass == Solve("class", [private |-> PrivateIpv4(exercise[2]), loopback |-> exercise[2][1] = 127,
                              multicast |-> exercise[2][1] \div 16 = 14])

----------------------------------------------------------------------------
(* Luhn.                                                                    *)
Doubled(d) == IF 2 * d > 9 THEN 2 * d - 9 ELSE 2 * d
LuhnSum(digits, alternate) ==
    FoldLeft(LAMBDA sum, k : sum + (IF ((Len(digits) - k) % 2 = 1) # alternate
                                    THEN Doubled(digits[k]) ELSE digits[k]),
             0, [k \in DOMAIN digits |-> k])
LuhnValidate(digits) == Len(digits) >= 2 /\ LuhnSum(digits, FALSE) % 10 = 0
LuhnDigit(digits) == (10 - (LuhnSum(digits, TRUE) % 10)) % 10
SolveLuhn == Solve("luhn", LuhnDigit(exercise[2]))

Ceiling(n) == (SampleSpace \div n) * n
FairChoices(n) == [v \in 0 .. n - 1 |-> {s \in 0 .. Ceiling(n) - 1 : s % n = v}]
SolvePick == Solve("pick", FairChoices(exercise[2]))

(* The shuffle of a password: from the last place down, swap with a place   *)
(* drawn from those up to it.                                               *)
Swapped(s, i, j) == [s EXCEPT ![i] = s[j], ![j] = s[i]]
Shuffled(targets) ==
    LET n == Len(targets) + 1
    IN  FoldLeft(LAMBDA s, k : Swapped(s, n + 1 - k, targets[k] + 1), [k \in 1 .. n |-> k],
                 [k \in DOMAIN targets |-> k])
Draws(n) == {d \in [1 .. n - 1 -> 0 .. n - 1] : \A k \in 1 .. n - 1 : d[k] <= n - k}
SolveShuffle == Solve("shuffle", [d \in Draws(exercise[2]) |-> Shuffled(d)])

(* durationHandler, of a difference in milliseconds.                        *)
Duration(ms) ==
    LET total == (IF ms < 0 THEN -ms ELSE ms) \div 1000
    IN  [totalSeconds |-> total, negative |-> ms < 0, days |-> total \div 86400,
         hours |-> (total % 86400) \div 3600, minutes |-> (total % 3600) \div 60, seconds |-> total % 60]
SolveDuration == Solve("duration", Duration(exercise[2]))

(* caesar: the remainder of JavaScript has the sign of the dividend.        *)
JsRemainder(a, n) == IF a >= 0 THEN a % n ELSE 0 - ((0 - a) % n)
Caesar(letter, shift) == (letter + JsRemainder(JsRemainder(shift, 26) + 26, 26)) % 26
SolveCaesar == Solve("caesar", Caesar(exercise[2], exercise[3]))

----------------------------------------------------------------------------
(* Base64, with and without padding: sextets and the number of "=".         *)
Bits(s, width) ==
    [k \in 1 .. width * Len(s) |-> (s[(k - 1) \div width + 1] \div 2 ^ (width - 1 - ((k - 1) % width))) % 2]
Grouped(bits, width) ==
    [g \in 1 .. (Len(bits) + width - 1) \div width |->
        FoldLeft(LAMBDA n, k : 2 * n + (IF (g - 1) * width + k <= Len(bits) THEN bits[(g - 1) * width + k] ELSE 0),
                 0, [k \in 1 .. width |-> k])]
Btoa(bytes) == Grouped(Bits(bytes, 8), 6)
Atob(sextets) ==
    LET b == Bits(sextets, 6) IN Grouped(SubSeq(b, 1, 8 * (Len(b) \div 8)), 8)

(* isCanonicalBase64, and the comparison with what the bytes encode to.     *)
\* Faulty variant: the bits that belong to no byte are not looked at.
Base64Loose(sextets, pads) ==
    IF (Len(sextets) + pads) % 4 # 0 \/ pads # (3 - (Len(Atob(sextets)) % 3)) % 3 
    THEN Unfit ELSE Accepted(Atob(sextets))
Base64(sextets, pads) ==
    IF \/ (Len(sextets) + pads) % 4 # 0
       \/ pads = 2 /\ Len(sextets) % 4 # 2
       \/ pads = 1 /\ Len(sextets) % 4 # 3
       \/ pads > 2
       \/ Btoa(Atob(sextets)) # sextets
    THEN Unfit ELSE Accepted(Atob(sextets))
SolveBase64 == Solve("base64", Base64(exercise[2], exercise[3]))

(* base64UrlJson: no padding, a length of 1 modulo 4 is no Base64.  That    *)
(* the bytes are JSON is left out.                                          *)
Base64Url(segment) ==
    IF Len(segment) = 0 \/ Len(segment) % 4 = 1 \/ Btoa(Atob(segment)) # segment
    THEN Unfit ELSE Accepted(Atob(segment))
SolveJwt == Solve("jwt", Base64Url(exercise[2]))

----------------------------------------------------------------------------
(* JSON Pointer: "~" is followed by 0 or 1; first ~1 is replaced, then ~0.  *)
Replaced(token, code, by) ==
    LET at(k) == k < Len(token) /\ token[k] = "~" /\ token[k + 1] = code
    IN  FlattenSeq([k \in DOMAIN token |-> IF at(k) THEN <<by>>
                                           ELSE IF k > 1 /\ at(k - 1) THEN <<>> ELSE <<token[k]>>])
\* Faulty variant: ~0 is replaced first.
UnescapedTilde(token) == Replaced(Replaced(token, "0", "~"), "1", "/")
Unescaped(token) == Replaced(Replaced(token, "1", "/"), "0", "~")
PointerToken(token) ==
    IF \E k \in DOMAIN token : token[k] = "~" /\ (k = Len(token) \/ token[k + 1] \notin {"0", "1"})
    THEN Unfit ELSE Accepted(Unescaped(token))
SolvePointer == Solve("pointer", PointerToken(exercise[2]))

(* HTML: one pass for the named entities, one for the numeric ones; "&" is  *)
(* a piece, what follows it in an entity another.                           *)
NamedEntities == "amp;" :> "&" @@ "lt;" :> "<" @@ "gt;" :> ">"
NumericEntities == "#60;" :> "<"
Pass(text, table) ==
    LET at(k) == k < Len(text) /\ text[k] = "&" /\ text[k + 1] \in DOMAIN table
    IN  FlattenSeq([k \in DOMAIN text |-> IF at(k) THEN <<table[text[k + 1]]>>
                                          ELSE IF k > 1 /\ at(k - 1) THEN <<>> ELSE <<text[k]>>])
DecodeHtml(text) == Pass(Pass(text, NamedEntities), NumericEntities)
EncodeHtml(text) ==
    FlattenSeq([k \in DOMAIN text |-> CASE text[k] = "&" -> <<"&", "amp;">> [] text[k] = "<" -> <<"&", "lt;">>
                                        [] text[k] = ">" -> <<"&", "gt;">> [] OTHER -> <<text[k]>>])
(* stripTagLikeSegments: from the next "<" to the next ">", until there is  *)
(* none.                                                                    *)
Places(text, piece, from) == {k \in from .. Len(text) : text[k] = piece}
Stripped(text) ==
    LET rest[from \in 1 .. Len(text) + 1] ==
            LET opens  == Places(text, "<", from)
                closes == IF opens = {} THEN {} ELSE Places(text, ">", Min(opens) + 1)
            IN  IF closes = {} THEN SubSeq(text, from, Len(text))
                ELSE SubSeq(text, from, Min(opens) - 1) \o rest[Min(closes) + 1]
    IN  rest[1]
(* A run of one piece becomes one; the outer ones are cut.                  *)
Merged(text, piece) ==
    FlattenSeq([k \in DOMAIN text |-> IF k > 1 /\ text[k] = piece /\ text[k - 1] = piece THEN <<>> ELSE <<text[k]>>])
Cut(text, piece) ==
    LET from == IF text # <<>> /\ text[1] = piece THEN 2 ELSE 1
        to   == IF Len(text) >= from /\ Last(text) = piece THEN Len(text) - 1 ELSE Len(text)
    IN  SubSeq(text, from, to)
SolveHtml == Solve("html", [encoded |-> EncodeHtml(exercise[2]), decoded |-> DecodeHtml(exercise[2]),
                            stripped |-> Cut(Merged(Stripped(DecodeHtml(exercise[2])), " "), " ")])


(* slugHandler: spaces and underscores become dashes, everything else but   *)
(* letters goes, then dashes are joined and the outer ones cut.             *)
Slug(text) ==
    LET dashed == [k \in DOMAIN text |-> IF text[k] \in {" ", "_"} THEN "-" ELSE text[k]]
    IN  Cut(Merged(SelectSeq(dashed, LAMBDA p : p \in {"a", "b", "-"}), "-"), "-")
SolveSlug == Solve("slug", Slug(exercise[2]))

----------------------------------------------------------------------------
(* Receipts.  A field that may be left out is a sequence of length at most  *)
(* one; `sound` stands for the names, the source and the permissions.       *)
EndStatuses == {"success", "error", "cancelled"}
Cancelled(r) == r.error = <<"CANCELLED">>

ErrorRight(r) ==
    /\ r.status = "success" => r.error = <<>>
    /\ r.status \in {"error", "cancelled"} => r.error # <<>>
    /\ r.status = "cancelled" => Cancelled(r)

ReceiptValid(r) ==
    /\ r.sound /\ r.version = "2.0" /\ r.created # <<>>
    /\ r.status \in {"queued", "running"} \union EndStatuses
    /\ r.duration # <<>> => r.duration[1] >= 0
    /\ r.status = "queued" => r.started = <<>>
    /\ r.status = "running" => r.started # <<>>
    /\ r.status \in {"queued", "running"} => <<r.completed, r.duration, r.error>> = <<<<>>, <<>>, <<>>>>
    /\ r.status \in EndStatuses => r.started # <<>> /\ r.completed # <<>> /\ r.duration # <<>> /\ ErrorRight(r)
    /\ r.status = "error" => ~Cancelled(r)
    /\ r.started # <<>> => r.created[1] <= r.started[1]
    /\ r.started # <<>> /\ r.completed # <<>> => r.started[1] <= r.completed[1]

V1Valid(r) ==
    /\ r.sound /\ r.started # <<>> /\ r.duration # <<>> /\ r.duration[1] >= 0 /\ r.status \in EndStatuses
    /\ r.created = <<>> /\ r.completed = <<>> /\ ErrorRight(r)

Upgraded(r) ==
    [r EXCEPT !.version = "2.0", !.created = r.started, !.completed = <<r.started[1] + r.duration[1]>>]

(* parseExecutionReceipt and upgradeExecutionReceipt.                       *)
ParsedReceipt(r, bytes) ==
    IF bytes > ReceiptBytes THEN <<"RECEIPT_TOO_LARGE">>
    ELSE IF r.version = "2.0" THEN (IF ReceiptValid(r) THEN <<"ok", r>> ELSE <<"RECEIPT_INVALID">>)
    ELSE IF r.version # "1.0" THEN <<"RECEIPT_VERSION_UNSUPPORTED">>
    ELSE IF ~V1Valid(r) \/ ~ReceiptValid(Upgraded(r)) THEN <<"RECEIPT_INVALID">>
    ELSE <<"ok", Upgraded(r)>>
SolveReceipt == Solve("receipt", ParsedReceipt(exercise[2], exercise[3]))

(* makeReceipt, with the status the executor derives from its code.         *)
MadeReceipt(code, startedAt, duration) ==
    [sound |-> TRUE, version |-> "2.0", created |-> <<startedAt>>, started |-> <<startedAt>>,
     completed |-> <<startedAt + duration>>, duration |-> <<duration>>,
     status |-> CASE code = "none" -> "success" [] code = "CANCELLED" -> "cancelled" [] OTHER -> "error",
     error |-> IF code = "none" THEN <<>> ELSE <<code>>]
SolveMade == Solve("made", MadeReceipt(exercise[2], exercise[3], exercise[4]))

UtilityNext ==
    \/ SolveDiff \/ SolveOctet \/ SolveIpv4 \/ SolveClass \/ SolveLuhn \/ SolvePick \/ SolveShuffle
    \/ SolveDuration \/ SolveCaesar \/ SolveBase64 \/ SolveJwt \/ SolvePointer \/ SolveHtml \/ SolveSlug
    \/ SolveReceipt \/ SolveMade

----------------------------------------------------------------------------
(* The references the answers are compared with.                            *)
Solved(utility) == result # <<>> /\ exercise[1] = utility
Answer == result[1]

(* The texts of a sequence of records on one side.                          *)
Side(records, without) ==
    LET kept == SelectSeq(records, LAMBDA r : r.type # without)
    IN  [k \in DOMAIN kept |-> kept[k].text]

(* Patching from the last hunk to the first; a hunk whose old lines are not *)
(* there spoils the text.                                                   *)
Patched(text, hunks) ==
    FoldRight(LAMBDA h, t :
                  IF SubSeq(text, h.oldStart, h.oldStart + h.oldLines - 1) # Side(h.lines, "add") THEN <<"spoilt">>
                  ELSE SubSeq(t, 1, h.oldStart - 1) \o Side(h.lines, "remove")
                       \o SubSeq(t, h.oldStart + h.oldLines, Len(t)),
              hunks, text)

Subsequences(s) ==
    {[k \in 1 .. Cardinality(places) |-> s[CHOOSE p \in places : Cardinality({q \in places : q <= p}) = k]] :
        places \in SUBSET DOMAIN s}

(* The hunks turn the old text into the new one and stand where they say in *)
(* both; none touches another; and no shorter diff exists.                  *)
DiffRight ==
    Solved("diff") =>
        LET old == exercise[2]  new == exercise[3]  hunks == Answer.hunks  records == Answer.records
        IN  /\ Patched(old, hunks) = new
            /\ \A h \in DOMAIN hunks :
                   SubSeq(new, hunks[h].newStart, hunks[h].newStart + hunks[h].newLines - 1) = Side(hunks[h].lines, "remove")
            /\ \A h \in 1 .. Len(hunks) - 1 : hunks[h].oldStart + hunks[h].oldLines < hunks[h + 1].oldStart
            /\ Cardinality({k \in DOMAIN records : records[k].type = "context"})
                   = Max({Len(s) : s \in Subsequences(old) \intersect Subsequences(new)})

(* A network is the addresses that share the first bits.                    *)
AddressBits(octets) == Bits(octets, OctetBits)
Decimal(n) == IF n < 10 THEN <<n>> ELSE IF n < 100 THEN <<n \div 10, n % 10>>
              ELSE <<n \div 100, (n \div 10) % 10, n % 10>>
AddressesRight ==
    /\ Solved("ipv4") =>
           LET prefix == exercise[3]
               same(o) == SubSeq(AddressBits(o), 1, prefix) = SubSeq(AddressBits(exercise[2]), 1, prefix)
           IN  /\ \A o \in [1 .. 4 -> 0 .. OctetMax] : InNetwork(Answer, o) <=> same(o)
               /\ same(FormatIpv4(Answer.network)) /\ same(FormatIpv4(Answer.broadcast))
               /\ FormatIpv4(AddressValue(exercise[2])) = exercise[2]
    /\ Solved("class") =>
           LET within(block, n) == SubSeq(Bits(exercise[2], 8), 1, n) = SubSeq(Bits(block, 8), 1, n)
           IN  /\ Answer.private <=> within(<<10>>, 8) \/ within(<<172, 16>>, 12) \/ within(<<192, 168>>, 16)
               /\ Answer.loopback <=> within(<<127>>, 8)
               /\ Answer.multicast <=> within(<<224>>, 4)
    /\ Solved("octet") =>
           LET fitting == {n \in 0 .. 255 : Decimal(n) = exercise[2]}
           IN  Answer = IF fitting = {} THEN Unfit ELSE Accepted(CHOOSE n \in fitting : TRUE)

(* The check digit completes a valid number, and no other digit in any      *)
(* place does.  Every choice has as many samples as every other, every      *)
(* order of the shuffle one way to come about.                              *)
ChecksRight ==
    /\ Solved("luhn") =>
           LET whole == Append(exercise[2], Answer)
           IN  /\ LuhnValidate(whole)
               /\ \A k \in DOMAIN whole, d \in 0 .. 9 : LuhnValidate([whole EXCEPT ![k] = d]) => d = whole[k]
    /\ Solved("pick") =>
           \A v, w \in DOMAIN Answer : Answer[v] # {} /\ Cardinality(Answer[v]) = Cardinality(Answer[w])
    /\ Solved("shuffle") =>
           \A f \in Bijection(1 .. exercise[2], 1 .. exercise[2]) :
               Cardinality({d \in DOMAIN Answer : Answer[d] = f}) = 1
    /\ Solved("duration") =>
           LET a == Answer  ms == exercise[2]
           IN  /\ a.seconds + 60 * (a.minutes + 60 * (a.hours + 24 * a.days)) = a.totalSeconds
               /\ a.seconds < 60 /\ a.minutes < 60 /\ a.hours < 24
               /\ LET left == (IF a.negative THEN -ms ELSE ms) - 1000 * a.totalSeconds IN left \in 0 .. 999
    /\ Solved("caesar") => Answer \in 0 .. 25 /\ Caesar(Answer, -exercise[3]) = exercise[2]

(* One text per byte string: what is accepted is what its bytes encode to.  *)
(* An escaped key is found again.  Tags are gone after stripping, encoding  *)
(* keeps a text but for its numeric references, a slug is its own slug.     *)
EscapedKey(key) ==
    FlattenSeq([k \in DOMAIN key |-> CASE key[k] = "~" -> <<"~", "0">> [] key[k] = "/" -> <<"~", "1">>
                                       [] OTHER -> <<key[k]>>])
CodecsRight ==
    /\ Solved("base64") =>
           LET sextets == exercise[2]
           IN  Answer # Unfit => Btoa(Answer[1]) = sextets /\ exercise[3] = (3 - (Len(Answer[1]) % 3)) % 3
    /\ Solved("base64") /\ Len(exercise[2]) <= 3 /\ (\A k \in DOMAIN exercise[2] : exercise[2][k] < 256) =>
           LET bytes == exercise[2]
           IN  Base64(Btoa(bytes), (3 - (Len(bytes) % 3)) % 3) = Accepted(bytes)
    /\ Solved("jwt") /\ Answer # Unfit =>
           Answer = Base64(exercise[2], (4 - (Len(exercise[2]) % 4)) % 4)
    /\ Solved("pointer") =>
           /\ PointerToken(EscapedKey(exercise[2])) = Accepted(exercise[2])
           /\ Answer # Unfit /\ "/" \notin ToSet(exercise[2]) => EscapedKey(Answer[1]) = exercise[2]
    /\ Solved("html") =>
           /\ ~\E k \in DOMAIN Answer.stripped : Answer.stripped[k] = "<" /\ Places(Answer.stripped, ">", k) # {}
           /\ DecodeHtml(Answer.encoded) = Pass(exercise[2], NumericEntities)
    /\ Solved("slug") =>
           /\ Slug(Answer) = Answer
           /\ ToSet(Answer) \intersect {"a", "b"} = ToSet(exercise[2]) \intersect {"a", "b"}
           /\ Answer # <<>> => Answer[1] # "-" /\ Last(Answer) # "-"
           /\ \A k \in 1 .. Len(Answer) - 1 : <<Answer[k], Answer[k + 1]>> # <<"-", "-">>

(* A receipt accepted is valid, and an old one keeps what it says; what the *)
(* executor writes is accepted, and stays as it is.                         *)
ReceiptsRight ==
    /\ Solved("receipt") /\ Answer[1] = "ok" =>
           LET r == exercise[2]  u == Answer[2]
           IN  /\ ReceiptValid(u) /\ ParsedReceipt(u, 1) = <<"ok", u>>
               /\ u.status = r.status /\ u.error = r.error /\ u.started = r.started /\ u.duration = r.duration
               /\ r.version = "1.0" => u.completed[1] - u.created[1] = r.duration[1]
    /\ Solved("receipt") /\ exercise[2].version = "1.0" /\ V1Valid(exercise[2]) /\ exercise[3] <= ReceiptBytes =>
           (Answer[1] # "ok" <=> exercise[2].status = "error" /\ Cancelled(exercise[2]))
    /\ Solved("made") => ParsedReceipt(Answer, 1) = <<"ok", Answer>>

(* The computed utilities keep their promises: diffs patch, networks hold   *)
(* the addresses of one prefix, check digits find every single error, draws *)
(* are fair, encodings have one form, receipts are valid                    *)
(* (utility-actions.mjs, semantics.mjs:164-262, receipt.mjs).               *)
UtilitiesRight == DiffRight /\ AddressesRight /\ ChecksRight /\ CodecsRight /\ ReceiptsRight
==========================================================================
