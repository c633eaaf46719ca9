------------------------ MODULE DestinationPolicy ------------------------
(***************************************************************************)
(* What destinations a Computer Use session may report                     *)
(* (packages/computer-use-contract/src/index.mjs): the policy a controller *)
(* accepts, and the evidence of network hops it accepts from a provider.   *)
(* The tests of addresses are the code's arithmetic on bytes; the property *)
(* compares them with the blocks of the special-purpose registries.        *)
(* A host is a record of what canonicalHostname and isPrivateOrLocalHost   *)
(* read off its text; a URL is a scheme, credentials or none, and a host.  *)
(***************************************************************************)
EXTENDS Integers, Sequences, SequencesExt

CONSTANT Cases    \* pairs: a policy given to the controller, an output reported

(* An output without network evidence has no hops, and the groups of an     *)
(* address of version 6 were read from at most four hexadecimal digits.     *)
Word == 0..65535
SixteenBits(groups) == groups \in Seq(Word)
ASSUME CasesAssumption ==
    \A c \in Cases :
        /\ c[2].reported \/ c[2].hops = <<>>
        /\ \A k \in 1..Len(c[2].hops) : \A n \in 1..Len(c[2].hops[k].resolvedIps) :
              LET ip == c[2].hops[k].resolvedIps[n] IN
              ip.version = 6 => SixteenBits(ip.left) /\ SixteenBits(ip.right) /\ ip.gap \in BOOLEAN

VARIABLES policy,      \* the policy as given
          evidence,    \* the output as reported
          verdict,     \* "unchecked", "policy refused", "refused", "accepted"
          domain       \* the domain attributed to an accepted output

policyVars == <<policy, evidence, verdict, domain>>

NoHost == [name |-> "none", kind |-> "none", bytes |-> <<>>]

----------------------------------------------------------------------------

(* isRejectedIpv4 *)
RejectedV4(ip) ==
    LET a == ip[1]  b == ip[2]  c == ip[3]
    IN  \/ a \in {0, 10, 127} \/ a >= 224
        \/ a = 100 /\ b >= 64 /\ b <= 127
        \/ a = 169 /\ b = 254
        \/ a = 172 /\ b >= 16 /\ b <= 31
        \/ a = 192 /\ b = 0 /\ c \in {0, 2}
        \/ a = 192 /\ b = 88 /\ c = 99
        \/ a = 192 /\ b = 168
        \/ a = 198 /\ b \in {18, 19}
        \/ a = 198 /\ b = 51 /\ c = 100
        \/ a = 203 /\ b = 0 /\ c = 113

(* isRejectedIpv6, on the sixteen bytes; the masks keep the leading bits.   *)
ZeroUpTo(ip, n) == \A k \in 1..n : ip[k] = 0

RejectedV6(ip) ==
    \/ ZeroUpTo(ip, 12)                                \* ::, ::1, compatible
    \/ ip[1] \div 2 = 126                              \* 0xfc under 0xfe
    \/ ip[1] = 254 /\ ip[2] \div 64 \in {2, 3}         \* 0x80, 0xc0 under 0xc0
    \/ ip[1] = 255
    \/ ip[1] = 32 /\ ip[2] = 1 /\ ip[3] = 13 /\ ip[4] = 184
    \/ ZeroUpTo(ip, 10) /\ ip[11] = 255 /\ ip[12] = 255

(* parseIpv6 and the split of its groups in two bytes: the "::" stands for  *)
(* at least one group of zeros, and without it there are eight groups.      *)
ExpandV6(left, right, gap) ==
    LET missing == 8 - Len(left) - Len(right)
        zeros == [k \in 1..missing |-> 0]
    IN  IF (gap /\ missing < 1) \/ (~gap /\ missing # 0) THEN <<>>
        ELSE LET groups == left \o zeros \o right
             IN  [n \in 1..16 |-> IF n % 2 = 1 THEN groups[(n + 1) \div 2] \div 256
                                               ELSE groups[n \div 2] % 256]

RejectedAddress(ip) ==
    CASE ip.version = 4 -> RejectedV4(ip.bytes)
      [] ip.version = 6 -> RejectedV6(ExpandV6(ip.left, ip.right, ip.gap))

ValidAddress(ip) ==
    CASE ip.version = 4 -> \A k \in 1..4 : ip.bytes[k] \in 0..255
      [] ip.version = 6 -> ExpandV6(ip.left, ip.right, ip.gap) # <<>>
      [] OTHER -> FALSE

(* isPrivateOrLocalHost: a local name, a literal that is rejected, or a     *)
(* single label.                                                            *)
PrivateHost(host) ==
    \/ host.kind \in {"local name", "single label"}
    \/ host.kind = "literal" /\ (IF Len(host.bytes) = 4 THEN RejectedV4(host.bytes)
                                 ELSE RejectedV6(host.bytes))

----------------------------------------------------------------------------
(* normalizeComputerUsePolicy *)
PrivateAllowed(p) == p.developmentMode /\ p.allowPrivateDomains

PolicyAccepted(p) ==
    /\ p.environment \in {"isolated-browser", "isolated-vm"}
    /\ p.maxSteps \in 1..10000
    /\ p.stepDeadlineMs \in 1..3600000
    /\ p.totalDeadlineMs \in 1..86400000
    /\ p.totalDeadlineMs >= p.stepDeadlineMs
    /\ p.maxRedirects \in 0..20
    /\ p.allowPrivateDomains => p.developmentMode
    /\ Len(p.allowDomains) <= 256
    /\ \A k \in 1..Len(p.allowDomains) : p.allowDomains[k].kind # "not canonical"
    /\ IsInjective(p.allowDomains)
    /\ PrivateAllowed(p) \/ \A k \in 1..Len(p.allowDomains) : ~PrivateHost(p.allowDomains[k])

(* inspectAllowedUrl *)
UrlAllowed(url, p) ==
    /\ url.scheme \in {"http", "https"} /\ ~url.credentials
    /\ PrivateHost(url.host) => PrivateAllowed(p)
    /\ url.host \in ToSet(p.allowDomains)

(* assertReportedIp *)
AddressAllowed(ip, p) ==
    ValidAddress(ip) /\ (PrivateAllowed(p) \/ ~RejectedAddress(ip))

(* validateNetworkEvidence *)
HopAllowed(hop, p) ==
    /\ UrlAllowed(hop.url, p)
    /\ Len(hop.resolvedIps) \in 1..16
    /\ \A k \in 1..Len(hop.resolvedIps) : AddressAllowed(hop.resolvedIps[k], p)

(* Faulty variant: redirects on the way are not looked at.                   *)
EvidenceOfLastHop(e, p) ==
    IF p.allowDomains = <<>>
    THEN ~e.reported
    ELSE /\ e.reported /\ e.complete /\ Len(e.hops) >= 1
         /\ HopAllowed(e.hops[Len(e.hops)], p)

EvidenceAccepted(e, p) ==
    IF p.allowDomains = <<>>
    THEN ~e.reported
    ELSE /\ e.reported /\ e.complete /\ Len(e.hops) >= 1
         /\ Len(e.hops) - 1 <= p.maxRedirects
         /\ \A k \in 1..Len(e.hops) : HopAllowed(e.hops[k], p)

DomainOf(e, p) == IF p.allowDomains = <<>> THEN NoHost ELSE e.hops[Len(e.hops)].url.host

----------------------------------------------------------------------------
PolicyInit ==
    /\ \E c \in Cases : policy = c[1] /\ evidence = c[2]
    /\ verdict = "unchecked" /\ domain = NoHost

(* createComputerUseController, then an observe or a commit that reports.   *)
CheckPolicy ==
    /\ verdict = "unchecked"
    /\ IF ~PolicyAccepted(policy)
       THEN verdict' = "policy refused" /\ UNCHANGED domain
       ELSE IF EvidenceAccepted(evidence, policy)
            THEN verdict' = "accepted" /\ domain' = DomainOf(evidence, policy)
            ELSE verdict' = "refused" /\ UNCHANGED domain
    /\ UNCHANGED <<policy, evidence>>

PolicyNext == CheckPolicy
PolicySpec == PolicyInit /\ [][PolicyNext]_policyVars

----------------------------------------------------------------------------
(* Reference: the blocks, as an address and a number of leading bits.       *)
BitsOf(k, bits) == IF bits >= 8 * k THEN 8 ELSE IF bits <= 8 * (k - 1) THEN 0 ELSE bits - 8 * (k - 1)
Leading(byte, n) == byte \div <<256, 128, 64, 32, 16, 8, 4, 2, 1>>[n + 1]

InBlock(ip, block, bits) ==
    \A k \in 1..Len(block) : Leading(ip[k], BitsOf(k, bits)) = Leading(block[k], BitsOf(k, bits))

SpecialV4 == {<<<<0, 0, 0, 0>>, 8>>, <<<<10, 0, 0, 0>>, 8>>, <<<<100, 64, 0, 0>>, 10>>,
              <<<<127, 0, 0, 0>>, 8>>, <<<<169, 254, 0, 0>>, 16>>, <<<<172, 16, 0, 0>>, 12>>,
              <<<<192, 0, 0, 0>>, 24>>, <<<<192, 0, 2, 0>>, 24>>, <<<<192, 88, 99, 0>>, 24>>,
              <<<<192, 168, 0, 0>>, 16>>, <<<<198, 18, 0, 0>>, 15>>, <<<<198, 51, 100, 0>>, 24>>,
              <<<<203, 0, 113, 0>>, 24>>, <<<<224, 0, 0, 0>>, 4>>, <<<<240, 0, 0, 0>>, 4>>}

SpecialV6 == {<<<<252, 0>>, 7>>, <<<<254, 128>>, 10>>, <<<<254, 192>>, 10>>, <<<<255, 0>>, 8>>,
              <<<<32, 1, 13, 184>>, 32>>, <<[k \in 1..16 |-> 0], 96>>,
              <<[k \in 1..16 |-> IF k \in {11, 12} THEN 255 ELSE 0], 96>>}

Special(ip) ==
    IF ip.version = 4
    THEN \E s \in SpecialV4 : InBlock(ip.bytes, s[1], s[2])
    ELSE \E s \in SpecialV6 : InBlock(ExpandV6(ip.left, ip.right, ip.gap), s[1], s[2])

(* Outside development mode no accepted output went, at any hop, through an *)
(* address of a special-purpose block or a host outside the allow list, and *)
(* an address outside those blocks is not what a refusal is about.          *)
AcceptedHopsArePublic ==
    verdict = "accepted" /\ ~PrivateAllowed(policy) =>
        \A k \in 1..Len(evidence.hops) :
            /\ evidence.hops[k].url.host \in ToSet(policy.allowDomains)
            /\ \A n \in 1..Len(evidence.hops[k].resolvedIps) :
                  ~Special(evidence.hops[k].resolvedIps[n])

(* The domain an audit event names is that of the last hop, and an empty    *)
(* allow list lets no network output through.                               *)
DomainIsTheLastHop ==
    verdict = "accepted" =>
        IF policy.allowDomains = <<>>
        THEN domain = NoHost /\ ~evidence.reported
        ELSE domain = evidence.hops[Len(evidence.hops)].url.host

(* A public address behind an allowed host is never refused by the byte     *)
(* tests: they and the blocks agree both ways.                              *)
PublicAddressesPass ==
    \A k \in 1..Len(evidence.hops) :
        \A n \in 1..Len(evidence.hops[k].resolvedIps) :
            LET ip == evidence.hops[k].resolvedIps[n]
            IN  ValidAddress(ip) => (RejectedAddress(ip) <=> Special(ip))

(* The policy at any moment: no destination inside the blocks, none outside *)
(* them refused for its address, and the right domain on record.            *)
DestinationsChecked == AcceptedHopsArePublic /\ DomainIsTheLastHop /\ PublicAddressesPass
==========================================================================
