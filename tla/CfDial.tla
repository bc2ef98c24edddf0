-------------------------------- MODULE CfDial --------------------------------
(* The walks over host names that open one WebSocket (ws_client.rs): the two     *)
(* names of a datacentre at its own address, and the kws{N} and kws{N}-1 records *)
(* of every Cloudflare domain, where a missing kws{N}-1 forces another try of    *)
(* kws{N} (CfAttempts).  Every try has an answer of its own.                     *)
EXTENDS Integers, Sequences, FiniteSets

CONSTANTS Domain,      \* Cloudflare domains
          MaxDomains   \* length of the configured lists, repetitions included

ASSUME CfDialAssumption == MaxDomains \in Nat

VARIABLES
  list,       \* the Cloudflare domains as configured; empty for the direct walk
  media,      \* is_media: the -1 name first
  first,      \* first_domain, where the rotation starts
  next,       \* next_record: how many turns have been taken
  forced,     \* forced_base: an index of the list, or -1
  slow,       \* timed_out: <<index, record>>
  redirects,  \* all_redirects
  tries,      \* history: the tries and their answers
  dialled     \* "walking", "connected" or "gave up"

dialVars == <<list, media, first, next, forced, slow, redirects, tries, dialled>>

Telegram == "web.telegram.org"
Direct == list = <<>>
Names == {"base", "dash"}

\* WsConnectResult, a Failed told apart by is_dns_not_found.
AnswersOfHost == {"connected", "redirect", "failed", "absent", "upgrade timeout", "connect timeout"}
TimeoutAnswers == {"upgrade timeout", "connect timeout"}

Turns == IF Direct THEN 2 ELSE 2 * Len(list)

\* The list's index a turn is for, and which of the two names.
IndexOf(turn) == IF Direct THEN 0 ELSE ((first + turn \div 2) % Len(list)) + 1
NameOf(turn)  == IF (turn % 2 = 0) = media THEN "dash" ELSE "base"
DomainAt(i)   == IF Direct THEN Telegram ELSE list[i]

\* Mutant: a domain that is configured twice is walked twice.
IsDue(turn) == TRUE

\* A domain that came up before, at another place of the list, has had its turns.
IsFresh(turn) ==
  \A prior \in 0..turn \div 2 - 1 : DomainAt(IndexOf(2 * prior)) # DomainAt(IndexOf(turn))

Due == {turn \in next..Turns - 1 : IsFresh(turn)}
NextTurn == CHOOSE turn \in Due : \A other \in Due : turn <= other

\* next_domain: the forced record, or the next turn's.
Chosen ==
  IF forced # -1 THEN <<forced, "base">> ELSE <<IndexOf(NextTurn), NameOf(NextTurn)>>
HasNext == forced # -1 \/ Due # {}

\* One try.  An absent -1 name is retried as the base name, unless that one has
\* run out the clock before, and then does not count against the redirects.
DialTries(answer) ==
  /\ dialled = "walking" /\ HasNext
  /\ LET i == Chosen[1]
         name == Chosen[2]
         retry == /\ ~Direct /\ answer = "absent" /\ name = "dash"
                  /\ <<i, "base">> \notin slow
     IN  /\ tries' = Append(tries, [domain |-> DomainAt(i), name |-> name, answer |-> answer])
         /\ next' = IF forced # -1 THEN next ELSE NextTurn + 1
         /\ forced' = IF retry THEN i ELSE -1
         /\ slow' = IF answer \in TimeoutAnswers THEN slow \cup {<<i, name>>} ELSE slow
         /\ redirects' = (redirects /\ (answer = "redirect" \/ retry))
         /\ dialled' = IF answer = "connected" THEN "connected" ELSE "walking"
  /\ UNCHANGED <<list, media, first>>

DialGivesUp ==
  /\ dialled = "walking" /\ ~HasNext
  /\ dialled' = "gave up"
  /\ UNCHANGED <<list, media, first, next, forced, slow, redirects, tries>>

DialInit ==
  /\ list \in UNION {[1..n -> Domain] : n \in 0..MaxDomains}
  /\ first \in IF Direct THEN {0} ELSE 0..Len(list) - 1
  /\ media \in BOOLEAN
  /\ next = 0 /\ forced = -1 /\ slow = {} /\ redirects = TRUE
  /\ tries = <<>> /\ dialled = "walking"

DialNext == DialGivesUp \/ \E answer \in AnswersOfHost : DialTries(answer)

DialSpec == DialInit /\ [][DialNext]_dialVars

----------------------------------------------------------------------------

DialTypeOK ==
  /\ forced \in -1..MaxDomains /\ next \in 0..2 * MaxDomains + 2
  /\ slow \subseteq (0..MaxDomains) \X Names
  /\ redirects \in BOOLEAN /\ dialled \in {"walking", "connected", "gave up"}

TriesOf(d, name) == {i \in DOMAIN tries : tries[i].domain = d /\ tries[i].name = name}

\* The base name deserves another try: the -1 name turned out to be absent, and no
\* try of the base name before that had timed out.
Deserves(d) ==
  /\ ~Direct
  /\ \E i \in TriesOf(d, "dash") :
       /\ tries[i].answer = "absent"
       /\ \A j \in TriesOf(d, "base") : j < i => tries[j].answer \notin TimeoutAnswers

\* A walk that gives up has tried both names of every distinct domain, each once,
\* and the base name exactly once more where the -1 name is missing, for media
\* and for others alike; it says "all redirects" only if every try that counts
\* was answered by one (CfAttempts and its comment, connect_ws_for_dc_path).
DialComplete ==
  dialled = "gave up" =>
    /\ \A d \in {DomainAt(i) : i \in IF Direct THEN {0} ELSE DOMAIN list} :
         /\ Cardinality(TriesOf(d, "dash")) = 1
         /\ Cardinality(TriesOf(d, "base")) = IF Deserves(d) THEN 2 ELSE 1
    /\ redirects <=> \A i \in DOMAIN tries :
                       \/ tries[i].answer = "redirect"
                       \/ tries[i].name = "dash" /\ tries[i].answer = "absent"
                            /\ Deserves(tries[i].domain)
=============================================================================
