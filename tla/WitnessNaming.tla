--------------------------- MODULE WitnessNaming ---------------------------
(***************************************************************************)
(* How the named values of a request reach a circuit, and how the words of *)
(* the proof get their names back.  A caller fills two bags of named       *)
(* values; the service checks them against the names the operation is      *)
(* expected to have; the encoder writes one line per value into            *)
(* Prover.toml; nargo reads the lines the circuit's parameters ask for; bb *)
(* reports the public parameters and the returns as bare words; the        *)
(* provider names the words by position.                                   *)
(*                                                                         *)
(* The names live in two places that nothing but care keeps together: the  *)
(* circuits' sources and the table of expectations.  A circuit's source    *)
(* may be edited; what it compiles to is what nargo solves, and only what  *)
(* is pinned after that is what bb proves.  The circuit of a request is    *)
(* chosen apart from its operation.  Values are known by the side and the  *)
(* name they were put under; the roots of request and state agree          *)
(* (ContextBinding).                                                       *)
(***************************************************************************)
EXTENDS Naturals, Sequences, SequencesExt

CONSTANTS
  Extras,   \* names a caller may add to the ones its operation expects
  Fresh,    \* a name that no circuit has today
  Edits,    \* the kinds of edit that a circuit's source may undergo
  MaxExtra  \* bound: names added to a request

VARIABLES
  request,  \* operation, circuit, and the names in its two bags
  target,   \* the interface of its circuit as last compiled, which nargo solves
  pinned,   \* its interface as last pinned, which bb proves
  answer    \* outcome of the last proving, and the outputs it named

vars == <<request, target, pinned, answer>>

-----------------------------------------------------------------------------
(* The names *)

Expected(private, public, returns) ==
  [private |-> private, public |-> public, returns |-> returns]

Expectations ==
  [register |-> Expected(<<"account_sk">>, <<"account_address">>, <<>>),
   deposit  |-> Expected(<<"account_sk", "old_amount", "old_blinding", "amount", "blinding">>,
                         <<"token_address", "account_address", "old_commitment">>,
                         <<"new_commitment", "nullifier">>),
   merge    |-> Expected(<<"account_sk", "amount_a", "blinding_a", "amount_b", "blinding_b",
                           "blinding">>,
                         <<"token_address", "account_address", "commitment_a", "commitment_b",
                           "root_hi", "root_lo">>,
                         <<"merged_commitment", "nullifier_a", "nullifier_b">>),
   transfer |-> Expected(<<"sender_sk", "amount", "old_amount", "old_blinding",
                           "recipient_blinding", "change_blinding">>,
                         <<"token_address", "sender_address", "recipient_address",
                           "old_sender_commitment", "root_hi", "root_lo">>,
                         <<"recipient_commitment", "change_commitment", "nullifier">>),
   withdraw |-> Expected(<<"account_sk", "amount", "old_amount", "old_blinding",
                           "change_blinding">>,
                         <<"token_address", "account_address", "commitment", "root_hi", "root_lo">>,
                         <<"change_commitment", "nullifier">>)]

\* A circuit's main: its public parameters, its others, and how many values it
\* returns.
Main(public, private, returns) ==
  [public |-> public, private |-> private, returns |-> returns]

RegisterMain == Main(<<"account_address">>, <<"account_sk">>, 0)
DepositMain  == Main(<<"token_address", "account_address", "old_commitment">>,
                     <<"account_sk", "old_amount", "old_blinding", "amount", "blinding">>, 2)
MergeMain    == Main(<<"token_address", "account_address", "commitment_a", "commitment_b",
                       "root_hi", "root_lo">>,
                     <<"account_sk", "amount_a", "blinding_a", "amount_b", "blinding_b",
                       "blinding">>, 3)
TransferMain == Main(<<"token_address", "sender_address", "recipient_address",
                       "old_sender_commitment", "root_hi", "root_lo">>,
                     <<"sender_sk", "amount", "old_amount", "old_blinding",
                       "recipient_blinding", "change_blinding">>, 3)
WithdrawMain == Main(<<"token_address", "account_address", "commitment", "root_hi", "root_lo">>,
                     <<"account_sk", "amount", "old_amount", "old_blinding",
                       "change_blinding">>, 2)

Mains ==
  [register |-> RegisterMain, deposit |-> DepositMain, merge |-> MergeMain,
   transfer |-> TransferMain, withdraw |-> WithdrawMain]

Operations == DOMAIN Expectations

ASSUME NamingAssumption ==
  /\ Edits \subseteq {"drop", "add", "rename", "reveal", "return", "reorder"}
  /\ MaxExtra \in Nat
  /\ \A op \in Operations :
       Fresh \notin ToSet(Expectations[op].public) \cup ToSet(Expectations[op].private)

\* What bb reports: the public parameters, then the returns.
PublicNames(op) == Expectations[op].public \o Expectations[op].returns

Swapped(s, i, j) == [s EXCEPT ![i] = s[j], ![j] = s[i]]

\* Sources that are one edit away from `m`.
Edited(m, kind) ==
  LET n == Len(m.public)
  IN CASE kind = "drop"    -> {[m EXCEPT !.public = RemoveAt(@, i)] : i \in 1..n}
       [] kind = "add"     -> {[m EXCEPT !.public = InsertAt(@, i, Fresh)] : i \in 1..n + 1}
       [] kind = "rename"  -> {[m EXCEPT !.public = ReplaceAt(@, i, Fresh)] : i \in 1..n}
       [] kind = "reveal"  -> {Main(InsertAt(m.public, i, m.private[j]), RemoveAt(m.private, j),
                                    m.returns) : i \in {1, n + 1}, j \in DOMAIN m.private}
       [] kind = "return"  -> {[m EXCEPT !.returns = r] : r \in {m.returns + 1, m.returns - 1} \cap Nat}
       [] kind = "reorder" -> {[m EXCEPT !.public = Swapped(@, i, j)] : i, j \in 1..n}

Reordered(m, n) ==
  m.public # n.public /\ Len(m.public) = Len(n.public) /\ ToSet(m.public) = ToSet(n.public)

-----------------------------------------------------------------------------
(* Requests *)

\* Values are known by where they were put.
Public(name) == <<"public", name>>
Secret(name) == <<"private", name>>
Return(i)    == <<"return", i>>
Inner(i)     == <<"inner", i>>    \* what a circuit computes on the way

NoAnswer == [outcome |-> "none", outputs |-> <<>>]

\* What the service wants of a request.  (Mutant: of its private bag only.)
AcceptedByPrivate(req) ==
  /\ req.private # {} /\ req.public # {}
  /\ ToSet(Expectations[req.operation].private) \subseteq req.private

\* ProofRequest::validate, then the names the operation is expected to have.
Accepted(req) ==
  /\ req.private # {} /\ req.public # {}
  /\ ToSet(Expectations[req.operation].private) \subseteq req.private
  /\ ToSet(Expectations[req.operation].public) \subseteq req.public

\* WitnessAssembler, told to require the expected names.
Assembles(req) ==
  /\ ToSet(Expectations[req.operation].public) \subseteq req.public
  /\ ToSet(Expectations[req.operation].private) \subseteq req.private
  /\ req.public \cap req.private = {}

\* WitnessValidation.
Validates(req) ==
  /\ req.public # {} /\ req.private # {}
  /\ req.public \cap req.private = {}

\* A caller starts from the names of an operation, of which it may forget one.
Init ==
  \E op, circuit \in Operations :
    LET names == ToSet(Expectations[op].private) \cup ToSet(Expectations[op].public)
    IN  \E forgotten \in {{}} \cup {{n} : n \in names} :
          /\ request = [operation |-> op, circuit |-> circuit,
                        public |-> ToSet(Expectations[op].public) \ forgotten,
                        private |-> ToSet(Expectations[op].private) \ forgotten,
                        extra |-> 0]
          /\ target = Mains[circuit]
          /\ pinned = Mains[circuit]
          /\ answer = NoAnswer

\* A name that is in a bag already is refused, and the bag left as it was.
WithPublic(name) ==
  /\ answer = NoAnswer
  /\ request.extra < MaxExtra
  /\ name \notin request.public
  /\ request' = [request EXCEPT !.public = @ \cup {name}, !.extra = @ + 1]
  /\ UNCHANGED <<target, pinned, answer>>

WithPrivate(name) ==
  /\ answer = NoAnswer
  /\ request.extra < MaxExtra
  /\ name \notin request.private
  /\ request' = [request EXCEPT !.private = @ \cup {name}, !.extra = @ + 1]
  /\ UNCHANGED <<target, pinned, answer>>

\* The source of the circuit is edited and compiled, and the expectations are not
\* told.
Edit ==
  /\ answer = NoAnswer
  /\ target = Mains[request.circuit] /\ pinned = Mains[request.circuit]
  /\ target' \in UNION {Edited(target, kind) : kind \in Edits} \ {target}
  /\ UNCHANGED <<request, pinned, answer>>

\* artifacts generate.
Pin ==
  /\ answer = NoAnswer
  /\ pinned # target
  /\ pinned' = target
  /\ UNCHANGED <<request, target, answer>>

\* The edit is taken back and the source compiled again.
TakeBack ==
  /\ answer = NoAnswer
  /\ target # Mains[request.circuit]
  /\ target' = Mains[request.circuit]
  /\ UNCHANGED <<request, pinned, answer>>

-----------------------------------------------------------------------------
(* Proving *)

\* One line for each value, the public ones first.
Encode(req) ==
  {[name |-> n, value |-> Public(n)] : n \in req.public}
    \cup {[name |-> n, value |-> Secret(n)] : n \in req.private}

\* External: a key may be in the file once.
Readable(toml) == \A l, k \in toml : l.name = k.name => l = k

\* A circuit's parameters, by place.
Places(m) == m.public \o m.private

\* External: nargo looks up each parameter, and minds no others.
Solvable(m, toml) ==
  /\ Readable(toml)
  /\ ToSet(Places(m)) \subseteq {l.name : l \in toml}

ValueOf(toml, n) == (CHOOSE l \in toml : l.name = n).value

\* External: the words bb reports for a witness that satisfies the circuit.
Words(m, toml) ==
  [i \in DOMAIN m.public |-> ValueOf(toml, m.public[i])] \o [i \in 1..m.returns |-> Return(i)]

\* External: a witness has values by place, and it can satisfy another circuit than
\* the one it was solved for only if that one's parameters are at the same places.
Fits == Places(target) = Places(pinned)

\* External: the words bb reports for any other witness, those at the places of the
\* pinned circuit.
WordsByPlace(toml) ==
  [i \in 1..Len(pinned.public) + pinned.returns |->
     IF i <= Len(pinned.public) /\ i \in DOMAIN Places(target)
     THEN ValueOf(toml, Places(target)[i]) ELSE Inner(i)]

\* The provider pairs names and words up to the shorter of the two.
Named(names, words) ==
  [n \in {names[i] : i \in DOMAIN names \cap DOMAIN words} |->
     words[CHOOSE i \in DOMAIN names : names[i] = n]]

\* The verifier of the round trip finds the request's root in the outputs, where
\* they have one.
RootsAgree(outputs) ==
  {"root_hi", "root_lo"} \subseteq DOMAIN outputs =>
    outputs["root_hi"] = Public("root_hi") /\ outputs["root_lo"] = Public("root_lo")

Answer(outcome, outputs) ==
  /\ answer' = [outcome |-> outcome, outputs |-> outputs]
  /\ UNCHANGED <<request, target, pinned>>

Refuse ==
  /\ answer = NoAnswer
  /\ ~Accepted(request)
  /\ Answer("invalid", <<>>)

\* Values may also fail the constraints of the circuit.
SolveFails ==
  /\ answer = NoAnswer
  /\ Accepted(request)
  /\ Answer("unsolved", <<>>)

Respond(outputs) == Answer(IF RootsAgree(outputs) THEN "released" ELSE "notVerified", outputs)

\* Mutant: the number of words is not compared.
ProveUncounted ==
  /\ answer = NoAnswer
  /\ Accepted(request)
  /\ Solvable(target, Encode(request)) /\ Fits
  /\ Respond(Named(PublicNames(request.operation), Words(pinned, Encode(request))))

\* As many words as the operation has public names, or the circuit has drifted.
Prove ==
  LET names == PublicNames(request.operation)
      words == Words(pinned, Encode(request))
  IN  /\ answer = NoAnswer
      /\ Accepted(request)
      /\ Solvable(target, Encode(request)) /\ Fits
      /\ \/ Len(words) # Len(names) /\ Answer("drifted", <<>>)
         \/ Len(words) = Len(names) /\ Respond(Named(names, words))

\* The witness is of the compiled circuit and not of the pinned one: the same steps
\* end in a proof that does not verify.
ProveElsewhere ==
  LET names == PublicNames(request.operation)
      words == WordsByPlace(Encode(request))
  IN  /\ answer = NoAnswer
      /\ Accepted(request)
      /\ Solvable(target, Encode(request)) /\ target # pinned
      /\ \/ Len(words) # Len(names) /\ Answer("drifted", <<>>)
         \/ Len(words) = Len(names) /\ Answer("notVerified", Named(names, words))

Sources == Edit \/ Pin \/ TakeBack
Proving == Refuse \/ SolveFails \/ Prove \/ ProveElsewhere

Next ==
  \/ \E name \in Extras : WithPublic(name) \/ WithPrivate(name)
  \/ Sources \/ Proving

Spec == Init /\ [][Next]_vars

-----------------------------------------------------------------------------
(* Properties *)

TypeOK ==
  /\ request.operation \in Operations /\ request.circuit \in Operations
  /\ request.extra \in 0..MaxExtra
  /\ answer.outcome \in {"none", "invalid", "unsolved", "drifted", "notVerified", "released"}
  /\ DOMAIN answer.outputs \in {{}, ToSet(PublicNames(request.operation))}

\* "Fail loudly instead of naming words wrongly": a released response to a request
\* with no names but its operation's gives every public parameter the value that
\* the request has under that name, and every return its own, whichever circuit
\* the request names, whichever one edit its source underwent, and whether that was
\* pinned, compiled only, or taken back and still pinned; except that the pinned
\* public parameters are in another order: two of them then have each other's
\* values, and nothing else is wrong.  The count of the words, the lookup by name,
\* the round trip and the two name checks give this together.
NamedAsRequested ==
  LET spec == Expectations[request.operation]
      Gives(n, value) == n \in DOMAIN answer.outputs /\ answer.outputs[n] = value
      Wrong == {n \in ToSet(spec.public) : ~Gives(n, Public(n))}
  IN  /\ answer.outcome = "released"
      /\ request.public = ToSet(spec.public) /\ request.private = ToSet(spec.private)
      => /\ \/ Wrong = {}
            \/ /\ Reordered(pinned, Mains[request.circuit])
               /\ \E n, k \in Wrong :
                    Wrong = {n, k} /\ Gives(n, Public(k)) /\ Gives(k, Public(n))
         /\ \A i \in DOMAIN spec.returns : Gives(spec.returns[i], Return(i))
         /\ request.circuit = request.operation

\* No private value that the operation asks for is among the outputs of a released
\* response, nor of one that did not verify where the pin is of the compiled
\* circuit, although the caller may put a name on both sides, on the wrong one, or
\* ask for another circuit, and although one edit may make a private parameter
\* public.  (While an edit is compiled and not pinned, or pinned and taken back, bb
\* reads the witness at the places of another circuit: the response then does not
\* verify, and a private value may stand in it under a public name.)
SecretsStayPrivate ==
  answer.outcome = "released" \/ target = pinned =>
    \A n \in DOMAIN answer.outputs, secret \in ToSet(Expectations[request.operation].private) :
      answer.outputs[n] # Secret(secret)

\* A request that has the names which the operation expects, and passes the checks
\* of the witness crate, never fails for its names: the expectations say what the
\* circuits declare.  And "a request missing any of these names could never produce
\* a satisfying witness" as far as nargo's lookup tells it: one that the service
\* refuses lacks a parameter, unless what it lacks on the one side is on the other,
\* which the lookup does not mind.
PreparedSolves ==
  LET toml == Encode(request)
      main == Mains[request.circuit]
  IN  request.circuit = request.operation /\ target = main /\ pinned = main =>
        /\ Assembles(request) \/ (Accepted(request) /\ Validates(request)) =>
             /\ Accepted(request) /\ Solvable(target, toml)
             /\ Len(Words(pinned, toml)) = Len(PublicNames(request.operation))
        /\ Solvable(target, toml) /\ ~Accepted(request) =>
             \/ request.private \cap ToSet(main.public) # {}
             \/ request.public \cap ToSet(main.private) # {}

=============================================================================
