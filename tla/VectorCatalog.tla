--------------------------- MODULE VectorCatalog ---------------------------
(***************************************************************************)
(* Requests that come from a file.  A test vector is a JSON document       *)
(* written by hand; loading checks its structure and the commands make a   *)
(* request of it: `vectors run` judges all vectors of a catalog through    *)
(* the mock stack, `witness build` writes its Prover.toml, and `prove`     *)
(* proves it, with the mock or with UltraHonk, where the request takes the *)
(* way that WitnessNaming describes.  The loader, the request, the         *)
(* service, the encoder and the circuits each check names for themselves.  *)
(*                                                                         *)
(* A vector starts as a sound one and its author makes mistakes in it.     *)
(* Values are as in WitnessNaming; of the state reference it matters       *)
(* whether there is one, and whether the words root_hi and root_lo are its *)
(* halves.                                                                 *)
(***************************************************************************)
EXTENDS WitnessNaming

CONSTANTS
  Illegal,   \* a name that the bags of a request refuse, JSON does not
  MaxSlips   \* bound: mistakes in a vector

ASSUME CatalogAssumption ==
  /\ MaxSlips \in Nat
  /\ Illegal \notin {Fresh} \cup Extras

VARIABLES
  vector,  \* the file, or NoVector if a caller made the request
  slips,   \* mistakes made in it
  stage    \* what became of it

vectorVars == <<request, target, pinned, answer, vector, slips, stage>>

-----------------------------------------------------------------------------
(* The files *)

RejectCategories ==
  {"invalid", "wrong-owner", "insufficient-balance", "stale-state", "malformed-proof", "replay"}
KnownCategories == RejectCategories \cup {"valid", "state-transition", "commitment"}

StateBound == {"transfer", "merge", "withdraw"}

NoVector == [operation |-> "none"]

\* The names that the operation's table lists, and all else as the schema asks.
SoundVector(op) ==
  [operation |-> op, circuit |-> op, witnessOperation |-> op,
   category |-> "valid", expect |-> TRUE,
   private |-> ToSet(Expectations[op].private), public |-> ToSet(Expectations[op].public),
   canonical |-> TRUE,
   state |-> IF op \in StateBound THEN "agrees" ELSE "none",
   outputs |-> Expectations[op].returns # <<>>]

\* The mistakes of one author; `canonical` is whether all of its values, and the
\* names in its ordered bags, can be converted.
Slips(v) ==
  {[v EXCEPT !.category = c] : c \in {"invalid", "commitment", "unheard-of"}}
    \cup {[v EXCEPT !.circuit = op] : op \in Operations}
    \cup {[v EXCEPT !.witnessOperation = op] : op \in Operations}
    \cup {[v EXCEPT !.expect = ~@], [v EXCEPT !.canonical = FALSE], [v EXCEPT !.outputs = ~@]}
    \cup {[v EXCEPT !.private = names] :
            names \in {{}} \cup {v.private \ {n} : n \in v.private}
                          \cup {v.private \cup {n} : n \in Extras \cup {Illegal}}}
    \cup {[v EXCEPT !.public = names] :
            names \in {{}} \cup {v.public \ {n} : n \in v.public}
                          \cup {v.public \cup {n} : n \in Extras}
                          \cup {v.public \cup {"root_hi", "root_lo"}}}
    \cup {[v EXCEPT !.state = s] : s \in {"none", "agrees", "differs"}}

-----------------------------------------------------------------------------
(* Loading *)

\* Mutant: the halves of the root are not compared.
ValidatesStructureUnbound(v) ==
  /\ v.category \in KnownCategories
  /\ v.circuit = v.operation /\ v.witnessOperation = v.operation
  /\ v.private # {}
  /\ v.public \cap v.private = {}
  /\ v.category = "valid" => v.expect
  /\ v.category \in RejectCategories => ~v.expect
  /\ v.operation = "register" => ~v.outputs

ValidatesStructure(v) ==
  /\ v.category \in KnownCategories
  /\ v.circuit = v.operation /\ v.witnessOperation = v.operation
  /\ v.private # {}
  /\ v.public \cap v.private = {}
  /\ v.category = "valid" => v.expect
  /\ v.category \in RejectCategories => ~v.expect
  /\ v.operation \in StateBound => v.state = "agrees" /\ {"root_hi", "root_lo"} \subseteq v.public
  /\ v.operation = "register" => ~v.outputs

Loads(v) == v.canonical /\ ValidatesStructure(v)

\* to_request expects of every private name that a bag takes it.
Panics(v) == Illegal \in v.private

\* The request of a vector, for any backend.
ToRequest(v) ==
  [operation |-> v.operation, circuit |-> v.circuit, public |-> v.public,
   private |-> v.private, extra |-> 0]

\* ProofRequest::validate, with what WitnessNaming leaves to ContextBinding.
RequestValidates(v) ==
  /\ v.private # {} /\ v.public # {}
  /\ v.operation \in StateBound => v.state # "none"
  /\ v.state # "none" /\ {"root_hi", "root_lo"} \subseteq v.public => v.state = "agrees"

VectorInit ==
  /\ Init
  /\ slips = 0
  /\ \/ vector = NoVector /\ stage = "request"
     \/ /\ vector = SoundVector(request.operation)
        /\ request = ToRequest(vector)
        /\ stage = "file"

Slip ==
  /\ stage = "file"
  /\ slips < MaxSlips
  /\ slips' = slips + 1
  /\ vector' \in Slips(vector) \ {vector}
  /\ UNCHANGED <<request, target, pinned, answer, stage>>

-----------------------------------------------------------------------------
(* Commands *)

End(how) ==
  /\ stage' = how
  /\ UNCHANGED <<request, target, pinned, answer, vector, slips>>

\* The steps that all commands begin with, and how they end early.
Unloadable == stage = "file" /\ ~Loads(vector) /\ End("unloadable")

OtherOperation == stage = "file" /\ Loads(vector) /\ End("otherOperation")

ToRequestPanics == stage = "file" /\ Loads(vector) /\ Panics(vector) /\ End("panicked")

\* The vector is the request of its command from here on.
Begins(v) == stage = "file" /\ Loads(v) /\ ~Panics(v)

Requests(how) ==
  /\ stage' = how
  /\ request' = ToRequest(vector)
  /\ target' = Mains[vector.circuit]
  /\ pinned' = Mains[vector.circuit]
  /\ UNCHANGED <<answer, vector, slips>>

\* witness build: no more than the request's own checks stand before the file.
Malformed ==
  Begins(vector) /\ ~RequestValidates(vector) /\ Requests("malformed")

BuildWitness ==
  Begins(vector) /\ RequestValidates(vector) /\ Requests("built")

\* Mutant: a vector is green if its request is well formed.
GreenUnproven(v) == RequestValidates(v)

\* vectors run: the mock proves what passes the preflight of the service, and
\* verifies what it proved.
Green(v) == RequestValidates(v) /\ Accepted(ToRequest(v))

\* A catalog has other files.  One that cannot be loaded ends the run before
\* anything is judged, also if the run is restricted to another operation; one
\* that panics ends it wherever it stands.
Judge(others) ==
  LET catalog == others \cup {vector}
  IN  /\ stage = "file"
      /\ \/ (\E v \in catalog : ~Loads(v)) /\ End("unloadable")
         \/ /\ \A v \in catalog : Loads(v)
            /\ \E op \in Operations, restricted \in BOOLEAN :
                 LET selected == {v \in catalog : restricted => v.operation = op}
                 IN  \/ selected = {} /\ End("nothingSelected")
                     \/ (\E v \in selected : Panics(v)) /\ End("panicked")
                     \/ /\ selected # {} /\ \A v \in selected : ~Panics(v)
                        /\ \/ vector \in selected /\ (\A v \in selected : Green(v)) /\ Requests("green")
                           \/ vector \notin selected /\ (\A v \in selected : Green(v)) /\ End("othersGreen")
                           \/ (\E v \in selected : ~Green(v)) /\ End("failed")

\* The other files of a catalog: none, a sound one, one of an unknown category,
\* and one that lacks a public name.
Catalogs ==
  LET sound == SoundVector("deposit")
  IN  {{}, {sound}, {[sound EXCEPT !.category = "unheard-of"]}, {sound, [sound EXCEPT !.public = @ \ {"token_address"}]}}

\* prove: vectors that are expected to be rejected are not proven.
Rejecting == stage = "file" /\ Loads(vector) /\ ~vector.expect /\ End("rejecting")

\* prove --backend mock, with its round trip.
ProveMock ==
  /\ Begins(vector)
  /\ vector.expect
  /\ IF Green(vector) THEN Requests("mockProven") ELSE End("failed")

\* prove --backend ultrahonk: the service sees the request that WitnessNaming
\* goes on with.
ProveUltraHonk ==
  /\ Begins(vector)
  /\ vector.expect
  /\ IF RequestValidates(vector) THEN Requests("request") ELSE End("failed")

Commands ==
  \/ Unloadable \/ OtherOperation \/ ToRequestPanics \/ Malformed
  \/ BuildWitness
  \/ \E others \in Catalogs : Judge(others)
  \/ Rejecting \/ ProveMock \/ ProveUltraHonk

\* The request, from a caller or from a vector, on its way.
Request ==
  /\ stage = "request"
  /\ \/ vector = NoVector /\ \E name \in Extras : WithPublic(name) \/ WithPrivate(name)
     \/ Sources \/ Proving
  /\ UNCHANGED <<vector, slips, stage>>

VectorNext == Slip \/ Commands \/ Request

VectorSpec == VectorInit /\ [][VectorNext]_vectorVars

-----------------------------------------------------------------------------
(* Properties *)

\* The vector has the names that its operation is expected to have.
HasNames(v) ==
  /\ ToSet(Expectations[v.operation].private) \subseteq v.private
  /\ ToSet(Expectations[v.operation].public) \subseteq v.public

\* "A structurally validated test vector, ready for execution tiers" is so up to
\* three mistakes that the loader does not look for, and these are all: a private
\* name that the bags refuse, on which to_request panics; a name missing that the
\* operation is expected to have, which the service's preflight refuses; and, for
\* an operation that is not state-bound, a state reference together with words
\* root_hi and root_lo that are not its halves.  The request's own checks, which
\* are all that `witness build` makes, refuse a loaded vector for the last of these
\* or for no public input at all, and never one of a state-bound operation.  The
\* Prover.toml that it writes then can be read, gives no name both a public and a
\* private value, and has the roots of the state it is for.
LoadedVectorsRun ==
  LET Unbound(v) ==
        /\ v.operation \notin StateBound
        /\ v.state = "differs" /\ {"root_hi", "root_lo"} \subseteq v.public
  IN  /\ vector # NoVector /\ Loads(vector) =>
           Panics(vector) \/ ~HasNames(vector) \/ Unbound(vector) \/ Green(vector)
      /\ stage = "malformed" =>
           vector.operation \notin StateBound /\ (vector.public = {} \/ Unbound(vector))
      /\ stage = "built" =>
           /\ Readable(Encode(request))
           /\ vector.operation \in StateBound =>
                {"root_hi", "root_lo"} \subseteq request.public /\ vector.state = "agrees"

\* The mock knows no circuits, and yet for a vector that is green in the mock tier
\* nargo finds every parameter of the circuit in its Prover.toml, no name stands
\* there twice, and bb's words are as many as the operation has names.
GreenVectorsSolve ==
  stage \in {"green", "mockProven"} =>
    /\ Solvable(target, Encode(request))
    /\ Len(Words(pinned, Encode(request))) = Len(PublicNames(request.operation))

=============================================================================
