------------------------------ MODULE Inference -----------------------------
(***************************************************************************)
(* Inference of template arguments in a call: TypeCheckCallArguments        *)
(* (expression_checker.cc) resolves the type of each argument against that  *)
(* of its parameter, and TypeResolver (type_resolver.cc) remembers what each *)
(* placeholder was bound to on the way, also when it fails half way.        *)
(***************************************************************************)
EXTENDS TypeAlgebra, FiniteSets

CONSTANTS
  Placeholder,     \* $0, $1...: one per template variable the call mentions
  MaxArguments     \* bound: arguments of the call

VARIABLES
  bindings,        \* bindings_: the type each placeholder is bound to
  accepted,        \* no argument was reported so far
  resolved         \* history: parameter and argument types accepted so far

inferenceVars == <<bindings, accepted, resolved>>

Unbound    == Named("unbound")
BoxOf(t)   == [kind |-> "Box", of |-> {t}]
FnOf(a, r) == [kind |-> "fn", of |-> {[kind |-> "takes", of |-> {a}],
                                      [kind |-> "gives", of |-> {r}]}]
Part(f, kind) == Member(CHOOSE m \in f.of : m.kind = kind)

IsPlaceholder(t) == t.kind \in Placeholder

\* Types a parameter is declared with, and types an argument can have.  The
\* template variable of the callee is placeholder $0; a generic function that
\* is passed as an argument brings $1.
Parameters ==
  LET T == Named("$0") IN
  {T, OptionalOf(T), BoxOf(T), FnOf(T, BoxOf(T)), FnOf(OptionalOf(T), T),
   BoxOf(OptionalOf(T)), AnyType}
Arguments ==
  LET A == Named("A")  i32 == Named("i32")  S == Named("$1") IN
  {A, i32, Nil, OptionalOf(A), BoxOf(A), BoxOf(i32), BoxOf(OptionalOf(A)),
   FnOf(A, BoxOf(A)), FnOf(A, i32), FnOf(i32, BoxOf(A)), FnOf(OptionalOf(A), A),
   FnOf(S, S)}

-----------------------------------------------------------------------------
\* The compression of the paths it follows is left out: no result depends on it.
RECURSIVE Prune(_, _)
Prune(b, t) ==
  IF IsPlaceholder(t) /\ b[t.kind] # Unbound THEN Prune(b, b[t.kind]) ELSE t

Bind(b, placeholder, t) ==
  [ok |-> TRUE, bindings |-> [b EXCEPT ![placeholder.kind] = t]]

\* Mutant: what a placeholder is bound to already is not looked up.
RECURSIVE ResolveRebinds(_, _, _)
ResolveRebinds(b, p, c) ==
  CASE p = c -> [ok |-> TRUE, bindings |-> b]
    [] IsPlaceholder(p) -> Bind(b, p, c)
    [] IsOptional(p) /\ c # Nil -> ResolveRebinds(b, UnwrapOptional(p), c)
    [] OTHER -> [ok |-> p.kind = c.kind \/ c = Nil, bindings |-> b]

\* Two functions: the argument types first, then the results, if those agree.
RECURSIVE Resolve(_, _, _)
Resolve(b, pattern, concrete) ==
  LET p == Prune(b, pattern)
      c == Prune(b, concrete)
      both(kind) == p.kind = kind /\ c.kind = kind
  IN  CASE p = c -> [ok |-> TRUE, bindings |-> b]
        [] p # c /\ IsPlaceholder(p) -> Bind(b, p, c)
        [] ~ IsPlaceholder(p) /\ IsPlaceholder(c) -> Bind(b, c, p)
        [] IsOptional(p) /\ c = Nil -> [ok |-> TRUE, bindings |-> b]
        [] IsOptional(p) /\ ~ IsPlaceholder(c) /\ c # Nil ->
             Resolve(b, UnwrapOptional(p),
                     IF IsOptional(c) THEN UnwrapOptional(c) ELSE c)
        [] both("Box") /\ p # c -> Resolve(b, Member(p), Member(c))
        [] both("fn") /\ p # c ->
             LET first == Resolve(b, Part(p, "takes"), Part(c, "takes"))
             IN  IF first.ok
                 THEN Resolve(first.bindings, Part(p, "gives"), Part(c, "gives"))
                 ELSE first
        [] OTHER -> [ok |-> FALSE, bindings |-> b]

\* The placeholders a type leads to.
RECURSIVE Reaches(_, _, _)
Reaches(b, t, seen) ==
  IF IsPlaceholder(t)
  THEN IF t.kind \in seen THEN seen
       ELSE Reaches(b, b[t.kind], seen \cup {t.kind})
  ELSE UNION {Reaches(b, m, seen) : m \in t.of} \cup seen

\* A placeholder is bound to a type that contains it.
Cyclic(b) ==
  \E x \in Placeholder : \E m \in Prune(b, Named(x)).of :
    /\ b[x] # Unbound
    /\ x \in Reaches(b, m, {})

\* TypeResolver::Rewrite; it does not end if the bindings are cyclic.
RECURSIVE Rewrite(_, _)
Rewrite(b, t) ==
  IF IsPlaceholder(t) /\ b[t.kind] # Unbound THEN Rewrite(b, b[t.kind])
  ELSE [t EXCEPT !.of = {Rewrite(b, m) : m \in @}]

-----------------------------------------------------------------------------
InferenceInit ==
  /\ bindings = [x \in Placeholder |-> Unbound]
  /\ accepted = TRUE
  /\ resolved = {}

NoInterfaces == [s \in Struct |-> {}]

\* One round of the loop over the arguments.
CheckArgument(expected, actual) ==
  LET r  == Resolve(bindings, expected, actual)
      ok == r.ok \/ IsTypeSubsetOf(NoInterfaces, actual, expected)
  IN  /\ Cardinality(resolved) < MaxArguments
      /\ ~ Cyclic(bindings)
      /\ bindings' = r.bindings
      /\ accepted' = (accepted /\ ok)
      /\ resolved' = resolved \cup {<<expected, actual>>}

InferenceNext == \E p \in Parameters, a \in Arguments : CheckArgument(p, a)

-----------------------------------------------------------------------------
\* A value of type a is taken where t is expected.  An optional takes what it
\* wraps at any depth: Box[A] is taken for Box[A?].
RECURSIVE Takes(_, _)
Takes(t, a) ==
  \/ IsTypeSubsetOf(NoInterfaces, a, t)
  \/ IsOptional(t) /\ Takes(UnwrapOptional(t),
                            IF IsOptional(a) THEN UnwrapOptional(a) ELSE a)
  \/ t.kind = a.kind /\ t.kind = "Box" /\ Takes(Member(t), Member(a))
  \/ /\ t.kind = "fn" /\ a.kind = "fn"
     /\ \A part \in {"takes", "gives"} : Takes(Part(t, part), Part(a, part))

\* What a later argument teaches of the template variables never makes an
\* earlier one wrong: all arguments fit the parameters of the call in the end.
ArgumentsFit ==
  accepted /\ ~ Cyclic(bindings) =>
    \A pair \in resolved : Takes(Rewrite(bindings, pair[1]),
                                 Rewrite(bindings, pair[2]))

=============================================================================
