------------------------------- MODULE CheckPack -------------------------------
(* The native check of a platform corpus: the composition of its witnesses into evidence
   (sim-check-pack-ubuntu-pc), the preparation of a check and the receipt that the owner
   issues for it (sim-check-pack), and the command around it (src/src/check_pack.rs).

   A corpus is [id, class, acceptance, binding, witness]: functions of the four roles of a
   specimen, and of the platform's facts to the fact that a witness is of, or None.  A build
   is [inputs, lock].  An identity is the record of what it is the identity of.  The pack
   and the owner are other repositories' and are modelled by what they answer. *)
EXTENDS Naturals, Sequences, FiniteSets, SequencesExt, FiniteSetsExt

None == "none"
Refused(why) == [refused |-> TRUE, why |-> why]
Roles == {"success", "diverged", "cas", "acknowledgement"}
SpecimenFacts == [f \in {"success-observed", "failure-observed"} |->
                    IF f = "success-observed" THEN "success" ELSE "diverged"]

-----------------------------------------------------------------------------
(* Composition (composition.rs). *)

Distinct(f) == \A r, s \in DOMAIN f : f[r] = f[s] => r = s

(* Mutant: two roles may share a binding. *)
MutCorpusOK(corpus) == (\A r \in Roles : corpus.class[r] = r) /\ Distinct(corpus.acceptance)

(* validate_platform_corpus *)
CorpusOK(corpus) ==
  /\ \A r \in Roles : corpus.class[r] = r
  /\ Distinct(corpus.acceptance) /\ Distinct(corpus.binding)

(* platform_contributions and add_platform_contribution *)
Contributions(corpus) ==
  LET supplied == {f \in DOMAIN corpus.witness : corpus.witness[f] # None}
  IN [f \in supplied \cup DOMAIN SpecimenFacts |->
        IF f \in supplied THEN [witness |-> corpus.witness[f]]
        ELSE [role |-> SpecimenFacts[f], acceptance |-> corpus.acceptance[SpecimenFacts[f]],
              binding |-> corpus.binding[SpecimenFacts[f]]]]

WitnessesOK(corpus) == \A f \in DOMAIN corpus.witness : corpus.witness[f] \in {None, f}

MissingRoles(corpus) == (DOMAIN corpus.witness \cup DOMAIN SpecimenFacts) \ DOMAIN Contributions(corpus)

(* support_identity of composition.rs *)
FactSupport(fact, corpus, builds) ==
  [fact |-> fact, corpus |-> corpus.id, producer |-> builds.producer, checker |-> builds.adapter,
   contributor |-> Contributions(corpus)[fact]]

(* compose, finish_composition *)
Compose(corpus, builds) ==
  IF ~CorpusOK(corpus) \/ ~WitnessesOK(corpus) THEN Refused({})
  ELSE IF MissingRoles(corpus) # {} THEN Refused(MissingRoles(corpus))
  ELSE [refused |-> FALSE, evidence |-> [f \in DOMAIN Contributions(corpus) |-> TRUE],
        support |-> [f \in DOMAIN Contributions(corpus) |-> FactSupport(f, corpus, builds)]]

-----------------------------------------------------------------------------
(* Preparation and issue (prepared.rs). *)

Binding(builds) == [checker |-> "checker/c-op", code |-> builds.pack]

(* support_identity and provenance_identity of prepared.rs *)
SupportId(invocation, support, builds) ==
  [definition |-> support, closure |-> invocation.subject, adapter |-> builds.adapter, checker |-> builds.pack]
Provenance(invocation, support, builds) ==
  [support |-> SupportId(invocation, support, builds), definition |-> support, adapter |-> builds.adapter,
   checker |-> builds.pack]

(* prepare_operation_local: the support is verified to be that of the evidence, and the pack
   passes when no fact is false. *)
Prepare(evidence, support, builds) ==
  LET invocation == [binding |-> Binding(builds), subject |-> evidence, scope |-> "operation/local"]
  IN IF builds.pack.lock # builds.adapter.lock THEN Refused("incompatible build graph")
     ELSE IF DOMAIN support # DOMAIN evidence \/ \E f \in DOMAIN evidence : ~evidence[f] THEN Refused("pack")
     ELSE [refused |-> FALSE, binding |-> Binding(builds), invocation |-> invocation, result |-> "pass",
           observations |-> evidence, grade |-> "bootstrap", provenance |-> Provenance(invocation, support, builds),
           policy |-> "operation/local", support |-> SupportId(invocation, support, builds)]

(* issue: the owner, who may refuse or answer of something other than what it was asked. *)
Issue(prepared, authority) ==
  IF prepared.refused THEN prepared
  ELSE IF ~authority.live THEN Refused("owner")
  ELSE IF authority.other # {} THEN Refused("unsupported")
  ELSE prepared

(* execute_with_owner_currentness and project_qualified: options are the texts of the checker,
   the binding, the subject and the scope. *)
Execute(options, evidence, support, authority, builds) ==
  LET qualified == Issue(Prepare(evidence, support, builds), authority)
  IN IF options.subject # evidence THEN Refused("subject-mismatch")
     ELSE IF options.checker # "checker/c-op" THEN Refused("unknown-checker")
     ELSE IF options.scope # "operation/local" THEN Refused("wrong-scope")
     ELSE IF options.binding # Binding(builds) THEN Refused("wrong-binding")
     ELSE IF qualified.refused THEN Refused("receipt-refused")
     ELSE IF ~authority.verifies THEN Refused("receipt-verification")
     ELSE [refused |-> FALSE, options |-> options, receipt |-> qualified, revocation |-> authority.status]

(* A check that passes vouches for the corpus it was composed of: each of its facts rests on
   the corpus's own witness of that fact, and on no specimen that stands in two roles; it is
   the check that the options name, made by one build graph, and the owner's receipt is of
   exactly what was prepared, with the revocation that the owner reports.  A composition
   that is refused for lack of witnesses names each one that lacks
   (composition.rs:199-202, prepared.rs:18-24 and 113-120). *)
PassIsVouchedFor(corpus, options, authority, builds) ==
  LET c == Compose(corpus, builds)
      r == Execute(options, c.evidence, c.support, authority, builds)
      facts == DOMAIN corpus.witness \cup DOMAIN SpecimenFacts
      lacking == {f \in DOMAIN corpus.witness : corpus.witness[f] = None}
  IN /\ c.refused => c.why \in {{}, lacking}
     /\ ~c.refused /\ ~r.refused =>
          /\ DOMAIN r.receipt.observations = facts
          /\ \A f \in DOMAIN corpus.witness : corpus.witness[f] = f
          /\ \A q, s \in Roles : q # s => corpus.acceptance[q] # corpus.acceptance[s] /\ corpus.binding[q] # corpus.binding[s]
          /\ \A f \in facts : r.receipt.support.definition[f].fact = f /\ r.receipt.support.definition[f].corpus = corpus.id
          /\ r.receipt.binding = options.binding /\ r.receipt.invocation.subject = options.subject
          /\ r.receipt.provenance.adapter.lock = r.receipt.provenance.checker.lock
          /\ r.receipt.provenance = Provenance(r.receipt.invocation, c.support, builds)
          /\ r.revocation = authority.status /\ authority.live /\ authority.verifies

-----------------------------------------------------------------------------
(* The lock that a build measures (build.rs).  A tree maps directories, sequences of names,
   to their lock [is, content]; env has at most one file and one digest. *)

(* selected_lock, find_lock *)
SelectedLock(env, dir, tree) ==
  LET above == {d \in DOMAIN tree : IsPrefix(d, dir)}
      nearest == CHOOSE d \in above : \A e \in above : Len(e) <= Len(d)
      good(d) == d \in DOMAIN tree /\ tree[d].is = "file" /\ tree[d].content \in env.digest
  IN IF Cardinality(env.file) # Cardinality(env.digest) \/ (\E d \in env.file : ~good(d)) THEN Refused("selected lock")
     ELSE IF env.file = {} /\ above = {} THEN Refused("no lock")
     ELSE [refused |-> FALSE, lock |-> tree[IF env.file = {} THEN nearest ELSE CHOOSE d \in env.file : TRUE].content]

(* The lock that a build records is the one it was told by its digest, or else the one that
   cargo would use, with none nearer (build.rs:124-166). *)
LockIsExact(env, dir, tree) ==
  LET l == SelectedLock(env, dir, tree)
      cargo(d) == IsPrefix(d, dir) /\ \A e \in DOMAIN tree : IsPrefix(e, dir) => Len(e) <= Len(d)
  IN ~l.refused => \E d \in DOMAIN tree : /\ tree[d].content = l.lock
                                         /\ IF env.digest = {} THEN cargo(d) ELSE env.digest = {l.lock}
=============================================================================
