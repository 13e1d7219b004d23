----------------------------- MODULE CaseFiles -----------------------------
(***************************************************************************)
(* The archive of cases on disk (cases/write.rs, bundle.rs, load.rs, and   *)
(* the writing half of handle_cases_create): captures that claim a stem at *)
(* the same second, write three loose files and a registry or one bundle,  *)
(* and give the claim back when a step fails; the transport that loses,    *)
(* truncates or swaps a file; and a load that reads the files one by one   *)
(* while captures are still writing.                                       *)
(*                                                                         *)
(* A file's content is who wrote it and how many records it holds: its     *)
(* text is CaseScan's.  Every create, write, remove and read of a file is  *)
(* one action.                                                             *)
(***************************************************************************)
EXTENDS Integers, Sequences, FiniteSets, TLC

CONSTANTS
  Writers,       \* captures
  Stems,         \* stems a claim may roll; 0 is the one without an id
  MaxAttempts,   \* MAX_STEM_ATTEMPTS
  MaxDamage      \* bound: files the transport damages

VARIABLES
  files,     \* <<stem, kind>> -> content, for the files that exist
  writer,    \* per capture: where it is, its stem and its options
  loader,    \* the load under way
  got,       \* the case the load produced, or None
  damaged    \* how many files the transport damaged

fileVars == <<files, writer, loader, got, damaged>>

None == [state |-> "none"]
Empty == [state |-> "empty"]
Claimed == <<"md", "log", "span">>       \* file_names, in the order of the claim
Evidence == {"log", "span"}
Loose == <<"md", "log", "span", "reg">>  \* what discard_claim removes

Put(f, k, c) == [x \in DOMAIN f \cup {k} |-> IF x = k THEN c ELSE f[x]]
Gone(f, ks) == [x \in DOMAIN f \ ks |-> f[x]]
Content(k) == IF k \in DOMAIN files THEN files[k] ELSE None

(* write_jsonl: a header naming its kind, and the records. *)
Jsonl(w, kind) == [state |-> "jsonl", kind |-> kind, by |-> w, records |-> 1]

(* front_matter: a key for each evidence file that was not omitted. *)
Document(w, omit) ==
  [state |-> "document", by |-> w, declares |-> [k \in Evidence \ omit |-> 1]]

FInit ==
  /\ files = [x \in {} |-> Empty]
  /\ writer = [w \in Writers |-> [at |-> "start"]]
  /\ loader = [at |-> "idle"] /\ got = None /\ damaged = 0

Step(w, next) == writer' = [writer EXCEPT ![w] = next @@ @]
Others == UNCHANGED <<loader, got, damaged>>
-----------------------------------------------------------------------------
(* The request: loose or bundled, and what to omit. *)
Request(w, separate, omit) ==
  /\ writer[w].at = "start"
  /\ Step(w, [at |-> "claim", i |-> 1, attempt |-> 1, stem |-> 0,
              separate |-> separate, omit |-> omit])
  /\ UNCHANGED files /\ Others

(* The stem of the next attempt: the bare one first, then with an id. *)
NextAttempt(w) ==
  IF writer[w].attempt >= MaxAttempts THEN Step(w, [at |-> "refused"])
  ELSE \E s \in Stems \ {0} :
         Step(w, [at |-> "claim", i |-> 1, attempt |-> writer[w].attempt + 1, stem |-> s])

(* create_new: the file must not exist. *)
Creatable(k) == k \notin DOMAIN files

(* try_claim: one of the three files; the claim is all three or none. *)
ClaimLoose(w) ==
  LET me == writer[w] IN
  /\ me.at = "claim" /\ me.separate
  /\ LET k == <<me.stem, Claimed[me.i]>> IN
     IF Creatable(k)
       THEN /\ files' = Put(files, k, Empty)
            /\ Step(w, IF me.i = Len(Claimed) THEN [at |-> "data"] ELSE [i |-> me.i + 1])
       ELSE /\ files' = files
            /\ Step(w, [at |-> "undo", undo |-> 1])
  /\ Others

(* The partial claim is undone and another stem tried. *)
UndoClaim(w) ==
  LET me == writer[w] IN
  /\ me.at = "undo"
  /\ IF me.undo = me.i
       THEN NextAttempt(w) /\ UNCHANGED files
       ELSE /\ files' = Gone(files, {<<me.stem, Claimed[me.undo]>>})
            /\ Step(w, [undo |-> me.undo + 1])
  /\ Others

(* claim_bundle *)
ClaimBundle(w) ==
  LET me == writer[w]
      k  == <<me.stem, "zip">> IN
  /\ me.at = "claim" /\ ~me.separate
  /\ IF Creatable(k)
       THEN files' = Put(files, k, Empty) /\ Step(w, [at |-> "data"])
       ELSE files' = files /\ NextAttempt(w)
  /\ Others

(* apply_case_data_entries, which may refuse the request's data. *)
ApplyData(w, ok) ==
  /\ writer[w].at = "data"
  /\ Step(w, [at |-> IF ok THEN "write" ELSE "discard", i |-> 1])
  /\ UNCHANGED files /\ Others

(* Mutant of WriteOrder: the document first. *)
WriteOrderDocumentFirst == <<"md", "log", "span", "reg">>

(* Bulk first, the document last. *)
WriteOrder == <<"log", "span", "reg", "md">>

(* One write of the loose form; an omitted file is not written.  A write   *)
(* that fails takes the claim down.                                        *)
WriteLoose(w, ok) ==
  LET me   == writer[w]
      kind == WriteOrder[me.i] IN
  /\ me.at = "write" /\ me.separate
  /\ IF ~ok
       THEN Step(w, [at |-> "discard", i |-> 1]) /\ UNCHANGED files
       ELSE /\ Step(w, IF me.i = Len(WriteOrder) THEN [at |-> "drop"] ELSE [i |-> me.i + 1])
            /\ files' = CASE kind = "md" -> Put(files, <<me.stem, kind>>, Document(w, me.omit))
                          [] kind = "reg" -> Put(files, <<me.stem, kind>>, [state |-> "registry", by |-> w])
                          [] kind \in Evidence /\ kind \notin me.omit ->
                               Put(files, <<me.stem, kind>>, Jsonl(w, kind))
                          [] OTHER -> files
  /\ Others

(* The claimed files of omitted evidence are removed. *)
DropOmitted(w) ==
  /\ writer[w].at = "drop"
  /\ files' = Gone(files, {<<writer[w].stem, k>> : k \in writer[w].omit})
  /\ Step(w, [at |-> "done"])
  /\ Others

(* pack: unreadable until its directory, written last, is there. *)
WriteBundle(w, ok) ==
  LET me == writer[w] IN
  /\ me.at = "write" /\ ~me.separate
  /\ IF ok
       THEN /\ files' = Put(files, <<me.stem, "zip">>,
                            [state |-> "bundle", by |-> w,
                             entries |-> [k \in ({"md", "reg"} \cup Evidence) \ me.omit |->
                                            CASE k = "md" -> Document(w, me.omit)
                                              [] k = "reg" -> [state |-> "registry", by |-> w]
                                              [] OTHER -> Jsonl(w, k)]])
            /\ Step(w, [at |-> "done"])
       ELSE UNCHANGED files /\ Step(w, [at |-> "discard", i |-> 1])
  /\ Others

(* discard_claim: the paths of the claim, one after the other. *)
Discard(w) ==
  LET me   == writer[w]
      path == IF me.separate THEN Loose ELSE <<"zip">> IN
  /\ me.at = "discard"
  /\ files' = Gone(files, {<<me.stem, path[me.i]>>})
  /\ Step(w, IF me.i = Len(path) THEN [at |-> "failed"] ELSE [i |-> me.i + 1])
  /\ Others
-----------------------------------------------------------------------------
(* The transport between the capturing machine and the reading one, once   *)
(* the capture is over.                                                    *)
Transport(s) ==
  /\ damaged < MaxDamage
  /\ \E w \in Writers : writer[w].at = "done" /\ writer[w].stem = s /\ writer[w].separate
  /\ damaged' = damaged + 1
  /\ \/ \E k \in Evidence : <<s, k>> \in DOMAIN files /\ files' = Gone(files, {<<s, k>>})
     \/ \E k \in Evidence : /\ <<s, k>> \in DOMAIN files
                            /\ files' = [files EXCEPT ![<<s, k>>].records = @ - 1]
     \/ /\ {<<s, "log">>, <<s, "span">>} \subseteq DOMAIN files
        /\ files' = [files EXCEPT ![<<s, "log">>] = files[<<s, "span">>],
                                  ![<<s, "span">>] = files[<<s, "log">>]]
  /\ UNCHANGED <<writer, loader, got>>
-----------------------------------------------------------------------------
(* load *)

(* read_loose reads the document first; parse_front_matter refuses an      *)
(* empty one.                                                              *)
LoadDocument(s) ==
  /\ loader.at = "idle" /\ got = None
  /\ Content(<<s, "md">>).state = "document"
  /\ loader' = [at |-> "log", stem |-> s, md |-> Content(<<s, "md">>)]
  /\ UNCHANGED <<files, writer, got, damaged>>

(* ... then each sibling, absent or not. *)
LoadSibling ==
  LET after == [log |-> "span", span |-> "reg", reg |-> "check"] IN
  /\ loader.at \in DOMAIN after
  /\ loader' = [at |-> after[loader.at]] @@
               (loader.at :> Content(<<loader.stem, loader.at>>)) @@ loader
  /\ UNCHANGED <<files, writer, got, damaged>>

(* unpack: all entries out of one file. *)
LoadBundle(s) ==
  /\ loader.at = "idle" /\ got = None
  /\ Content(<<s, "zip">>).state = "bundle"
  /\ LET e == files[<<s, "zip">>].entries
         at(k) == IF k \in DOMAIN e THEN e[k] ELSE None
     IN  loader' = [at |-> "check", stem |-> s, md |-> e["md"],
                    log |-> at("log"), span |-> at("span"), reg |-> at("reg")]
  /\ UNCHANGED <<files, writer, got, damaged>>

(* Mutant of Acceptable: a swapped file is read as the one declared. *)
AcceptableAnyKind(md, k, content) ==
  k \in DOMAIN md.declares => content.state = "jsonl" /\ content.records = md.declares[k]

(* evidence and check_header: a declared file must be there, be of its     *)
(* kind and hold as many records as declared; an undeclared one is not     *)
(* looked at.                                                              *)
Acceptable(md, k, content) ==
  k \in DOMAIN md.declares =>
    content.state = "jsonl" /\ content.kind = k /\ content.records = md.declares[k]

(* The loaded case, or the refusal. *)
LoadCheck ==
  /\ loader.at = "check"
  /\ got' = IF \A k \in Evidence : Acceptable(loader.md, k, loader[k])
              THEN [state |-> "case", by |-> loader.md.by, reg |-> loader.reg,
                    logs |-> IF "log" \in DOMAIN loader.md.declares THEN loader.log ELSE None,
                    spans |-> IF "span" \in DOMAIN loader.md.declares THEN loader.span ELSE None]
              ELSE [state |-> "refused"]
  /\ loader' = [at |-> "idle"]
  /\ UNCHANGED <<files, writer, damaged>>
-----------------------------------------------------------------------------
FNext ==
  \/ \E w \in Writers, separate \in BOOLEAN, omit \in SUBSET Evidence : Request(w, separate, omit)
  \/ \E w \in Writers : ClaimLoose(w) \/ UndoClaim(w) \/ ClaimBundle(w) \/ DropOmitted(w) \/ Discard(w)
  \/ \E w \in Writers, ok \in BOOLEAN : ApplyData(w, ok) \/ WriteLoose(w, ok) \/ WriteBundle(w, ok)
  \/ \E s \in Stems : Transport(s) \/ LoadDocument(s) \/ LoadBundle(s)
  \/ LoadSibling
  \/ LoadCheck

FilesSpec == FInit /\ [][FNext]_fileVars
-----------------------------------------------------------------------------
(* What loads is what one capture wrote, whole: both kinds of evidence,    *)
(* each of its kind and by that capture, absent only when it was omitted,  *)
(* whatever the transport did and whatever was being written (load.rs: a   *)
(* case is never partially loaded).                                        *)
LoadsWholeOrNotAtAll ==
  got.state = "case" =>
    LET omit == writer[got.by].omit
    IN  /\ got.logs = IF "log" \in omit THEN None ELSE Jsonl(got.by, "log")
        /\ got.spans = IF "span" \in omit THEN None ELSE Jsonl(got.by, "span")

(* A readable document stands on its evidence at every moment, so that a   *)
(* crash between two writes leaves none that points at a missing file, and *)
(* no capture takes, overwrites or discards another's files                *)
(* (handle_cases_create, try_claim).                                       *)
DocumentHasItsEvidence ==
  \A s \in Stems :
    LET md == Content(<<s, "md">>)
    IN  damaged = 0 /\ md.state = "document" =>
          /\ writer[md.by].at \in {"drop", "done"}
          /\ \A k \in DOMAIN md.declares : Content(<<s, k>>) = Jsonl(md.by, k)
=============================================================================
