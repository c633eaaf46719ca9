----------------------------- MODULE MediaPacks -----------------------------
(***************************************************************************)
(* The signed catalogue of the optional media packs.  For each pack a      *)
(* manifest is derived from the lock and the runtime manifest              *)
(* (scripts/media-pack-v2.mjs), a statement binds manifest, archive and    *)
(* source to be signed offline (media-pack-signing.mjs), and a catalogue   *)
(* lists the two packs with their signed statements (media-pack-           *)
(* catalog.mjs), to be signed and then verified.  Every step reads files   *)
(* that may change before the next one; a file's content stands for its    *)
(* digest and its size.                                                    *)
(***************************************************************************)
EXTENDS Naturals, FiniteSets

CONSTANTS
  Locks,           \* contents of the lock: components of each pack
  RuntimeFacts,    \* contents of the runtime manifest: components of both packs
  PackBytes,       \* contents of an archive and of a source asset
  PlanExpiries, MaxValidity,
  MaxClock, MaxPackRuns, MaxPackEdits,   \* bounds: time, commands, edits of files
  NoPackFile

PackIds == {"preview", "transcode"}
NextPack(p) == IF p = "preview" THEN "transcode" ELSE "none"

VARIABLES
  packFiles,       \* the files: lock, runtime, and per pack manifest, archive, source, statement
  packPlan,        \* the catalogue's plan: expiry and a signature per pack
  signedStatements, signedCatalogs,      \* what the owner's key has signed
  catalogFile, packing, packClock, packRuns, packEdits,
  calm             \* no file changed since the catalogue command began

packsVars == <<packFiles, packPlan, signedStatements, signedCatalogs, catalogFile, packing,
               packClock, packRuns, packEdits, calm>>
packOwner == <<packPlan, signedStatements, signedCatalogs>>
packWorld == <<packClock, packEdits, calm>>

----------------------------------------------------------------------------
Manifest(p, digest, components) == [pack |-> p, lock |-> digest, components |-> components]
FitsLock(m, p, lock, digest) == m = Manifest(p, digest, lock[p])
Statement(m, archive, source) == [pack |-> m.pack, manifest |-> m, archive |-> archive, source |-> source]

(* A runtime manifest is taken only if it has what the lock fixes.          *)
RuntimeFits(runtime, lock) == \A p \in PackIds : runtime[p] = lock[p]

PackFile(kind, p) == packFiles[kind][p]
PackIdle == [pc |-> "idle", pack |-> "none", todo |-> {}, now |-> 0, got |-> NoPackFile,
             listed |-> [p \in PackIds |-> NoPackFile], verdict |-> NoPackFile]
NothingRead == [k \in {"lock", "runtime", "digest", "manifest", "archive", "source", "statement", "again"} |-> NoPackFile]

InLife(expiry, now) == expiry > now /\ expiry <= now + MaxValidity

PacksInit ==
  \E lock \in Locks, bytes \in PackBytes, ready \in SUBSET PackIds, expiry \in PlanExpiries :
    LET manifest(p) == Manifest(p, lock, lock[p])
        statement(p) == Statement(manifest(p), bytes, bytes)
    IN /\ packFiles = [lock |-> lock, runtime |-> lock,
            manifest |-> [p \in PackIds |-> IF p \in ready THEN manifest(p) ELSE NoPackFile],
            archive |-> [p \in PackIds |-> bytes], source |-> [p \in PackIds |-> bytes],
            statement |-> [p \in PackIds |-> IF p \in ready THEN statement(p) ELSE NoPackFile]]
       /\ signedStatements = {statement(p) : p \in ready} /\ signedCatalogs = {}
       /\ packPlan = [expiry |-> expiry, signature |-> [p \in PackIds |-> IF p \in ready THEN statement(p) ELSE NoPackFile]]
       /\ catalogFile = NoPackFile /\ packing = PackIdle
       /\ packClock = 0 /\ packRuns = 0 /\ packEdits = 0 /\ calm = TRUE

PackAt(pc) == packing.pc = pc
StartPacking(command) == PackAt("idle") /\ packRuns < MaxPackRuns /\ packRuns' = packRuns + 1 /\ packing' = command
PackStep(command) == packing' = command /\ UNCHANGED packRuns
PackFails == PackStep(PackIdle)
Got(field, value) == [packing EXCEPT !.todo = @ \ {field}, !.got[field] = value]

(* The manifest of a pack: the lock is parsed, the runtime manifest is      *)
(* compared with it, and its bytes are hashed, each from a read of its own, *)
(* in any order.                                                            *)
BeginManifest(p) ==
  /\ packFiles.manifest[p] = NoPackFile
  /\ StartPacking([PackIdle EXCEPT !.pc = "manifest", !.pack = p, !.todo = {"lock", "runtime", "digest"}, !.got = NothingRead])
  /\ UNCHANGED <<packFiles, packOwner, catalogFile, packWorld>>
ReadForManifest ==
  /\ PackAt("manifest")
  /\ \/ "lock" \in packing.todo /\ PackStep(Got("lock", packFiles.lock))
     \/ "digest" \in packing.todo /\ PackStep(Got("digest", packFiles.lock))
     \/ /\ "runtime" \in packing.todo
        /\ IF RuntimeFits(packFiles.runtime, packFiles.lock) THEN PackStep(Got("runtime", packFiles.runtime)) ELSE PackFails
  /\ UNCHANGED <<packFiles, packOwner, catalogFile, packWorld>>
WriteManifest ==
  /\ PackAt("manifest") /\ packing.todo = {}
  /\ LET p == packing.pack IN
       packFiles' = IF packFiles.manifest[p] # NoPackFile THEN packFiles
         ELSE [packFiles EXCEPT !.manifest[p] = Manifest(p, packing.got.digest, packing.got.runtime[p])]
  /\ PackFails /\ UNCHANGED <<packOwner, catalogFile, packWorld>>

(* The statement to sign: three files read in any order, none checked       *)
(* against the lock.  An existing statement is never overwritten.           *)
BeginStatement(p) ==
  /\ packFiles.statement[p] = NoPackFile
  /\ StartPacking([PackIdle EXCEPT !.pc = "statement", !.pack = p, !.todo = {"manifest", "archive", "source"}, !.got = NothingRead])
  /\ UNCHANGED <<packFiles, packOwner, catalogFile, packWorld>>
ReadForStatement ==
  /\ PackAt("statement")
  /\ \E kind \in packing.todo :
       IF PackFile(kind, packing.pack) = NoPackFile THEN PackFails
       ELSE PackStep(Got(kind, PackFile(kind, packing.pack)))
  /\ UNCHANGED <<packFiles, packOwner, catalogFile, packWorld>>
WriteStatement ==
  /\ PackAt("statement") /\ packing.todo = {}
  /\ LET p == packing.pack IN
       packFiles' = IF packFiles.statement[p] # NoPackFile THEN packFiles
         ELSE [packFiles EXCEPT !.statement[p] = Statement(packing.got.manifest, packing.got.archive, packing.got.source)]
  /\ PackFails /\ UNCHANGED <<packOwner, catalogFile, packWorld>>

(* Offline: the owner signs a statement and puts the signature in the plan. *)
SignStatement(p) ==
  /\ PackAt("idle") /\ packFiles.statement[p] # NoPackFile /\ packFiles.statement[p] \notin signedStatements
  /\ signedStatements' = signedStatements \union {packFiles.statement[p]}
  /\ packPlan' = [packPlan EXCEPT !.signature[p] = packFiles.statement[p]]
  /\ UNCHANGED <<packFiles, signedCatalogs, catalogFile, packing, packRuns, packWorld>>

(* The catalogue, pack by pack: the four assets are hashed one after the    *)
(* other, the manifest is read again and compared with the lock, the        *)
(* statement is read again, verified, and compared with what was hashed.    *)
BeginCatalog ==
  /\ catalogFile = NoPackFile /\ InLife(packPlan.expiry, packClock)
  /\ StartPacking([PackIdle EXCEPT !.pc = "hash", !.pack = "preview", !.todo = {"archive", "manifest", "statement", "source"},
                     !.got = NothingRead, !.now = packClock])
  /\ calm' = TRUE
  /\ UNCHANGED <<packFiles, packOwner, catalogFile, packClock, packEdits>>
HashOrder == [k \in {"archive", "manifest", "statement", "source"} |->
                CASE k = "archive" -> 1 [] k = "manifest" -> 2 [] k = "statement" -> 3 [] k = "source" -> 4]
HashAsset ==
  /\ PackAt("hash")
  /\ \E kind \in packing.todo :
       /\ \A other \in packing.todo : HashOrder[kind] <= HashOrder[other]
       /\ IF PackFile(kind, packing.pack) = NoPackFile THEN PackFails
          ELSE PackStep([Got(kind, PackFile(kind, packing.pack)) EXCEPT !.pc = IF packing.todo = {kind} THEN "validate" ELSE "hash",
                                    !.todo = IF @ = {} THEN {"lock", "digest", "again"} ELSE @])
  /\ UNCHANGED <<packFiles, packOwner, catalogFile, packWorld>>
ReadForValidation ==
  /\ PackAt("validate")
  /\ \E kind \in packing.todo :
       LET value == IF kind = "again" THEN packFiles.manifest[packing.pack] ELSE packFiles.lock
       IN IF value = NoPackFile THEN PackFails ELSE PackStep(Got(kind, value))
  /\ UNCHANGED <<packFiles, packOwner, catalogFile, packWorld>>
ValidateListed ==
  /\ PackAt("validate") /\ packing.todo = {}
  /\ IF FitsLock(packing.got.again, packing.pack, packing.got.lock, packing.got.digest)
     THEN PackStep([packing EXCEPT !.pc = "verify"]) ELSE PackFails
  /\ UNCHANGED <<packFiles, packOwner, catalogFile, packWorld>>
(* Faulty variant: the archive is not compared.                             *)
StatementFitsLoose(s, p, got) == s.pack = p /\ s.manifest = got.manifest /\ s.source = got.source
StatementFits(s, p, got) ==
  /\ s.pack = p /\ s.manifest = got.manifest
  /\ s.archive = got.archive /\ s.source = got.source
StatementVerifies(s, signature) == s # NoPackFile /\ s \in signedStatements /\ s = signature
VerifyListed ==
  /\ PackAt("verify")
  /\ LET p == packing.pack
         s == packFiles.statement[p]
     IN IF StatementVerifies(s, packPlan.signature[p]) /\ StatementFits(s, p, packing.got)
        THEN PackStep(LET listed == [packing EXCEPT !.listed[p] = [k \in DOMAIN HashOrder |-> packing.got[k]]] IN
               IF NextPack(p) = "none" THEN [listed EXCEPT !.pc = "write"]
               ELSE [listed EXCEPT !.pc = "hash", !.pack = NextPack(p), !.todo = DOMAIN HashOrder, !.got = NothingRead])
        ELSE PackFails
  /\ UNCHANGED <<packFiles, packOwner, catalogFile, packWorld>>
WritePackCatalog ==
  /\ PackAt("write")
  /\ catalogFile' = IF catalogFile = NoPackFile /\ InLife(packPlan.expiry, packClock)
                    THEN [expiry |-> packPlan.expiry, packs |-> packing.listed, lock |-> packFiles.lock, calm |-> calm]
                    ELSE catalogFile
  /\ PackFails /\ UNCHANGED <<packFiles, packOwner, packWorld>>

(* The owner signs what the command wrote; anyone verifies what is there.   *)
SignCatalog ==
  /\ PackAt("idle") /\ catalogFile # NoPackFile /\ signedCatalogs = {}
  /\ signedCatalogs' = {catalogFile}
  /\ UNCHANGED <<packFiles, packPlan, signedStatements, catalogFile, packing, packRuns, packWorld>>
VerifyCatalog ==
  /\ catalogFile # NoPackFile
  /\ StartPacking([PackIdle EXCEPT !.pc = "verified", !.now = packClock,
       !.verdict = IF InLife(catalogFile.expiry, packClock) /\ catalogFile \in signedCatalogs THEN catalogFile ELSE NoPackFile])
  /\ UNCHANGED <<packFiles, packOwner, catalogFile, packWorld>>
EndVerify == PackAt("verified") /\ PackFails /\ UNCHANGED <<packFiles, packOwner, catalogFile, packWorld>>

----------------------------------------------------------------------------
(* What happens beside: a new lock or runtime manifest, a rebuilt archive   *)
(* or source, a file removed, a catalogue changed once it is signed.        *)
PackEdit(files) ==
  /\ packEdits < MaxPackEdits /\ packEdits' = packEdits + 1 /\ calm' = FALSE
  /\ packFiles' = files /\ files # packFiles
  /\ UNCHANGED <<packOwner, catalogFile, packing, packClock, packRuns>>
PackFilesChange ==
  \/ \E lock \in Locks : PackEdit([packFiles EXCEPT !.lock = lock])
  \/ \E runtime \in RuntimeFacts : PackEdit([packFiles EXCEPT !.runtime = runtime])
  \/ \E p \in PackIds, bytes \in PackBytes : PackEdit([packFiles EXCEPT !.archive[p] = bytes])
  \/ \E p \in PackIds, bytes \in PackBytes : PackEdit([packFiles EXCEPT !.source[p] = bytes])
  \/ \E p \in PackIds : PackEdit([packFiles EXCEPT !.statement[p] = NoPackFile])
  \/ \E p \in PackIds : PackEdit([packFiles EXCEPT !.manifest[p] = NoPackFile])
CatalogTampered ==
  /\ packEdits < MaxPackEdits /\ packEdits' = packEdits + 1
  /\ catalogFile # NoPackFile /\ signedCatalogs # {}
  /\ \E p \in PackIds, kind \in {"archive", "source"}, bytes \in PackBytes :
       catalogFile' = [catalogFile EXCEPT !.packs[p][kind] = bytes]
  /\ UNCHANGED <<packFiles, packOwner, packing, packClock, packRuns, calm>>
PackTimePasses ==
  /\ packClock < MaxClock /\ packClock' = packClock + 1
  /\ UNCHANGED <<packFiles, packOwner, catalogFile, packing, packRuns, packEdits, calm>>

PacksNext ==
  \/ \E p \in PackIds : BeginManifest(p) \/ BeginStatement(p) \/ SignStatement(p)
  \/ ReadForManifest \/ WriteManifest \/ ReadForStatement \/ WriteStatement
  \/ BeginCatalog \/ HashAsset \/ ReadForValidation \/ ValidateListed \/ VerifyListed \/ WritePackCatalog
  \/ SignCatalog \/ VerifyCatalog \/ EndVerify
  \/ PackFilesChange \/ CatalogTampered \/ PackTimePasses

PacksSpec == PacksInit /\ [][PacksNext]_packsVars

----------------------------------------------------------------------------
(* A catalogue that verifies is alive and lists, for each pack, the bytes   *)
(* some statement of that pack signed by the owner binds; if no file        *)
(* changed while it was built, that statement is the one listed and the     *)
(* manifest is the lock's.                                                  *)
PacksBound ==
  packing.verdict # NoPackFile =>
    LET c == packing.verdict IN
    /\ c.expiry > packing.now
    /\ \A p \in PackIds :
         LET listed == c.packs[p] IN
         /\ \E s \in signedStatements : /\ s.pack = p /\ s.manifest = listed.manifest
                                        /\ s.archive = listed.archive /\ s.source = listed.source
         /\ c.calm => /\ listed.statement \in signedStatements
                      /\ listed.statement.archive = listed.archive /\ listed.statement.source = listed.source
                      /\ FitsLock(listed.manifest, p, c.lock, c.lock)
=============================================================================
