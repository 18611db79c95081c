---------------------------- MODULE WritesProofs ----------------------------
(***************************************************************************)
(* Machine-checked proofs about Writes and the Backups it composes, for    *)
(* any migration files, scripts, retention period and number of backups,   *)
(* kills, failing writes and edits of the directory.                       *)
(***************************************************************************)
EXTENDS Writes, TLAPS

-----------------------------------------------------------------------------
(* Files and rows *)

\* A file appended to the list leaves the others alone.
LEMMA AddFile ==
  ASSUME NEW S, NEW q \in Seq(S), NEW r \in S
  PROVE  /\ Append(q, r) \in Seq(S)
         /\ DOMAIN Append(q, r) = DOMAIN q \cup {Len(q) + 1}
         /\ Append(q, r)[Len(q) + 1] = r
         /\ \A i \in DOMAIN q : Append(q, r)[i] = q[i] /\ i < Len(q) + 1
<1>1. /\ Append(q, r) \in Seq(S) /\ Len(q) \in Nat /\ DOMAIN q = 1..Len(q)
      /\ Len(Append(q, r)) = Len(q) + 1
  OBVIOUS
<1>2. DOMAIN Append(q, r) = DOMAIN q \cup {Len(q) + 1}
  BY <1>1
<1>3. Append(q, r)[Len(q) + 1] = r
  OBVIOUS
<1>4. ASSUME NEW i \in DOMAIN q PROVE Append(q, r)[i] = q[i] /\ i < Len(q) + 1
  BY <1>1
<1> QED
  BY <1>1, <1>2, <1>3, <1>4

\* So does a file that is replaced in it.
LEMMA SetFile ==
  ASSUME NEW S, NEW q \in Seq(S), NEW i \in DOMAIN q, NEW r \in S
  PROVE  /\ [q EXCEPT ![i] = r] \in Seq(S)
         /\ DOMAIN [q EXCEPT ![i] = r] = DOMAIN q
         /\ [q EXCEPT ![i] = r][i] = r
         /\ \A j \in DOMAIN q : j # i => [q EXCEPT ![i] = r][j] = q[j]
OBVIOUS

\* The list of files and its records.
LEMMA FileTypes ==
  ASSUME BackupsTypeOK
  PROVE  /\ DOMAIN files = 1..Len(files) /\ Len(files) \in Nat
         /\ \A f \in DOMAIN files : files[f] \in FileRec
BY DEF BackupsTypeOK

\* What a step that leaves files, rows and clock alone keeps.
LEMMA CalmKeeps ==
  ASSUME CatalogInv, UNCHANGED <<day, files, catalog, stored, rows>>
  PROVE  CatalogInv'
<1>1. BornInTime' /\ RowsFit' /\ RowsDiffer'
  BY DEF CatalogInv, BornInTime, RowsFit, RowFits, RowsDiffer
<1>2. Chained' /\ YoungIsKept'
  BY DEF CatalogInv, Chained, HasBase, YoungIsKept
<1> QED
  BY <1>1, <1>2 DEF CatalogInv

\* The job is over, or goes on at another step.
LEMMA JobMoves ==
  ASSUME BackupsTypeOK
  PROVE  /\ NoJob \in JobRec /\ NoJob.op = "none"
         /\ \A pc \in JobPcs : /\ [job EXCEPT !.pc = pc] \in JobRec
                               /\ [job EXCEPT !.pc = pc].pc = pc
                               /\ [job EXCEPT !.pc = pc].op = job.op
                               /\ [job EXCEPT !.pc = pc].file = job.file
                               /\ [job EXCEPT !.pc = pc].plan = job.plan
<1>1. NoJob \in JobRec /\ NoJob.op = "none"
  BY DEF NoJob, JobRec, JobOps, JobPcs
<1> QED
  BY <1>1 DEF BackupsTypeOK, JobRec

\* A step outside retention that changes neither files nor rows keeps GoneFits.
LEMMA GoneKeeps ==
  ASSUME GoneFits, faults \in Nat, faults' \in {faults, faults + 1},
         UNCHANGED <<files, catalog>>,
         job' = job \/ ~(job.op = "retention" /\ job.pc = "drop")
  PROVE  GoneFits'
<1>1. faults' = 0 => faults = 0
  OBVIOUS
<1>2. CASE job' = job
  BY <1>1, <1>2 DEF GoneFits, OldestOf
<1>3. CASE ~(job.op = "retention" /\ job.pc = "drop")
  BY <1>1, <1>3 DEF GoneFits
<1> QED
  BY <1>2, <1>3
-----------------------------------------------------------------------------
(* The steps of Backups *)

\* A new backup file is partial, the job's own, and stands above every other.
LEMMA NewFileKeeps ==
  ASSUME BackupsInv, NEW kind \in Kinds, NEW level \in Nat, NewFile(kind, level),
         NEW op \in {"backup", "nbackup"}, Idle, Start(op, "run", Len(files) + 1, {}),
         kind = "nbk" /\ level > 0 =>
           \E b \in DOMAIN files : /\ files[b].kind = "nbk" /\ files[b].what = "good"
                                   /\ files[b].level = level - 1,
         UNCHANGED <<day, catalog, stored, rows, copy, nightly, faults>>
  PROVE  BackupsInv'
<1> DEFINE n == Len(files) + 1
           r == [kind |-> kind, level |-> level, born |-> day,
                 what |-> "partial", tests |-> 0]
<1>0. BackupsTypeOK /\ CatalogInv /\ JobFits /\ GoneFits
  BY DEF BackupsInv
<1>1. r \in FileRec
  BY <1>0 DEF BackupsTypeOK, FileRec
<1>2. /\ files' \in Seq(FileRec) /\ DOMAIN files' = DOMAIN files \cup {n}
      /\ files'[n] = r /\ n \in Nat
      /\ \A f \in DOMAIN files : files'[f] = files[f] /\ f < n
  BY <1>0, <1>1, AddFile, FileTypes DEF NewFile, BackupsTypeOK
<1> HIDE DEF n
<1>3. r.kind = kind /\ r.level = level /\ r.born = day /\ r.what = "partial"
  OBVIOUS
<1> HIDE DEF r
<1>4. /\ job'.op = op /\ job'.pc = "run" /\ job'.file = n
      /\ job' \in JobRec
  <2>1. job' = [op |-> op, pc |-> "run", file |-> n, plan |-> {}]
    BY DEF Start, n
  <2>2. op \in JobOps /\ "run" \in JobPcs /\ {} \in SUBSET Row
    BY DEF JobOps, JobPcs
  <2> QED
    BY <1>2, <2>1, <2>2 DEF JobRec
<1>5. BackupsTypeOK'
  BY <1>0, <1>2, <1>4 DEF BackupsTypeOK
<1>6. BornInTime'
  BY <1>0, <1>2, <1>3 DEF BornInTime, CatalogInv, BackupsTypeOK
<1>7. RowsFit'
  BY <1>0, <1>2 DEF RowsFit, RowFits, CatalogInv
<1>8. RowsDiffer'
  BY <1>0, <1>2 DEF RowsDiffer, RowsFit, RowFits, CatalogInv
<1>9. Chained'
  <2> SUFFICES ASSUME NEW f \in DOMAIN files', files'[f].kind = "nbk"
               PROVE  files'[f].what # "gone" /\ (files'[f].level > 0 => HasBase(f)')
    BY DEF Chained
  <2>1. ASSUME NEW b \in DOMAIN files, files[b].kind = "nbk", files[b].what = "good",
               files[b].level = files'[f].level - 1, b < f
        PROVE  HasBase(f)'
    BY <1>2, <2>1 DEF HasBase
  <2>2. CASE f \in DOMAIN files
    BY <1>0, <1>2, <2>1, <2>2 DEF CatalogInv, Chained, HasBase
  <2>3. CASE f = n
    BY <1>2, <1>3, <2>1, <2>3
  <2> QED
    BY <1>2, <2>2, <2>3
<1>10. YoungIsKept'
  BY <1>0, <1>2, <1>3 DEF YoungIsKept, CatalogInv
<1>11. JobFits'
  BY <1>2, <1>4 DEF JobFits
<1>12. GoneFits'
  BY <1>0, <1>2 DEF GoneFits, Idle, CatalogInv, RowsFit, RowFits
<1> QED
  BY <1>5, <1>6, <1>7, <1>8, <1>9, <1>10, <1>11, <1>12 DEF BackupsInv, CatalogInv

LEMMA BackupBeginKeeps == ASSUME BackupsInv, BackupBegin PROVE BackupsInv'
BY NewFileKeeps DEF BackupBegin, Kinds

\* An nbackup is refused without a cataloged base, and a cataloged nbackup is there.
LEMMA NBackupBeginKeeps ==
  ASSUME BackupsInv, NEW l \in 0..2, NBackupBegin(l) PROVE BackupsInv'
<1>1. l > 0 => \E b \in DOMAIN files : /\ files[b].kind = "nbk" /\ files[b].what = "good"
                                       /\ files[b].level = l - 1
  <2> SUFFICES ASSUME l > 0
               PROVE  \E b \in DOMAIN files : /\ files[b].kind = "nbk" /\ files[b].what = "good"
                                              /\ files[b].level = l - 1
    OBVIOUS
  <2>1. PICK e \in catalog : files[e.file].kind = "nbk" /\ files[e.file].level = l - 1
    BY DEF NBackupBegin, LatestNBackup
  <2>2. e.file \in DOMAIN files /\ files[e.file].what # "partial"
    BY DEF BackupsInv, CatalogInv, RowsFit, RowFits
  <2>3. files[e.file].what # "gone"
    BY <2>1, <2>2 DEF BackupsInv, CatalogInv, Chained
  <2>4. files[e.file].what \in {"partial", "good", "gone"}
    BY <2>2, FileTypes DEF BackupsInv, FileRec
  <2> QED
    BY <2>1, <2>2, <2>3, <2>4
<1>2. l \in Nat /\ "nbk" \in Kinds /\ "nbackup" \in {"backup", "nbackup"}
  BY DEF Kinds
<1> QED
  BY <1>1, <1>2, NewFileKeeps DEF NBackupBegin

\* The job is over and neither files nor rows have changed.
LEMMA EndKeeps ==
  ASSUME BackupsInv, job' = NoJob, ~(job.op = "retention" /\ job.pc = "drop"),
         UNCHANGED <<day, files, catalog, stored, rows>>,
         copy' \in Nat, nightly' \in 0..3, faults' \in {faults, faults + 1}
  PROVE  BackupsInv'
<1>0. BackupsTypeOK /\ CatalogInv /\ GoneFits
  BY DEF BackupsInv
<1>1. BackupsTypeOK'
  BY <1>0, JobMoves DEF BackupsTypeOK
<1>2. CatalogInv' /\ GoneFits'
  BY <1>0, CalmKeeps, GoneKeeps DEF BackupsTypeOK
<1>3. JobFits'
  BY <1>0, JobMoves DEF JobFits
<1> QED
  BY <1>1, <1>2, <1>3 DEF BackupsInv

\* The Services API call returns: the file is complete, or the job is over.
LEMMA BackupReturnsKeeps == ASSUME BackupsInv, BackupReturns PROVE BackupsInv'
<1>0. /\ BackupsTypeOK /\ CatalogInv /\ JobFits /\ GoneFits
      /\ job.op \in {"backup", "nbackup"} /\ job.file \in DOMAIN files
  BY DEF BackupsInv, JobFits, BackupReturns
<1>1. CASE Fail /\ UNCHANGED files /\ faults' = faults + 1
  BY <1>0, <1>1, EndKeeps DEF Fail, BackupReturns, BackupsTypeOK
<1>2. CASE /\ files' = [files EXCEPT ![job.file].what = "good"]
           /\ To("register") /\ UNCHANGED <<nightly, faults>>
  <2> DEFINE n == job.file
             r == [files[n] EXCEPT !.what = "good"]
  <2>1. files[n] \in FileRec /\ r \in FileRec
    BY <1>0, FileTypes DEF FileRec
  <2>2. /\ r.kind = files[n].kind /\ r.level = files[n].level /\ r.born = files[n].born
        /\ r.tests = files[n].tests /\ r.what = "good"
    BY <2>1 DEF FileRec
  <2>3. /\ files' \in Seq(FileRec) /\ DOMAIN files' = DOMAIN files /\ n \in DOMAIN files
        /\ files'[n] = r /\ \A f \in DOMAIN files : f # n => files'[f] = files[f]
    BY <1>0, <1>2, <2>1, SetFile DEF BackupsTypeOK
  <2>4. job' \in JobRec /\ job'.op = job.op /\ job'.file = n
    BY <1>0, <1>2, JobMoves DEF To, JobPcs
  <2> HIDE DEF n, r
  <2>5. UNCHANGED <<day, catalog, stored, rows, copy>>
    BY DEF BackupReturns
  <2>6. BackupsTypeOK'
    BY <1>0, <1>2, <2>3, <2>4, <2>5 DEF BackupsTypeOK
  <2>7. \A f \in DOMAIN files :
          /\ files'[f].kind = files[f].kind /\ files'[f].level = files[f].level
          /\ files'[f].born = files[f].born /\ files'[f].tests = files[f].tests
          /\ files'[f].what = files[f].what \/ files'[f].what = "good"
    BY <2>2, <2>3
  <2>8. BornInTime' /\ YoungIsKept'
    BY <1>0, <2>3, <2>5, <2>7 DEF CatalogInv, BornInTime, YoungIsKept
  <2>12. RowsFit'
    BY <1>0, <2>3, <2>5, <2>7 DEF CatalogInv, RowsFit, RowFits
  <2>13. RowsDiffer'
    BY <1>0, <2>5, <2>7 DEF CatalogInv, RowsDiffer, RowsFit, RowFits
  <2>9. Chained'
    BY <1>0, <2>3, <2>7 DEF CatalogInv, Chained, HasBase
  <2>10. JobFits'
    BY <1>0, <2>2, <2>3, <2>4, <2>5 DEF JobFits, CatalogInv, BornInTime
  <2>11. GoneFits'
    BY <1>0, <1>2, <2>5, <2>7 DEF GoneFits, CatalogInv, RowsFit, RowFits
  <2> QED
    BY <2>6, <2>8, <2>9, <2>10, <2>11, <2>12, <2>13 DEF BackupsInv, CatalogInv
<1> QED
  BY <1>1, <1>2 DEF BackupReturns


\* A row is added for a file that is whole, a verified one with one test more.
LEMMA RegisterKeeps ==
  ASSUME BackupsInv, NEW v \in BOOLEAN, Register(job.file, v), job.pc = "register",
         job.op \in {"backup", "nbackup", "test"}, day' = day, copy' \in Nat,
         \/ ~v /\ files' = files
         \/ /\ v /\ job.op = "test"
            /\ files' = [files EXCEPT ![job.file].tests = @ + 1]
  PROVE  BackupsInv'
<1> DEFINE n == job.file
<1> PICK e : e = [id |-> rows + 1, file |-> n, at |-> day, verified |-> v]
  OBVIOUS
<1>0. /\ BackupsTypeOK /\ CatalogInv /\ JobFits /\ GoneFits
      /\ n \in DOMAIN files /\ files[n].what = "good" /\ files[n].born <= day
      /\ job.op = "test" => files[n].kind = "fbk"
  BY DEF BackupsInv, JobFits
<1>1. /\ files' \in Seq(FileRec) /\ DOMAIN files' = DOMAIN files
      /\ \A f \in DOMAIN files :
           /\ files'[f].kind = files[f].kind /\ files'[f].level = files[f].level
           /\ files'[f].born = files[f].born /\ files'[f].what = files[f].what
           /\ files'[f].tests \in Nat /\ files[f].tests \in Nat
           /\ files'[f].tests >= files[f].tests
           /\ f = n /\ v => files'[f].tests = files[f].tests + 1
  <2>1. CASE ~v /\ files' = files
    <3>1. \A f \in DOMAIN files : files[f].tests \in Nat
      BY <1>0, FileTypes DEF FileRec
    <3> QED
      BY <1>0, <2>1, <3>1 DEF BackupsTypeOK
  <2>2. CASE v /\ files' = [files EXCEPT ![n].tests = @ + 1]
    <3> DEFINE r == [files[n] EXCEPT !.tests = @ + 1]
    <3>0. files[n] \in FileRec
      BY <1>0, FileTypes
    <3>1. files[n] \in FileRec /\ r \in FileRec
      BY <3>0 DEF FileRec
    <3>2. /\ r.kind = files[n].kind /\ r.level = files[n].level /\ r.born = files[n].born
          /\ r.what = files[n].what /\ r.tests = files[n].tests + 1
      BY <3>1 DEF FileRec
    <3>3. /\ files' \in Seq(FileRec) /\ DOMAIN files' = DOMAIN files
          /\ files'[n] = r /\ \A f \in DOMAIN files : f # n => files'[f] = files[f]
      BY <1>0, <2>2, <3>1, SetFile DEF BackupsTypeOK
    <3>4. \A f \in DOMAIN files : files[f].tests \in Nat
      BY <1>0, FileTypes DEF FileRec
    <3> HIDE DEF r, n
    <3> QED
      BY <3>2, <3>3, <3>4
  <2> QED
    BY <2>1, <2>2
<1>2. /\ e \in Row /\ e.id = rows + 1 /\ e.file = n /\ e.at = day /\ e.verified = v
  BY <1>0, FileTypes DEF Row, BackupsTypeOK
<1>3. /\ rows' = rows + 1 /\ catalog' = catalog \cup {e} /\ stored' \in {stored, catalog'}
      /\ job' = NoJob /\ faults' \in {faults, faults + 1} /\ nightly' \in 0..3
  BY <1>0 DEF Register, Done, Fail, BackupsTypeOK
<1> HIDE DEF n
<1>4. BackupsTypeOK'
  BY <1>0, <1>1, <1>2, <1>3, JobMoves DEF BackupsTypeOK
<1>5. BornInTime' /\ YoungIsKept'
  BY <1>0, <1>1 DEF CatalogInv, BornInTime, YoungIsKept
<1>6. RowFits(e)'
  <2>1. rows + 1 <= rows' /\ day <= day
    BY <1>0, <1>3 DEF BackupsTypeOK
  <2>2. v => files'[n].kind = "fbk" /\ files'[n].tests >= 1
    BY <1>0, <1>1
  <2> QED
    BY <1>0, <1>1, <1>2, <2>1, <2>2 DEF RowFits
<1>7. ASSUME NEW d \in catalog \cup stored
      PROVE  /\ RowFits(d)' /\ d.id < e.id
             /\ d.verified => files[d.file].tests >= 1
  <2>1. d \in Row /\ RowFits(d)
    BY <1>0, <1>7 DEF CatalogInv, RowsFit, BackupsTypeOK
  <2>2. d.id < e.id /\ d.id <= rows'
    <3>1. d.id \in Nat /\ rows \in Nat /\ d.id <= rows
      BY <1>0, <2>1 DEF Row, RowFits, BackupsTypeOK
    <3> QED
      BY <1>2, <1>3, <3>1
  <2>3. d.verified => files[d.file].tests >= 1 /\ files'[d.file].tests >= 1
    BY <1>1, <2>1 DEF RowFits
  <2> QED
    BY <1>1, <2>1, <2>2, <2>3 DEF RowFits
<1>8. catalog' \cup stored' \subseteq (catalog \cup stored) \cup {e}
  BY <1>3
<1>9. RowsFit'
  BY <1>6, <1>7, <1>8 DEF RowsFit
<1>10. RowsDiffer'
  <2> SUFFICES ASSUME NEW c \in catalog' \cup stored', NEW d \in catalog' \cup stored'
               PROVE  /\ c.id = d.id => c = d
                      /\ c # d /\ c.verified /\ d.verified /\ c.file = d.file =>
                           files'[c.file].tests >= 2
    BY DEF RowsDiffer
  <2>1. CASE c = e /\ d = e
    BY <2>1
  <2>2. CASE c \in catalog \cup stored /\ d \in catalog \cup stored
    <3>1. c.file \in DOMAIN files
      BY <1>0, <2>2 DEF CatalogInv, RowsFit, RowFits
    <3> QED
      BY <1>0, <1>1, <2>2, <3>1 DEF CatalogInv, RowsDiffer
  <2>3. ASSUME NEW x \in catalog \cup stored
        PROVE  /\ x.id # e.id
               /\ x.verified /\ e.verified /\ x.file = e.file => files'[n].tests >= 2
    <3>1. x.id \in Nat /\ e.id \in Nat
      BY <1>0, <1>2, <2>3 DEF BackupsTypeOK, Row
    <3> QED
      BY <1>0, <1>1, <1>2, <1>7, <2>3, <3>1
  <2> QED
    BY <1>2, <1>8, <2>1, <2>2, <2>3
<1>11. Chained'
  <2> SUFFICES ASSUME NEW f \in DOMAIN files, files[f].kind = "nbk"
               PROVE  files'[f].what # "gone" /\ (files'[f].level > 0 => HasBase(f)')
    BY <1>1 DEF Chained
  <2>1. files[f].what # "gone" /\ (files[f].level > 0 => HasBase(f))
    BY <1>0 DEF CatalogInv, Chained
  <2> QED
    BY <1>1, <2>1 DEF HasBase
<1>12. JobFits'
  BY <1>3, JobMoves, <1>0 DEF JobFits
<1>13. GoneFits'
  <2> SUFFICES ASSUME faults' = 0, NEW d \in catalog', d.verified, files'[d.file].what = "gone"
               PROVE  files'[d.file].tests > 1
    BY DEF GoneFits
  <2>1. d # e /\ d \in catalog
    BY <1>0, <1>1, <1>2, <1>3
  <2>2. faults = 0 /\ d.file \in DOMAIN files
    BY <1>0, <1>3, <2>1 DEF CatalogInv, RowsFit, RowFits, BackupsTypeOK
  <2>3. files[d.file].tests > 1
    BY <1>0, <1>1, <2>1, <2>2 DEF GoneFits
  <2> QED
    BY <1>1, <2>2, <2>3
<1> QED
  BY <1>4, <1>5, <1>9, <1>10, <1>11, <1>12, <1>13 DEF BackupsInv, CatalogInv

LEMMA BackupRegisterKeeps == ASSUME BackupsInv, BackupRegister PROVE BackupsInv'
<1>1. copy' \in Nat
  BY DEF BackupRegister, BackupsInv, BackupsTypeOK
<1> QED
  BY <1>1, RegisterKeeps DEF BackupRegister

LEMMA TestRegisterKeeps == ASSUME BackupsInv, TestRegister PROVE BackupsInv'
<1>1. copy' \in Nat
  BY DEF TestRegister, BackupsInv, BackupsTypeOK
<1> QED
  BY <1>1, RegisterKeeps DEF TestRegister


\* The test takes the newest file there is; only its own copy is touched.
LEMMA TestBeginKeeps == ASSUME BackupsInv, TestBegin PROVE BackupsInv'
<1>0. /\ BackupsTypeOK /\ CatalogInv /\ GoneFits /\ job.op = "none"
      /\ UNCHANGED <<day, files, catalog, stored, rows, faults>>
  BY DEF BackupsInv, TestBegin, Idle
<1>1. CASE Fail /\ UNCHANGED copy
  BY <1>0, <1>1, EndKeeps DEF Fail, BackupsTypeOK
<1>2. CASE \E f \in OnDisk : /\ Newest(f) /\ copy' = 0 /\ UNCHANGED nightly
                            /\ Start("test", "restore", f, {})
  <2>1. PICK f \in DOMAIN files : files[f].kind = "fbk" /\ Start("test", "restore", f, {})
    BY <1>2 DEF OnDisk
  <2>2. /\ f \in Nat /\ "test" \in JobOps /\ "restore" \in JobPcs /\ {} \in SUBSET Row
    BY <1>0, FileTypes DEF JobOps, JobPcs
  <2>3. job' \in JobRec /\ job'.op = "test" /\ job'.pc = "restore" /\ job'.file = f
    BY <2>1, <2>2 DEF Start, JobRec
  <2>4. BackupsTypeOK'
    BY <1>0, <1>2, <2>3 DEF BackupsTypeOK
  <2>5. CatalogInv' /\ GoneFits'
    BY <1>0, CalmKeeps, GoneKeeps DEF BackupsTypeOK
  <2>6. JobFits'
    BY <1>0, <2>1, <2>3 DEF JobFits
  <2> QED
    BY <2>4, <2>5, <2>6 DEF BackupsInv
<1> QED
  BY <1>1, <1>2 DEF TestBegin

\* Only a whole file gets to the step that registers it.
LEMMA TestRestoreKeeps == ASSUME BackupsInv, TestRestore PROVE BackupsInv'
<1>0. /\ BackupsTypeOK /\ CatalogInv /\ JobFits /\ GoneFits /\ job.op = "test"
      /\ copy' = day + 1 /\ UNCHANGED <<day, files, catalog, stored, rows>>
  BY DEF BackupsInv, TestRestore
<1>1. CASE Fail /\ faults' \in {faults, faults + 1}
  BY <1>0, <1>1, EndKeeps DEF Fail, BackupsTypeOK
<1>2. CASE files[job.file].what = "good" /\ To("register") /\ UNCHANGED <<nightly, faults>>
  <2>1. job' \in JobRec /\ job'.op = "test" /\ job'.file = job.file
    BY <1>0, <1>2, JobMoves DEF To, JobPcs
  <2>2. BackupsTypeOK'
    BY <1>0, <1>2, <2>1 DEF BackupsTypeOK
  <2>3. CatalogInv' /\ GoneFits'
    BY <1>0, <1>2, CalmKeeps, GoneKeeps DEF BackupsTypeOK
  <2>4. JobFits'
    BY <1>0, <1>2, <2>1 DEF JobFits, CatalogInv, BornInTime
  <2> QED
    BY <2>2, <2>3, <2>4 DEF BackupsInv
<1> QED
  BY <1>1, <1>2 DEF TestRestore

\* Steps that change the copy and the workflow record only.
LEMMA NightlyKeeps ==
  ASSUME BackupsInv, NightlyBegin \/ DiffSchema
  PROVE  BackupsInv'
<1>0. /\ BackupsTypeOK /\ CatalogInv /\ JobFits /\ GoneFits
      /\ UNCHANGED <<day, files, catalog, stored, rows, job>>
      /\ faults' \in {faults, faults + 1} /\ copy' \in Nat /\ nightly' \in 0..3
  BY DEF BackupsInv, NightlyBegin, DiffSchema, BackupsTypeOK
<1>1. BackupsTypeOK'
  BY <1>0 DEF BackupsTypeOK
<1>2. CatalogInv' /\ GoneFits'
  BY <1>0, CalmKeeps, GoneKeeps DEF BackupsTypeOK
<1>3. JobFits'
  BY <1>0 DEF JobFits
<1> QED
  BY <1>1, <1>2, <1>3 DEF BackupsInv

\* The clock goes on: nothing gets younger.
LEMMA TickKeeps == ASSUME BackupsInv, Tick PROVE BackupsInv'
<1>0. /\ BackupsTypeOK /\ CatalogInv /\ JobFits /\ GoneFits /\ day \in Nat /\ day' = day + 1
      /\ UNCHANGED <<files, catalog, stored, rows, job, faults, copy, nightly>>
      /\ KeepDays \in Nat
  BY BackupsAssumption DEF BackupsInv, Tick, BackupsTypeOK
<1>1. BackupsTypeOK'
  BY <1>0 DEF BackupsTypeOK
<1>2. \A f \in DOMAIN files : files[f].born \in Nat
  BY <1>0, FileTypes DEF FileRec
<1>3. \A e \in catalog \cup stored : e.at \in Nat
  BY <1>0 DEF BackupsTypeOK, Row
<1>4. BornInTime' /\ YoungIsKept'
  BY <1>0, <1>2 DEF CatalogInv, BornInTime, YoungIsKept
<1>5. RowsFit' /\ RowsDiffer'
  BY <1>0, <1>3 DEF CatalogInv, RowsFit, RowFits, RowsDiffer
<1>6. Chained'
  BY <1>0 DEF CatalogInv, Chained, HasBase
<1>7. JobFits'
  BY <1>0, <1>2, <1>3 DEF JobFits
<1>8. GoneFits'
  BY <1>0, GoneKeeps DEF BackupsTypeOK
<1> QED
  BY <1>1, <1>4, <1>5, <1>6, <1>7, <1>8 DEF BackupsInv, CatalogInv

\* A kill goes back to the rows of the state file.
LEMMA KillKeeps == ASSUME BackupsInv, Kill PROVE BackupsInv'
<1>0. /\ BackupsTypeOK /\ CatalogInv /\ JobFits /\ GoneFits /\ faults' = faults + 1
      /\ UNCHANGED <<day, files, stored, rows, copy, nightly>>
      /\ catalog' = stored /\ job' = NoJob
  BY DEF BackupsInv, Kill
<1>1. BackupsTypeOK'
  BY <1>0, JobMoves DEF BackupsTypeOK
<1>2. BornInTime' /\ YoungIsKept' /\ Chained'
  BY <1>0 DEF CatalogInv, BornInTime, YoungIsKept, Chained, HasBase
<1>3. RowsFit' /\ RowsDiffer'
  BY <1>0 DEF CatalogInv, RowsFit, RowFits, RowsDiffer
<1>4. JobFits' /\ GoneFits'
  BY <1>0, JobMoves DEF JobFits, GoneFits, BackupsTypeOK
<1> QED
  BY <1>1, <1>2, <1>3, <1>4 DEF BackupsInv, CatalogInv


\* The plan holds verified rows past the cut-off only.
LEMMA RetentionBeginKeeps == ASSUME BackupsInv, RetentionBegin PROVE BackupsInv'
<1>0. /\ BackupsTypeOK /\ CatalogInv /\ GoneFits /\ job.op = "none"
      /\ UNCHANGED <<day, files, catalog, stored, rows, copy, nightly, faults>>
      /\ KeepDays \in Nat
  BY BackupsAssumption DEF BackupsInv, RetentionBegin, Idle
<1>1. \A e \in Plan : e \in catalog /\ e.verified /\ KeepDays > 0 /\ e.at + KeepDays < day
  BY <1>0 DEF Plan
<1>2. job' \in JobRec /\ job'.op = "retention" /\ job'.plan = Plan
  <2>1. Plan \in SUBSET Row
    BY <1>0, <1>1 DEF BackupsTypeOK
  <2>2. "retention" \in JobOps /\ "remove" \in JobPcs
    BY DEF JobOps, JobPcs
  <2>3. job' = [op |-> "retention", pc |-> "remove", file |-> 0, plan |-> Plan]
    BY DEF RetentionBegin, Start
  <2> QED
    BY <2>1, <2>2, <2>3 DEF JobRec
<1>3. BackupsTypeOK'
  BY <1>0, <1>2 DEF BackupsTypeOK
<1>4. CatalogInv' /\ GoneFits'
  BY <1>0, CalmKeeps, GoneKeeps DEF BackupsTypeOK
<1>5. JobFits'
  BY <1>0, <1>1, <1>2 DEF JobFits
<1> QED
  BY <1>3, <1>4, <1>5 DEF BackupsInv

\* The removal that works.
FileRemoved ==
  /\ job.op = "retention" /\ job.pc = "remove"
  /\ \E e \in job.plan : /\ OldestOf(e, job.plan)
                         /\ files' = [files EXCEPT ![e.file].what = "gone"]
  /\ To("drop")
  /\ UNCHANGED <<day, catalog, stored, rows, copy, nightly, faults>>


\* The file that goes is an old verified .fbk; another verified row of it means that
\* it has been tested twice.
LEMMA FileRemovedKeeps == ASSUME BackupsInv, FileRemoved PROVE BackupsInv'
<1>0. /\ BackupsTypeOK /\ CatalogInv /\ JobFits /\ GoneFits
      /\ job.op = "retention" /\ job.pc = "remove"
      /\ UNCHANGED <<day, catalog, stored, rows, copy, nightly, faults>>
  BY DEF BackupsInv, FileRemoved
<1>1. PICK e \in job.plan : /\ OldestOf(e, job.plan)
                           /\ files' = [files EXCEPT ![e.file].what = "gone"]
  BY DEF FileRemoved
<1>2. /\ e \in catalog /\ e \in Row /\ e.verified
      /\ KeepDays > 0 /\ e.at + KeepDays < day /\ RowFits(e)
  BY <1>0, <1>1 DEF JobFits, CatalogInv, RowsFit, BackupsTypeOK
<1> DEFINE n == e.file
           r == [files[n] EXCEPT !.what = "gone"]
<1>3. files[n] \in FileRec /\ r \in FileRec /\ n \in DOMAIN files
  BY <1>0, <1>2, FileTypes DEF FileRec, RowFits
<1>4. /\ r.kind = files[n].kind /\ r.level = files[n].level /\ r.born = files[n].born
      /\ r.tests = files[n].tests /\ r.what = "gone"
  BY <1>3 DEF FileRec
<1>5. /\ files' \in Seq(FileRec) /\ DOMAIN files' = DOMAIN files
      /\ files'[n] = r /\ \A f \in DOMAIN files : f # n => files'[f] = files[f]
  BY <1>0, <1>1, <1>3, SetFile DEF BackupsTypeOK
<1>6. /\ job' \in JobRec /\ job'.op = "retention" /\ job'.pc = "drop" /\ job'.plan = job.plan
  BY <1>0, JobMoves DEF FileRemoved, To, JobPcs
<1> HIDE DEF n, r
<1>7. \A f \in DOMAIN files :
        /\ files'[f].kind = files[f].kind /\ files'[f].level = files[f].level
        /\ files'[f].born = files[f].born /\ files'[f].tests = files[f].tests
        /\ f # n => files'[f].what = files[f].what
        /\ f = n => files'[f].what = "gone"
  BY <1>4, <1>5
<1>8. /\ files[n].kind = "fbk" /\ files[n].born + KeepDays < day /\ files[n].tests >= 1
  <2>1. files[n].kind = "fbk" /\ files[n].born <= e.at /\ files[n].tests >= 1
    BY <1>2 DEF RowFits, n
  <2>2. files[n].born \in Nat /\ e.at \in Nat /\ KeepDays \in Nat /\ day \in Nat
    BY <1>0, <1>2, <1>3, BackupsAssumption DEF FileRec, Row, BackupsTypeOK
  <2> QED
    BY <1>2, <2>1, <2>2
<1>9. BackupsTypeOK'
  BY <1>0, <1>5, <1>6 DEF BackupsTypeOK
<1>10. BornInTime' /\ YoungIsKept'
  BY <1>0, <1>2, <1>5, <1>7, <1>8 DEF CatalogInv, BornInTime, YoungIsKept
<1>11. RowsFit'
  BY <1>0, <1>5, <1>7 DEF CatalogInv, RowsFit, RowFits
<1>12. RowsDiffer'
  BY <1>0, <1>7 DEF CatalogInv, RowsDiffer, RowsFit, RowFits
<1>13. Chained'
  <2> SUFFICES ASSUME NEW f \in DOMAIN files, files[f].kind = "nbk"
               PROVE  files'[f].what # "gone" /\ (files'[f].level > 0 => HasBase(f)')
    BY <1>5, <1>7 DEF Chained
  <2>1. files[f].what # "gone" /\ (files[f].level > 0 => HasBase(f)) /\ f # n
    BY <1>0, <1>8 DEF CatalogInv, Chained
  <2> QED
    BY <1>5, <1>7, <1>8, <2>1 DEF HasBase
<1>14. JobFits'
  BY <1>0, <1>6 DEF JobFits
<1>15. GoneFits'
  <2> SUFFICES ASSUME faults' = 0, NEW d \in catalog, d.verified, files'[d.file].what = "gone",
                      d # e
               PROVE  files'[d.file].tests > 1
    BY <1>0, <1>1, <1>6 DEF GoneFits
  <2>1. d.file \in DOMAIN files /\ files[d.file].tests \in Nat
    BY <1>0, FileTypes DEF CatalogInv, RowsFit, RowFits, FileRec
  <2>2. CASE d.file = n
    <3>1. files[d.file].tests >= 2
      BY <1>0, <1>2, <2>2 DEF CatalogInv, RowsDiffer, n
    <3> QED
      BY <1>7, <2>1, <3>1
  <2>3. CASE d.file # n
    BY <1>0, <1>7, <2>1, <2>3 DEF GoneFits
  <2> QED
    BY <2>2, <2>3
<1> QED
  BY <1>9, <1>10, <1>11, <1>12, <1>13, <1>14, <1>15 DEF BackupsInv, CatalogInv

LEMMA RetentionRemoveKeeps == ASSUME BackupsInv, RetentionRemove PROVE BackupsInv'
<1>1. CASE UNCHANGED faults
  <2>1. faults \in Nat /\ ~(faults' = faults + 1)
    BY <1>1 DEF BackupsInv, BackupsTypeOK
  <2>2. FileRemoved
    BY <1>1, <2>1 DEF RetentionRemove, FileRemoved
  <2> QED
    BY <2>2, FileRemovedKeeps
<1>2. CASE faults' = faults + 1 /\ UNCHANGED files
  <2>0. /\ BackupsTypeOK /\ CatalogInv /\ JobFits /\ job.op = "retention"
        /\ UNCHANGED <<day, files, catalog, stored, rows, copy, nightly>>
    BY <1>2 DEF BackupsInv, RetentionRemove
  <2>1. job' \in JobRec /\ job'.op = "retention" /\ job'.plan = job.plan
    BY <2>0, JobMoves DEF RetentionRemove, To, JobPcs
  <2>2. BackupsTypeOK' /\ CatalogInv' /\ JobFits'
    BY <1>2, <2>0, <2>1, CalmKeeps DEF BackupsTypeOK, JobFits
  <2>3. GoneFits'
    BY <1>2, <2>0 DEF BackupsTypeOK, GoneFits
  <2> QED
    BY <2>2, <2>3 DEF BackupsInv
<1> QED
  BY <1>1, <1>2 DEF RetentionRemove

\* The row that goes is the one whose file has gone.
LEMMA RetentionDropKeeps == ASSUME BackupsInv, RetentionDrop PROVE BackupsInv'
<1>0. /\ BackupsTypeOK /\ CatalogInv /\ JobFits /\ GoneFits
      /\ job.op = "retention" /\ job.pc = "drop"
      /\ UNCHANGED <<day, files, rows, copy>>
  BY DEF BackupsInv, RetentionDrop
<1>1. PICK e \in job.plan :
        /\ OldestOf(e, job.plan) /\ catalog' = catalog \ {e}
        /\ \/ /\ stored' = catalog' /\ UNCHANGED <<faults, nightly>>
              /\ job' = [job EXCEPT !.pc = "remove", !.plan = @ \ {e}]
           \/ faults' = faults + 1 /\ Fail /\ UNCHANGED stored
  BY DEF RetentionDrop
<1>2. /\ catalog' \subseteq catalog /\ catalog' \cup stored' \subseteq catalog \cup stored
      /\ faults' \in {faults, faults + 1} /\ nightly' \in 0..3
  BY <1>0, <1>1 DEF Fail, BackupsTypeOK
<1>3. \/ job' = NoJob
      \/ /\ job' \in JobRec /\ job'.op = "retention" /\ job'.pc = "remove"
         /\ job'.plan = job.plan \ {e}
  <2>1. job.plan \ {e} \in SUBSET Row /\ "remove" \in JobPcs /\ job \in JobRec
    BY <1>0 DEF BackupsTypeOK, JobRec, JobPcs
  <2>2. [job EXCEPT !.pc = "remove", !.plan = @ \ {e}] \in JobRec
    BY <2>1 DEF JobRec
  <2> QED
    BY <1>0, <1>1, <2>1, <2>2 DEF Fail, JobRec
<1>4. BackupsTypeOK'
  BY <1>0, <1>2, <1>3, JobMoves DEF BackupsTypeOK
<1>5. BornInTime' /\ YoungIsKept' /\ Chained'
  BY <1>0 DEF CatalogInv, BornInTime, YoungIsKept, Chained, HasBase
<1>6. RowsFit' /\ RowsDiffer'
  BY <1>0, <1>2 DEF CatalogInv, RowsFit, RowFits, RowsDiffer
<1>7. JobFits'
  BY <1>0, <1>1, <1>3, JobMoves DEF JobFits
<1>8. GoneFits'
  <2> SUFFICES ASSUME faults' = 0, NEW d \in catalog', d.verified, files[d.file].what = "gone"
               PROVE  files[d.file].tests > 1
    BY <1>0 DEF GoneFits
  <2>1. faults = 0 /\ d \in catalog /\ d # e
    BY <1>0, <1>1, <1>2 DEF BackupsTypeOK
  <2>2. SUFFICES ASSUME d \in job.plan, OldestOf(d, job.plan) PROVE FALSE
    BY <1>0, <2>1 DEF GoneFits
  <2>3. d.id = e.id
    <3>1. d.id \in Nat /\ e.id \in Nat
      BY <1>0, <1>1, <2>2 DEF BackupsTypeOK, JobRec, Row
    <3> QED
      BY <1>1, <2>2, <3>1 DEF OldestOf
  <2> QED
    BY <1>0, <1>1, <2>1, <2>3 DEF CatalogInv, RowsDiffer, JobFits
<1> QED
  BY <1>4, <1>5, <1>6, <1>7, <1>8 DEF BackupsInv, CatalogInv

LEMMA RetentionEndKeeps == ASSUME BackupsInv, RetentionEnd PROVE BackupsInv'
<1>1. copy' \in Nat /\ nightly' \in 0..3 /\ faults' \in {faults, faults + 1}
  BY DEF RetentionEnd, BackupsInv, BackupsTypeOK
<1> QED
  BY <1>1, EndKeeps DEF RetentionEnd

LEMMA BackupStepKeeps == ASSUME BackupsInv, BackupStep PROVE BackupsInv'
BY BackupBeginKeeps, NBackupBeginKeeps, BackupReturnsKeeps, BackupRegisterKeeps,
   TestBeginKeeps, TestRestoreKeeps, TestRegisterKeeps, NightlyKeeps, RetentionBeginKeeps,
   RetentionRemoveKeeps, RetentionDropKeeps, RetentionEndKeeps DEF BackupStep


-----------------------------------------------------------------------------
(* Migration files *)

\* A file of some directory: its statements, and the checksum that fixes them.
LEMMA FileFacts ==
  ASSUME NEW f \in AllFiles
  PROVE  /\ f.v \in Nat /\ f.v > 0 /\ f.stmts \in Seq({"ddl", "dml"})
         /\ <<f.v, f.sum>> \in AllPairs
         /\ \A k \in DOMAIN f.stmts : <<f.v, f.sum, k>> \in AllStmts
         /\ \A s \in AllStmts : s[1] = f.v /\ s[2] = f.sum =>
              s[3] \in DOMAIN f.stmts /\ s = <<f.v, f.sum, s[3]>>
<1>0. PICK c \in Dirs : \E v \in DOMAIN c : f = FileAt(c, v)
  BY DEF AllFiles
<1>1. PICK v \in DOMAIN c : f = FileAt(c, v)
  BY <1>0
<1>2. f.v = v /\ f.sum = c[v].sum /\ f.stmts = c[v].stmts
  BY <1>1 DEF FileAt
<1>3. v \in Nat /\ v > 0 /\ c[v].stmts \in Seq({"ddl", "dml"})
  BY <1>1, WritesAssumption
<1>4. ASSUME NEW k \in DOMAIN f.stmts PROVE <<f.v, f.sum, k>> \in AllStmts
  <2>1. <<v, c[v].sum, k>> \in Stmts(c)
    BY <1>1, <1>2 DEF Stmts
  <2> QED
    BY <1>1, <1>2, <2>1 DEF AllStmts
<1>5. ASSUME NEW s \in AllStmts, s[1] = f.v, s[2] = f.sum
      PROVE  s[3] \in DOMAIN f.stmts /\ s = <<f.v, f.sum, s[3]>>
  <2>1. PICK d \in Dirs : s \in Stmts(d)
    BY <1>5 DEF AllStmts
  <2>2. PICK w \in DOMAIN d : \E k \in DOMAIN d[w].stmts : s = <<w, d[w].sum, k>>
    BY <2>1 DEF Stmts
  <2>3. w = v /\ d[w].sum = c[v].sum /\ s[3] \in DOMAIN d[w].stmts /\ s = <<f.v, f.sum, s[3]>>
    BY <1>2, <1>5, <2>2
  <2>4. d[w].stmts = c[v].stmts
    BY <1>1, <2>1, <2>2, <2>3, WritesAssumption
  <2> QED
    BY <1>2, <2>2, <2>3, <2>4
<1> QED
  BY <1>2, <1>3, <1>4, <1>5 DEF AllPairs

LEMMA PairFacts ==
  ASSUME NEW r \in AllPairs \cup {<<0, "">>}
  PROVE  r[1] \in Nat
<1>1. CASE r = <<0, "">>
  BY <1>1
<1>2. CASE r \in AllPairs
  <2>1. PICK f \in AllFiles : r = <<f.v, f.sum>>
    BY <1>2 DEF AllPairs
  <2> QED
    BY <2>1, FileFacts
<1> QED
  BY <1>1, <1>2

LEMMA Below == \A a, b \in Nat : ~(b < a) /\ b # a => a < b
OBVIOUS

\* The pending files as they are read from the directory.
LEMMA TodoFacts ==
  ASSUME dir \in Dirs, hist \subseteq AllPairs \cup {<<0, "">>}
  PROVE  /\ Todo \subseteq AllFiles /\ ManifestJSON(dir, hist) \subseteq AllPairs
         /\ \A f \in Todo : <<f.v, f.sum>> \in ManifestJSON(dir, hist)
         /\ \A f, g \in Todo : f.v = g.v => f = g
         /\ ~Refuses(dir, hist) => \A f \in Todo, r \in hist : r[1] < f.v
<1>1. ASSUME NEW v \in PendingOf(dir, hist)
      PROVE  /\ FileAt(dir, v) \in AllFiles /\ v \in DOMAIN dir
             /\ FileAt(dir, v).v = v /\ FileAt(dir, v).sum = dir[v].sum
  <2>1. v \in DOMAIN dir
    BY DEF PendingOf
  <2>2. FileAt(dir, v) \in {FileAt(dir, w) : w \in DOMAIN dir}
    BY <2>1
  <2>3. FileAt(dir, v) \in AllFiles
    BY <2>2 DEF AllFiles
  <2> QED
    BY <2>1, <2>3 DEF FileAt
<1>2. Todo \subseteq AllFiles
  BY <1>1 DEF Todo
<1>3. ManifestJSON(dir, hist) \subseteq AllPairs
  <2> SUFFICES ASSUME NEW v \in PendingOf(dir, hist) PROVE <<v, dir[v].sum>> \in AllPairs
    BY DEF ManifestJSON
  <2> QED
    BY <1>1 DEF AllPairs
<1>4. ASSUME NEW f \in Todo PROVE <<f.v, f.sum>> \in ManifestJSON(dir, hist)
  <2>1. PICK v \in PendingOf(dir, hist) : f = FileAt(dir, v)
    BY <1>4 DEF Todo
  <2>2. <<f.v, f.sum>> = <<v, dir[v].sum>>
    BY <1>1, <2>1
  <2> QED
    BY <2>2 DEF ManifestJSON
<1>5. \A f, g \in Todo : f.v = g.v => f = g
  BY <1>1 DEF Todo
<1>6. ASSUME ~Refuses(dir, hist), NEW f \in Todo, NEW r \in hist PROVE r[1] < f.v
  <2>1. PICK v \in PendingOf(dir, hist) : f = FileAt(dir, v)
    BY <1>6 DEF Todo
  <2>2. f.v = v /\ v \in DOMAIN dir /\ v \notin {q[1] : q \in hist} /\ v \in Nat
    BY <1>1, <2>1, FileFacts DEF PendingOf
  <2>3. ~(v < r[1]) /\ v # r[1] /\ r[1] \in Nat
    BY <1>6, <2>2, PairFacts DEF Refuses
  <2> QED
    BY <2>2, <2>3, Below
<1> QED
  BY <1>2, <1>3, <1>4, <1>5, <1>6

-----------------------------------------------------------------------------
(* The steps of Writes *)

LEMMA BackupsSame == ASSUME BackupsInv, UNCHANGED svars PROVE BackupsInv'
<1>0. /\ BackupsTypeOK /\ CatalogInv /\ JobFits /\ GoneFits
      /\ UNCHANGED <<day, files, catalog, stored, rows, copy, nightly, job, faults>>
  BY DEF BackupsInv, svars
<1>1. BackupsTypeOK' /\ JobFits'
  BY <1>0 DEF BackupsTypeOK, JobFits
<1>2. CatalogInv' /\ GoneFits'
  BY <1>0, CalmKeeps, GoneKeeps DEF BackupsTypeOK
<1> QED
  BY <1>1, <1>2 DEF BackupsInv

\* A write or a migration touches neither files nor catalog.
LEMMA WriteJobKeeps ==
  ASSUME BackupsInv, Calm, faults' \in {faults, faults + 1}, job' \in JobRec,
         job.op \in {"none", "migrate", "write"}, job'.op \in {"none", "migrate", "write"}
  PROVE  BackupsInv'
<1>0. /\ BackupsTypeOK /\ CatalogInv /\ GoneFits
      /\ UNCHANGED <<day, files, catalog, stored, rows, copy, nightly>>
  BY DEF BackupsInv, Calm
<1>1. BackupsTypeOK' /\ JobFits'
  BY <1>0 DEF BackupsTypeOK, JobFits
<1>2. CatalogInv' /\ GoneFits'
  BY <1>0, CalmKeeps, GoneKeeps DEF BackupsTypeOK
<1> QED
  BY <1>1, <1>2 DEF BackupsInv

\* The request and the locals of a job that has none.
LEMMA NoRunFacts ==
  /\ NoReq \in Reqs /\ NoReq.op = "none"
  /\ NoRun \in [req : Reqs, todo : SUBSET AllFiles, k : Nat \ {0}]
  /\ NoRun.req = NoReq /\ NoRun.todo = {} /\ NoRun.k = 1
  /\ Fresh \in WroteRec /\ Fresh.said = "none"
<1>1. NoReq \in Reqs /\ NoReq.op = "none"
  <2>1. <<>> \in Seq({"ddl", "dml"}) /\ {} \in SUBSET AllPairs /\ FALSE \in BOOLEAN
    OBVIOUS
  <2> QED
    BY <2>1 DEF NoReq, Reqs
<1>2. Fresh \in WroteRec /\ Fresh.said = "none"
  BY DEF Fresh, Says, WroteRec
<1>3. {} \in SUBSET AllFiles
  OBVIOUS
<1> QED
  BY <1>1, <1>2, <1>3 DEF NoRun


\* Outside a write there is neither transaction nor report.
LEMMA SilentIsTrue ==
  ASSUME wrote' = Fresh, job'.op # "write" PROVE ReportIsTrue' /\ WriteFits'
<1>1. wrote'.said = "none" /\ wrote'.kept = {}
  BY DEF Fresh
<1> QED
  BY <1>1 DEF ReportIsTrue, WriteFits

\* The job is over and the database is as it was.
LEMMA EndJobKeeps ==
  ASSUME WritesInv, EndJob, Calm, faults' \in {faults, faults + 1},
         job.op \in {"migrate", "write"},
         wrote' = Fresh \/ (job.op = "migrate" /\ wrote' = wrote),
         UNCHANGED <<dir, table, hist, done, pend>>
  PROVE  WritesInv'
<1>0. /\ BackupsInv /\ WritesTypeOK /\ RunFits /\ TableFits /\ RowMeansComplete
      /\ BackupsTypeOK /\ WriteFits
  BY DEF WritesInv, BackupsInv
<1>1. job' = NoJob /\ job' \in JobRec /\ job'.op = "none" /\ run' = NoRun
  BY <1>0, JobMoves DEF EndJob
<1>2. wrote' = Fresh /\ wrote' \in WroteRec /\ wrote'.said = "none"
  BY <1>0, NoRunFacts DEF WriteFits
<1>3. BackupsInv'
  BY <1>0, <1>1, WriteJobKeeps
<1>4. WritesTypeOK'
  BY <1>0, <1>1, <1>2, NoRunFacts DEF WritesTypeOK
<1>5. RunFits' /\ TableFits'
  BY <1>0, <1>1, <1>2 DEF RunFits, TableFits
<1>6. TodoFits' /\ PrefixDone'
  BY <1>1, NoRunFacts DEF TodoFits, PrefixDone
<1>7. RowMeansComplete' /\ ReportIsTrue' /\ WriteFits'
  BY <1>0, <1>1, <1>2, SilentIsTrue DEF RowMeansComplete
<1> QED
  BY <1>3, <1>4, <1>5, <1>6, <1>7 DEF WritesInv

\* A request or an edit changes nothing but the request waiting and the directory.
LEMMA AskKeeps ==
  ASSUME WritesInv, UNCHANGED <<svars, table, hist, done, run, wrote>>,
         dir' \in Dirs, pend' \in Reqs, pend'.op = "none" => pend' = NoReq
  PROVE  WritesInv'
<1>0. /\ BackupsInv /\ WritesTypeOK /\ RunFits /\ TableFits /\ TodoFits /\ PrefixDone
      /\ RowMeansComplete /\ ReportIsTrue /\ WriteFits /\ job' = job
  BY DEF WritesInv, svars
<1>1. BackupsInv'
  BY <1>0, BackupsSame
<1>2. WritesTypeOK'
  BY <1>0 DEF WritesTypeOK
<1>3. RunFits' /\ TableFits'
  BY <1>0 DEF RunFits, TableFits
<1>4. TodoFits' /\ PrefixDone'
  BY <1>0 DEF TodoFits, PrefixDone, FirstOf
<1>5. RowMeansComplete' /\ ReportIsTrue'
  BY <1>0 DEF RowMeansComplete, ReportIsTrue, Script, HasDDL
<1>6. WriteFits'
  BY <1>0 DEF WriteFits, AtomicFits, StepsFit, Script, HasDDL
<1> QED
  BY <1>1, <1>2, <1>3, <1>4, <1>5, <1>6 DEF WritesInv

LEMMA RequestMigrationKeeps ==
  ASSUME WritesInv, NEW b \in BOOLEAN, RequestMigration(b) PROVE WritesInv'
<1>1. WritesTypeOK
  BY DEF WritesInv
<1>2. ManifestJSON(dir, hist) \in SUBSET AllPairs
  <2>1. dir \in Dirs /\ hist \subseteq AllPairs \cup {<<0, "">>}
    BY <1>1 DEF WritesTypeOK
  <2> QED
    BY <2>1, TodoFacts
<1>3. pend' \in Reqs /\ pend'.op = "migrate"
  <2>1. <<>> \in Seq({"ddl", "dml"})
    OBVIOUS
  <2> QED
    BY <1>2, <2>1 DEF RequestMigration, Reqs
<1> QED
  BY <1>1, <1>3, AskKeeps DEF RequestMigration, WritesTypeOK

LEMMA RequestWriteKeeps ==
  ASSUME WritesInv, NEW s \in Scripts, RequestWrite(s) PROVE WritesInv'
<1>1. WritesTypeOK
  BY DEF WritesInv
<1>2. s.stmts \in Seq({"ddl", "dml"}) /\ {} \in SUBSET AllPairs /\ FALSE \in BOOLEAN
  BY WritesAssumption
<1>3. pend' \in Reqs /\ pend'.op = "write"
  BY <1>2 DEF RequestWrite, Reqs
<1> QED
  BY <1>1, <1>3, AskKeeps DEF RequestWrite, WritesTypeOK

LEMMA EditKeeps == ASSUME WritesInv, Edit PROVE WritesInv'
BY AskKeeps DEF Edit, WritesInv, WritesTypeOK

\* The job starts with the request's arguments and nothing else.
LEMMA ApproveKeeps == ASSUME WritesInv, Approve PROVE WritesInv'
<1>0. /\ BackupsInv /\ WritesTypeOK /\ RunFits /\ TableFits /\ RowMeansComplete /\ WriteFits
      /\ BackupsTypeOK /\ job.op = "none" /\ faults' = faults /\ Calm
      /\ UNCHANGED <<dir, table, hist, done, wrote>> /\ pend' = NoReq
  BY DEF WritesInv, BackupsInv, Approve, Idle, Calm
<1>1. pend.op \in {"migrate", "write"} /\ pend \in Reqs
  BY <1>0 DEF Approve, WritesTypeOK, Reqs
<1>2. /\ run' \in [req : Reqs, todo : SUBSET AllFiles, k : Nat \ {0}]
      /\ run'.todo = {} /\ run'.k = 1
  <2>1. run' = [NoRun EXCEPT !.req = pend]
    BY DEF Approve
  <2> QED
    BY <1>1, <2>1, NoRunFacts
<1>3. /\ job' \in JobRec /\ job'.op = pend.op /\ job'.pc \in {"check", "begin"}
      /\ job'.op = "write" => job'.pc = "begin"
  <2>1. \E pc \in {"check", "begin"} :
          /\ job' = [op |-> pend.op, pc |-> pc, file |-> 0, plan |-> {}]
          /\ pend.op = "write" => pc = "begin"
    BY DEF Approve, Start
  <2>2. pend.op \in JobOps /\ {"check", "begin"} \subseteq JobPcs /\ {} \in SUBSET Row
    BY <1>1 DEF JobOps, JobPcs
  <2> QED
    BY <2>1, <2>2 DEF JobRec
<1>4. wrote' = Fresh /\ wrote'.said = "none"
  BY <1>0, NoRunFacts DEF WriteFits
<1>5. BackupsInv'
  BY <1>0, <1>1, <1>3, WriteJobKeeps
<1>6. WritesTypeOK'
  BY <1>0, <1>2, NoRunFacts DEF WritesTypeOK
<1>7. RunFits' /\ TableFits'
  BY <1>0, <1>1, <1>2, <1>3, <1>4 DEF RunFits, TableFits
<1>8. TodoFits' /\ PrefixDone'
  BY <1>2 DEF TodoFits, PrefixDone
<1>9. RowMeansComplete'
  BY <1>0 DEF RowMeansComplete
<1>10. ReportIsTrue' /\ WriteFits'
  <2>1. wrote'.kept = {} /\ wrote'.tx = {} /\ wrote'.applied = 0
    BY <1>4 DEF Fresh
  <2>2. Script' \in Seq({"ddl", "dml"})
    BY <1>2 DEF Script, Reqs
  <2>3. 1..(run'.k - 1) = {} /\ run'.k - 1 = 0 /\ run'.k <= Len(Script') + 1
    BY <1>2, <2>2
  <2>4. ReportIsTrue'
    BY <1>4, <2>1 DEF ReportIsTrue
  <2>5. job'.op = "write" => StepsFit' /\ AtomicFits'
    BY <1>2, <1>3, <2>1, <2>3 DEF StepsFit, AtomicFits
  <2> QED
    BY <1>3, <1>4, <2>3, <2>4, <2>5 DEF WriteFits
<1> QED
  BY <1>5, <1>6, <1>7, <1>8, <1>9, <1>10 DEF WritesInv


\* The directory is read again and gives the approved files, all above the history.
LEMMA MigrateCheckKeeps == ASSUME WritesInv, MigrateCheck PROVE WritesInv'
<1>0. /\ BackupsInv /\ WritesTypeOK /\ RunFits /\ TableFits /\ PrefixDone /\ RowMeansComplete
      /\ BackupsTypeOK /\ job.op = "migrate" /\ job.pc = "check" /\ faults' = faults /\ Calm
      /\ UNCHANGED <<dir, table, hist, done, pend, wrote>> /\ wrote = Fresh
  BY DEF WritesInv, BackupsInv, MigrateCheck, WriteFits
<1>1. CASE EndJob
  BY <1>0, <1>1, EndJobKeeps
<1>2. CASE /\ ~BatchFails(run.req.baseline) /\ ManifestJSON(dir, hist) = run.req.manifest
           /\ To(IF ~table THEN "boot" ELSE "apply")
           /\ run' = [run EXCEPT !.todo = Todo]
  <2>1. /\ job' \in JobRec /\ job'.op = "migrate"
        /\ job'.pc = (IF ~table THEN "boot" ELSE "apply")
    BY <1>0, <1>2, JobMoves DEF To, JobPcs
  <2>2. dir \in Dirs /\ hist \subseteq AllPairs \cup {<<0, "">>}
    BY <1>0 DEF WritesTypeOK
  <2>3. /\ run' \in [req : Reqs, todo : SUBSET AllFiles, k : Nat \ {0}]
        /\ run'.todo = Todo /\ run'.k = 1 /\ run'.req = run.req
    BY <1>0, <1>2, <2>2, TodoFacts DEF WritesTypeOK, PrefixDone
  <2>4. ~Refuses(dir, hist) /\ (run.req.baseline => ~table)
    BY <1>2 DEF BatchFails
  <2>5. BackupsInv'
    BY <1>0, <2>1, WriteJobKeeps
  <2>6. WritesTypeOK'
    BY <1>0, <2>3 DEF WritesTypeOK
  <2>7. RunFits' /\ TableFits'
    BY <1>0, <2>1, <2>3, <2>4 DEF RunFits, TableFits
  <2>8. TodoFits'
    BY <1>0, <1>2, <2>2, <2>3, <2>4, TodoFacts DEF TodoFits
  <2>9. PrefixDone'
    <3>1. ASSUME NEW f \in Todo, NEW k \in DOMAIN f.stmts PROVE ~(k < 1)
      <4>1. f.stmts \in Seq({"ddl", "dml"})
        BY <2>2, <3>1, TodoFacts, FileFacts
      <4> QED
        BY <3>1, <4>1
    <3> QED
      BY <2>1, <2>3, <3>1 DEF PrefixDone
  <2>10. RowMeansComplete' /\ ReportIsTrue' /\ WriteFits'
    BY <1>0, <2>1, SilentIsTrue DEF RowMeansComplete
  <2> QED
    BY <2>5, <2>6, <2>7, <2>8, <2>9, <2>10 DEF WritesInv
<1> QED
  BY <1>1, <1>2 DEF MigrateCheck

LEMMA MigrateBootKeeps == ASSUME WritesInv, MigrateBoot PROVE WritesInv'
<1>0. /\ BackupsInv /\ WritesTypeOK /\ RunFits /\ TableFits /\ TodoFits /\ PrefixDone
      /\ RowMeansComplete /\ BackupsTypeOK /\ job.op = "migrate" /\ job.pc = "boot" /\ Calm
      /\ UNCHANGED <<dir, hist, done, pend, wrote>> /\ wrote = Fresh
  BY DEF WritesInv, BackupsInv, MigrateBoot, WriteFits
<1>1. CASE Trouble /\ EndJob /\ UNCHANGED table
  BY <1>0, <1>1, EndJobKeeps DEF Trouble
<1>2. CASE table' = TRUE /\ To("apply") /\ UNCHANGED <<run, faults>>
  <2>1. job' \in JobRec /\ job'.op = "migrate" /\ job'.pc = "apply"
    BY <1>0, <1>2, JobMoves DEF To, JobPcs
  <2>2. BackupsInv'
    BY <1>0, <1>2, <2>1, WriteJobKeeps
  <2>3. WritesTypeOK'
    BY <1>0, <1>2 DEF WritesTypeOK
  <2>4. RunFits' /\ TableFits'
    BY <1>0, <1>2, <2>1 DEF RunFits, TableFits
  <2>5. TodoFits' /\ PrefixDone'
    BY <1>0, <1>2, <2>1 DEF TodoFits, PrefixDone, FirstOf
  <2>6. RowMeansComplete' /\ ReportIsTrue' /\ WriteFits'
    BY <1>0, <2>1, SilentIsTrue DEF RowMeansComplete
  <2> QED
    BY <2>2, <2>3, <2>4, <2>5, <2>6 DEF WritesInv
<1> QED
  BY <1>1, <1>2 DEF MigrateBoot

\* The baseline row has version 0: it stands for no file.
LEMMA MigrateBaselineKeeps == ASSUME WritesInv, MigrateBaseline PROVE WritesInv'
<1>0. /\ BackupsInv /\ WritesTypeOK /\ RunFits /\ TableFits /\ RowMeansComplete
      /\ BackupsTypeOK /\ job.op = "migrate" /\ job.pc = "apply" /\ Calm
      /\ UNCHANGED <<dir, table, done, pend, wrote>> /\ wrote = Fresh
  BY DEF WritesInv, BackupsInv, MigrateBaseline, WriteFits
<1>1. CASE Trouble /\ EndJob /\ UNCHANGED hist
  BY <1>0, <1>1, EndJobKeeps DEF Trouble
<1>2. CASE hist' = hist \cup {<<0, "">>} /\ EndJob /\ UNCHANGED faults
  <2>1. job' = NoJob /\ job' \in JobRec /\ job'.op = "none" /\ run' = NoRun
    BY <1>0, <1>2, JobMoves DEF EndJob
  <2>2. BackupsInv'
    BY <1>0, <1>2, <2>1, WriteJobKeeps
  <2>3. WritesTypeOK'
    BY <1>0, <1>2, <2>1, NoRunFacts DEF WritesTypeOK
  <2>4. RunFits' /\ TableFits'
    BY <1>0, <1>2, <2>1 DEF RunFits, TableFits
  <2>5. TodoFits' /\ PrefixDone'
    BY <2>1, NoRunFacts DEF TodoFits, PrefixDone
  <2>6. RowMeansComplete'
    <3>1. ~(<<0, "">>[1] > 0)
      OBVIOUS
    <3> QED
      BY <1>0, <1>2, <3>1 DEF RowMeansComplete
  <2>7. ReportIsTrue' /\ WriteFits'
    BY <1>0, <2>1, SilentIsTrue
  <2> QED
    BY <2>2, <2>3, <2>4, <2>5, <2>6, <2>7 DEF WritesInv
<1> QED
  BY <1>1, <1>2 DEF MigrateBaseline

\* The job goes on with the next statement.
LEMMA NextK ==
  ASSUME WritesTypeOK
  PROVE  /\ [run EXCEPT !.k = @ + 1] \in [req : Reqs, todo : SUBSET AllFiles, k : Nat \ {0}]
         /\ [run EXCEPT !.k = @ + 1].todo = run.todo /\ [run EXCEPT !.k = @ + 1].req = run.req
         /\ [run EXCEPT !.k = @ + 1].k = run.k + 1 /\ run.k \in Nat /\ run.k > 0
<1>1. run \in [req : Reqs, todo : SUBSET AllFiles, k : Nat \ {0}]
  BY DEF WritesTypeOK
<1>2. run.k \in Nat /\ run.k > 0 /\ run.k + 1 \in Nat \ {0}
  BY <1>1
<1> QED
  BY <1>1, <1>2

\* One statement more of the first file has run.
LEMMA MigrateStmtKeeps == ASSUME WritesInv, MigrateStmt PROVE WritesInv'
<1>0. /\ BackupsInv /\ WritesTypeOK /\ RunFits /\ TableFits /\ TodoFits /\ PrefixDone
      /\ RowMeansComplete /\ BackupsTypeOK /\ job.op = "migrate" /\ job.pc = "apply" /\ Calm
      /\ UNCHANGED <<dir, table, hist, pend, wrote>> /\ wrote = Fresh
  BY DEF WritesInv, BackupsInv, MigrateStmt, Applying, WriteFits
<1>1. CASE EndJob /\ UNCHANGED done /\ faults' \in {faults, faults + 1}
  BY <1>0, <1>1, EndJobKeeps
<1>2. ASSUME NEW f \in run.todo, FirstOf(f, run.todo), run.k <= Len(f.stmts),
             done' = [done EXCEPT ![<<f.v, f.sum, run.k>>] = @ + 1],
             run' = [run EXCEPT !.k = @ + 1], UNCHANGED <<job, faults>>
      PROVE  WritesInv'
  <2>1. /\ f \in AllFiles /\ f.v \in Nat /\ f.stmts \in Seq({"ddl", "dml"})
        /\ \A k \in DOMAIN f.stmts : <<f.v, f.sum, k>> \in AllStmts
        /\ done \in [AllStmts -> Nat]
    BY <1>0, <1>2, FileFacts DEF WritesTypeOK
  <2>2. /\ run' \in [req : Reqs, todo : SUBSET AllFiles, k : Nat \ {0}]
        /\ run'.todo = run.todo /\ run'.req = run.req /\ run'.k = run.k + 1
        /\ run.k \in Nat /\ run.k > 0
    BY <1>0, <1>2, NextK
  <2>3. run.k \in DOMAIN f.stmts
    BY <1>2, <2>1, <2>2
  <2>4. /\ done' \in [AllStmts -> Nat] /\ done'[<<f.v, f.sum, run.k>>] >= 1
        /\ \A s \in AllStmts : done'[s] >= done[s] /\ done[s] \in Nat
    <3> DEFINE x == <<f.v, f.sum, run.k>>
    <3>1. x \in AllStmts /\ done' = [done EXCEPT ![x] = @ + 1]
      BY <1>2, <2>1, <2>3
    <3> HIDE DEF x
    <3>2. done' \in [AllStmts -> Nat] /\ done'[x] = done[x] + 1 /\ done[x] \in Nat
      BY <2>1, <3>1
    <3>3. \A s \in AllStmts : done'[s] >= done[s] /\ done[s] \in Nat
      BY <2>1, <3>1, <3>2
    <3> QED
      BY <3>2, <3>3 DEF x
  <2>5. BackupsInv'
    BY <1>0, <1>2, WriteJobKeeps DEF BackupsTypeOK
  <2>6. WritesTypeOK'
    BY <1>0, <2>2, <2>4 DEF WritesTypeOK
  <2>7. RunFits' /\ TableFits'
    BY <1>0, <1>2, <2>2 DEF RunFits, TableFits
  <2>8. TodoFits'
    BY <1>0, <2>2 DEF TodoFits
  <2>9. PrefixDone'
    <3> SUFFICES ASSUME NEW g \in run.todo, FirstOf(g, run.todo),
                        NEW k \in DOMAIN g.stmts, k < run.k + 1
                 PROVE  done'[<<g.v, g.sum, k>>] >= 1
      BY <1>0, <1>2, <2>2 DEF PrefixDone, FirstOf
    <3>1. g = f
      <4>1. g.v \in Nat /\ g.v <= f.v /\ f.v <= g.v
        BY <1>0, <1>2, <2>1, FileFacts DEF FirstOf, WritesTypeOK
      <4> QED
        BY <1>0, <1>2, <2>1, <4>1 DEF TodoFits
    <3>2. k \in Nat /\ <<f.v, f.sum, k>> \in AllStmts
      BY <2>1, <3>1
    <3>3. CASE k = run.k
      BY <2>4, <3>1, <3>3
    <3>4. CASE k # run.k
      <4>1. k < run.k
        BY <2>2, <3>2, <3>4
      <4>2. done[<<f.v, f.sum, k>>] >= 1
        BY <1>0, <1>2, <3>1, <4>1 DEF PrefixDone
      <4> QED
        BY <2>4, <3>1, <3>2, <4>2
    <3> QED
      BY <3>3, <3>4
  <2>10. RowMeansComplete'
    BY <1>0, <2>1, <2>4 DEF RowMeansComplete
  <2>11. ReportIsTrue' /\ WriteFits'
    BY <1>0, <1>2, SilentIsTrue
  <2> QED
    BY <2>5, <2>6, <2>7, <2>8, <2>9, <2>10, <2>11 DEF WritesInv
<1> QED
  BY <1>1, <1>2 DEF MigrateStmt, Trouble


\* The row is written when every statement of its file has run, and the files left
\* are above it.
LEMMA MigrateRowKeeps == ASSUME WritesInv, MigrateRow PROVE WritesInv'
<1>0. /\ BackupsInv /\ WritesTypeOK /\ RunFits /\ TableFits /\ TodoFits /\ PrefixDone
      /\ RowMeansComplete /\ BackupsTypeOK /\ job.op = "migrate" /\ job.pc = "apply" /\ Calm
      /\ ~run.req.baseline /\ UNCHANGED <<dir, table, done, pend, wrote>> /\ wrote = Fresh
  BY DEF WritesInv, BackupsInv, MigrateRow, Applying, WriteFits
<1>1. CASE Trouble /\ EndJob /\ UNCHANGED hist
  BY <1>0, <1>1, EndJobKeeps DEF Trouble
<1>2. ASSUME NEW f \in run.todo, FirstOf(f, run.todo), run.k > Len(f.stmts),
             hist' = hist \cup {<<f.v, f.sum>>},
             run' = [run EXCEPT !.todo = @ \ {f}, !.k = 1], UNCHANGED <<job, faults>>
      PROVE  WritesInv'
  <2>1. /\ f \in AllFiles /\ f.v \in Nat /\ f.stmts \in Seq({"ddl", "dml"})
        /\ <<f.v, f.sum>> \in AllPairs /\ done \in [AllStmts -> Nat]
    BY <1>0, <1>2, FileFacts DEF WritesTypeOK
  <2>2. /\ run' \in [req : Reqs, todo : SUBSET AllFiles, k : Nat \ {0}]
        /\ run'.todo = run.todo \ {f} /\ run'.req = run.req /\ run'.k = 1
        /\ run.k \in Nat /\ run.todo \subseteq AllFiles
    <3>1. run \in [req : Reqs, todo : SUBSET AllFiles, k : Nat \ {0}]
      BY <1>0 DEF WritesTypeOK
    <3>2. 1 \in Nat \ {0} /\ run.todo \ {f} \in SUBSET AllFiles
      BY <3>1
    <3> QED
      BY <1>2, <3>1, <3>2
  <2>3. BackupsInv'
    BY <1>0, <1>2, WriteJobKeeps DEF BackupsTypeOK
  <2>4. WritesTypeOK'
    BY <1>0, <1>2, <2>1, <2>2 DEF WritesTypeOK
  <2>5. RunFits' /\ TableFits'
    BY <1>0, <1>2, <2>2 DEF RunFits, TableFits
  <2>6. TodoFits'
    <3>1. ASSUME NEW g \in run.todo, g # f PROVE f.v < g.v
      <4>1. g.v \in Nat /\ f.v <= g.v /\ f.v # g.v
        BY <1>0, <1>2, <2>2, <3>1, FileFacts DEF FirstOf, TodoFits
      <4> QED
        BY <2>1, <4>1
    <3>2. <<f.v, f.sum>>[1] = f.v
      OBVIOUS
    <3> QED
      BY <1>0, <1>2, <2>2, <3>1, <3>2 DEF TodoFits
  <2>7. PrefixDone'
    <3>1. ASSUME NEW g \in run.todo, NEW k \in DOMAIN g.stmts PROVE ~(k < 1)
      <4>1. g.stmts \in Seq({"ddl", "dml"})
        BY <2>2, <3>1, FileFacts
      <4> QED
        BY <3>1, <4>1
    <3> QED
      BY <1>0, <1>2, <2>2, <3>1 DEF PrefixDone
  <2>8. RowMeansComplete'
    <3>1. ASSUME NEW s \in AllStmts, s[1] = f.v, s[2] = f.sum PROVE done[s] >= 1
      <4>1. s[3] \in DOMAIN f.stmts /\ s = <<f.v, f.sum, s[3]>>
        BY <2>1, <3>1, FileFacts
      <4>2. s[3] < run.k
        <5>1. DOMAIN f.stmts = 1..Len(f.stmts) /\ Len(f.stmts) \in Nat
          BY <2>1
        <5> QED
          BY <1>2, <2>2, <4>1, <5>1
      <4> QED
        BY <1>0, <1>2, <4>1, <4>2 DEF PrefixDone
    <3>2. <<f.v, f.sum>>[1] = f.v /\ <<f.v, f.sum>>[2] = f.sum /\ DOMAIN done = AllStmts
      BY <2>1
    <3> QED
      BY <1>0, <1>2, <3>1, <3>2 DEF RowMeansComplete
  <2>9. ReportIsTrue' /\ WriteFits'
    BY <1>0, <1>2, SilentIsTrue
  <2> QED
    BY <2>3, <2>4, <2>5, <2>6, <2>7, <2>8, <2>9 DEF WritesInv
<1> QED
  BY <1>1, <1>2 DEF MigrateRow

LEMMA MigrateEndKeeps == ASSUME WritesInv, MigrateEnd PROVE WritesInv'
BY EndJobKeeps DEF MigrateEnd, Applying

\* The script that runs and the statement it is at.
LEMMA ScriptFacts ==
  ASSUME WritesTypeOK
  PROVE  Script \in Seq({"ddl", "dml"}) /\ Len(Script) \in Nat /\ run.k \in Nat /\ run.k > 0
<1>1. run.req \in Reqs /\ run.k \in Nat \ {0}
  BY DEF WritesTypeOK
<1>2. Script \in Seq({"ddl", "dml"})
  BY <1>1 DEF Script, Reqs
<1> QED
  BY <1>1, <1>2

\* Where the engine and the executor are before the report.
LEMMA WriteState ==
  ASSUME WritesInv, job.op = "write", job.pc # "report"
  PROVE  /\ wrote \in WroteRec /\ run.k \in Nat /\ run.k > 0 /\ Len(Script) \in Nat
         /\ DOMAIN Script = 1..Len(Script) /\ run.k <= Len(Script) + 1
         /\ HasDDL(Script) =>
              /\ wrote.kept = 1..(run.k - 1) /\ wrote.applied = run.k - 1
              /\ job.pc \in {"exec", "commit"} => run.k <= Len(Script)
              /\ wrote.tx = IF job.pc = "commit" THEN {run.k} ELSE {}
         /\ ~HasDDL(Script) =>
              /\ wrote.kept = {} /\ wrote.applied = 0 /\ wrote.tx = 1..(run.k - 1)
              /\ job.pc # "commit" /\ (job.pc = "begin" => run.k = 1)
<1>1. WritesTypeOK /\ WriteFits
  BY DEF WritesInv
<1>2. /\ Script \in Seq({"ddl", "dml"}) /\ Len(Script) \in Nat /\ run.k \in Nat /\ run.k > 0
      /\ wrote \in WroteRec
  BY <1>1, ScriptFacts DEF WritesTypeOK
<1> QED
  BY <1>1, <1>2 DEF WriteFits, StepsFit, AtomicFits

\* A step of the executor that keeps its own part of the invariant keeps the rest.
LEMMA WriteStepKeeps ==
  ASSUME WritesInv, job.op = "write", Rest, faults' \in {faults, faults + 1},
         job' \in JobRec, job'.op = "write",
         run' \in [req : Reqs, todo : SUBSET AllFiles, k : Nat \ {0}], run'.todo = run.todo,
         wrote' \in WroteRec, wrote'.said # "none" => job'.pc = "report",
         WriteFits', ReportIsTrue'
  PROVE  WritesInv'
<1>0. /\ BackupsInv /\ WritesTypeOK /\ RunFits /\ TableFits /\ RowMeansComplete /\ Calm
      /\ UNCHANGED <<dir, table, hist, done, pend>>
  BY DEF WritesInv, Rest
<1>1. BackupsInv'
  BY <1>0, WriteJobKeeps
<1>2. WritesTypeOK'
  BY <1>0 DEF WritesTypeOK
<1>3. RunFits' /\ TableFits' /\ run'.todo = {}
  BY <1>0 DEF RunFits, TableFits
<1>4. TodoFits' /\ PrefixDone' /\ RowMeansComplete'
  BY <1>0, <1>3 DEF TodoFits, PrefixDone, RowMeansComplete
<1> QED
  BY <1>1, <1>2, <1>3, <1>4 DEF WritesInv

\* The report ends the executor's part.
LEMMA ReportKeeps ==
  ASSUME WritesInv, job.op = "write", job.pc # "report", Rest,
         faults' \in {faults, faults + 1}, To("report"), run' = run, wrote' \in WroteRec,
         ReportIsTrue'
  PROVE  WritesInv'
<1>1. job' \in JobRec /\ job'.op = "write" /\ job'.pc = "report"
  BY JobMoves DEF WritesInv, BackupsInv, To, JobPcs
<1>2. run' \in [req : Reqs, todo : SUBSET AllFiles, k : Nat \ {0}] /\ run'.todo = run.todo
  BY DEF WritesInv, WritesTypeOK
<1>3. Script' = Script
  BY DEF Script
<1>4. WriteFits'
  BY <1>1, <1>3, WriteState DEF WriteFits, StepsFit, AtomicFits
<1> QED
  BY <1>1, <1>2, <1>4, WriteStepKeeps

\* The same with the report spelled out.
LEMMA SayKeeps ==
  ASSUME WritesInv, job.op = "write", job.pc # "report", Rest,
         faults' \in {faults, faults + 1},
         NEW what \in Says, NEW kept \in SUBSET Nat, NEW lost \in SUBSET Nat,
         Say(what, kept, lost),
         ~HasDDL(Script) => kept \in {{}, DOMAIN Script},
         what = "committed" => kept = DOMAIN Script,
         what = "rolled back" => kept = lost,
         what = "partially applied" => kept = 1..wrote.applied /\ wrote.applied < Len(Script),
         what \in {"error", "commit failed"} => kept \ lost = 1..wrote.applied
  PROVE  WritesInv'
<1>1. wrote \in WroteRec
  BY WriteState
<1>2. /\ wrote' \in WroteRec /\ wrote'.kept = kept /\ wrote'.lost = lost
      /\ wrote'.said = what /\ wrote'.count = wrote.applied
  BY <1>1 DEF Say, WroteRec
<1>3. run' = run /\ To("report") /\ Script' = Script /\ (HasDDL(Script)' <=> HasDDL(Script))
  BY DEF Say, Script, HasDDL
<1>4. ReportIsTrue'
  BY <1>2, <1>3 DEF ReportIsTrue
<1> QED
  BY <1>2, <1>3, <1>4, ReportKeeps

LEMMA SaysFacts ==
  /\ {"committed", "rolled back", "commit failed", "error", "partially applied"} \subseteq Says
  /\ {} \in SUBSET Nat
BY DEF Says

LEMMA WriteBeginKeeps == ASSUME WritesInv, WriteBegin PROVE WritesInv'
<1>0. /\ job.op = "write" /\ job.pc = "begin" /\ Rest
      /\ HasDDL(Script) => run.k <= Len(Script)
  BY DEF WriteBegin, Writing
<1>1. CASE To("exec") /\ UNCHANGED <<run, wrote, faults>>
  <2>1. job' \in JobRec /\ job'.op = "write" /\ job'.pc = "exec"
    BY <1>0, <1>1, JobMoves DEF WritesInv, BackupsInv, To, JobPcs
  <2>2. Script' = Script /\ (HasDDL(Script)' <=> HasDDL(Script))
    BY <1>1 DEF Script, HasDDL
  <2>3. WriteFits'
    BY <1>0, <1>1, <2>1, <2>2, WriteState DEF WriteFits, StepsFit, AtomicFits
  <2>4. ReportIsTrue' /\ wrote'.said = "none"
    BY <1>0, <1>1, <2>2 DEF WritesInv, ReportIsTrue, RunFits
  <2> QED
    BY <1>0, <1>1, <2>1, <2>3, <2>4, WriteStepKeeps DEF WritesInv, WritesTypeOK
<1>2. CASE Trouble /\ Say("error", wrote.kept, {})
  <2>1. PICK kept \in SUBSET Nat : kept = wrote.kept
    BY <1>0, WriteState DEF WroteRec
  <2>2. Say("error", kept, {}) /\ faults' \in {faults, faults + 1}
    BY <1>2, <2>1 DEF Trouble
  <2>3. kept \ {} = 1..wrote.applied /\ (~HasDDL(Script) => kept = {})
    <3>1. 1..0 = {}
      OBVIOUS
    <3> QED
      BY <1>0, <2>1, <3>1, WriteState
  <2> QED
    BY <1>0, <2>2, <2>3, SayKeeps, SaysFacts
<1> QED
  BY <1>1, <1>2 DEF WriteBegin

\* execAtomic: the transaction grows, and goes with the first failure.
LEMMA AtomicStmtKeeps == ASSUME WritesInv, AtomicStmt PROVE WritesInv'
<1>0. /\ job.op = "write" /\ job.pc = "exec" /\ Rest /\ ~HasDDL(Script)
      /\ run.k <= Len(Script)
  BY DEF AtomicStmt, Writing
<1>1. CASE /\ wrote' = [wrote EXCEPT !.tx = @ \cup {run.k}]
           /\ run' = [run EXCEPT !.k = @ + 1] /\ UNCHANGED <<job, faults>>
  <2>1. /\ run' \in [req : Reqs, todo : SUBSET AllFiles, k : Nat \ {0}]
        /\ run'.todo = run.todo /\ run'.req = run.req /\ run'.k = run.k + 1
    BY <1>1, NextK DEF WritesInv
  <2>2. Script' = Script /\ (HasDDL(Script)' <=> HasDDL(Script))
    BY <2>1 DEF Script, HasDDL
  <2>3. /\ wrote \in WroteRec /\ run.k \in Nat /\ run.k > 0 /\ Len(Script) \in Nat
        /\ wrote.kept = {} /\ wrote.applied = 0 /\ wrote.tx = 1..(run.k - 1)
    BY <1>0, WriteState
  <2>4. /\ wrote' \in WroteRec /\ wrote'.kept = {} /\ wrote'.applied = 0
        /\ wrote'.tx = wrote.tx \cup {run.k} /\ wrote'.said = wrote.said
    BY <1>1, <2>3 DEF WroteRec
  <2>5. wrote'.tx = 1..(run'.k - 1)
    BY <2>1, <2>3, <2>4
  <2>6. WriteFits'
    BY <1>0, <1>1, <2>1, <2>2, <2>3, <2>4, <2>5 DEF WriteFits, StepsFit, AtomicFits
  <2>7. wrote'.said = "none"
    BY <1>0, <2>4 DEF WritesInv, RunFits
  <2>8. ReportIsTrue'
    BY <2>4, <2>7 DEF ReportIsTrue
  <2>9. job' \in JobRec
    BY <1>1 DEF WritesInv, BackupsInv, BackupsTypeOK
  <2> QED
    BY <1>0, <1>1, <2>1, <2>4, <2>6, <2>7, <2>8, <2>9, WriteStepKeeps
<1>2. CASE Trouble /\ Say("rolled back", wrote.kept, {})
  <2>1. wrote.kept = {}
    BY <1>0, WriteState
  <2> QED
    BY <1>0, <1>2, <2>1, SayKeeps, SaysFacts DEF Trouble
<1> QED
  BY <1>1, <1>2 DEF AtomicStmt

\* The whole transaction, or nothing, or all of it with the answer lost.
LEMMA AtomicCommitKeeps == ASSUME WritesInv, AtomicCommit PROVE WritesInv'
<1>0. /\ job.op = "write" /\ job.pc = "exec" /\ Rest /\ ~HasDDL(Script)
      /\ run.k > Len(Script)
  BY DEF AtomicCommit, Writing
<1>1. wrote.kept = {} /\ wrote.tx = DOMAIN Script
  BY <1>0, WriteState
<1>2. PICK all \in SUBSET Nat : all = DOMAIN Script
  BY <1>0, WriteState
<1>3. wrote.kept \cup wrote.tx = all /\ wrote.tx = all
  BY <1>1, <1>2
<1>4. CASE Say("committed", wrote.kept \cup wrote.tx, {}) /\ UNCHANGED faults
  BY <1>0, <1>2, <1>3, <1>4, SayKeeps, SaysFacts
<1>5. CASE Trouble /\ Say("rolled back", wrote.kept, {})
  BY <1>0, <1>1, <1>5, SayKeeps, SaysFacts DEF Trouble
<1>6. CASE Trouble /\ Say("rolled back", wrote.kept \cup wrote.tx, wrote.tx)
  BY <1>0, <1>2, <1>3, <1>6, SayKeeps, SaysFacts DEF Trouble
<1> QED
  BY <1>4, <1>5, <1>6 DEF AtomicCommit, CommitFails

\* execPerStatement: the statement is in a transaction of its own.
LEMMA PerStatementExecKeeps == ASSUME WritesInv, PerStatementExec PROVE WritesInv'
<1>0. /\ job.op = "write" /\ job.pc = "exec" /\ Rest /\ HasDDL(Script)
  BY DEF PerStatementExec, Writing
<1>1. /\ wrote \in WroteRec /\ run.k \in Nat /\ run.k > 0 /\ Len(Script) \in Nat
      /\ wrote.kept = 1..(run.k - 1) /\ wrote.applied = run.k - 1 /\ run.k <= Len(Script)
  BY <1>0, WriteState
<1>2. CASE /\ wrote' = [wrote EXCEPT !.tx = {run.k}]
           /\ To("commit") /\ UNCHANGED <<run, faults>>
  <2>1. job' \in JobRec /\ job'.op = "write" /\ job'.pc = "commit"
    BY <1>0, <1>2, JobMoves DEF WritesInv, BackupsInv, To, JobPcs
  <2>2. Script' = Script /\ (HasDDL(Script)' <=> HasDDL(Script))
    BY <1>2 DEF Script, HasDDL
  <2>3. /\ wrote' \in WroteRec /\ wrote'.kept = wrote.kept /\ wrote'.applied = wrote.applied
        /\ wrote'.tx = {run.k} /\ wrote'.said = wrote.said
    BY <1>1, <1>2 DEF WroteRec
  <2>4. WriteFits'
    BY <1>0, <1>1, <1>2, <2>1, <2>2, <2>3 DEF WriteFits, StepsFit
  <2>5. wrote'.said = "none"
    BY <1>0, <2>3 DEF WritesInv, RunFits
  <2>6. ReportIsTrue'
    BY <1>0, <2>2, <2>5 DEF ReportIsTrue
  <2> QED
    BY <1>0, <1>2, <2>1, <2>3, <2>4, <2>5, <2>6, WriteStepKeeps DEF WritesInv, WritesTypeOK
<1>3. CASE Trouble /\ Say("partially applied", wrote.kept, {})
  <2>1. PICK kept \in SUBSET Nat : kept = wrote.kept
    BY <1>1 DEF WroteRec
  <2>2. Say("partially applied", kept, {}) /\ faults' \in {faults, faults + 1}
    BY <1>3, <2>1 DEF Trouble
  <2>3. kept = 1..wrote.applied /\ wrote.applied < Len(Script)
    BY <1>1, <2>1
  <2> QED
    BY <1>0, <2>2, <2>3, SayKeeps, SaysFacts
<1> QED
  BY <1>2, <1>3 DEF PerStatementExec

\* The counter and the engine move together, or the report names neither.
LEMMA PerStatementCommitKeeps == ASSUME WritesInv, PerStatementCommit PROVE WritesInv'
<1>0. job.op = "write" /\ job.pc = "commit" /\ Rest
  BY DEF PerStatementCommit, Writing
<1>1. /\ wrote \in WroteRec /\ run.k \in Nat /\ run.k > 0 /\ Len(Script) \in Nat
      /\ wrote.kept = 1..(run.k - 1) /\ wrote.applied = run.k - 1 /\ run.k <= Len(Script)
      /\ wrote.tx = {run.k} /\ HasDDL(Script)
  BY <1>0, WriteState
<1>2. CASE Counted(wrote.kept \cup wrote.tx) /\ UNCHANGED faults
  <2>1. /\ run' \in [req : Reqs, todo : SUBSET AllFiles, k : Nat \ {0}]
        /\ run'.todo = run.todo /\ run'.req = run.req /\ run'.k = run.k + 1
    BY <1>2, NextK DEF WritesInv, Counted
  <2>2. Script' = Script /\ (HasDDL(Script)' <=> HasDDL(Script))
    BY <2>1 DEF Script, HasDDL
  <2>3. job' \in JobRec /\ job'.op = "write" /\ job'.pc = "begin"
    BY <1>0, <1>2, JobMoves DEF WritesInv, BackupsInv, Counted, To, JobPcs
  <2>4. /\ wrote' \in WroteRec /\ wrote'.kept = wrote.kept \cup wrote.tx
        /\ wrote'.applied = wrote.applied + 1 /\ wrote'.tx = {} /\ wrote'.said = wrote.said
    <3>1. /\ wrote.kept \cup wrote.tx \in SUBSET Nat /\ wrote.applied + 1 \in Nat
          /\ {} \in SUBSET Nat
      BY <1>1 DEF WroteRec
    <3> QED
      BY <1>1, <1>2, <3>1 DEF WroteRec, Counted
  <2>5. wrote'.kept = 1..(run'.k - 1) /\ wrote'.applied = run'.k - 1
    BY <1>1, <2>1, <2>4
  <2>6. WriteFits'
    BY <1>1, <2>1, <2>2, <2>3, <2>4, <2>5 DEF WriteFits, StepsFit
  <2>7. wrote'.said = "none"
    BY <1>0, <2>4 DEF WritesInv, RunFits
  <2>8. ReportIsTrue'
    BY <1>1, <2>2, <2>7 DEF ReportIsTrue
  <2> QED
    BY <1>0, <1>2, <2>1, <2>3, <2>4, <2>6, <2>7, <2>8, WriteStepKeeps
<1>3. CASE CommitFails("commit failed")
  <2>1. PICK kept \in SUBSET Nat, tx \in SUBSET Nat : kept = wrote.kept /\ tx = wrote.tx
    BY <1>1 DEF WroteRec
  <2>2. /\ Say("commit failed", kept, {}) \/ Say("commit failed", kept \cup tx, tx)
        /\ faults' \in {faults, faults + 1}
    BY <1>3, <2>1 DEF CommitFails, Trouble
  <2>3. kept \ {} = 1..wrote.applied /\ (kept \cup tx) \ tx = 1..wrote.applied
    BY <1>1, <2>1
  <2>4. CASE Say("commit failed", kept, {})
    BY <1>0, <1>1, <2>2, <2>3, <2>4, SayKeeps, SaysFacts
  <2>5. CASE Say("commit failed", kept \cup tx, tx)
    <3>1. kept \cup tx \in SUBSET Nat
      OBVIOUS
    <3> QED
      BY <1>0, <1>1, <2>2, <2>3, <2>5, <3>1, SayKeeps, SaysFacts
  <2> QED
    BY <2>2, <2>4, <2>5
<1> QED
  BY <1>2, <1>3 DEF PerStatementCommit

LEMMA PerStatementEndKeeps == ASSUME WritesInv, PerStatementEnd PROVE WritesInv'
<1>0. /\ job.op = "write" /\ job.pc = "begin" /\ Rest /\ HasDDL(Script) /\ faults' = faults
      /\ run.k > Len(Script) /\ Say("committed", wrote.kept, {})
  BY DEF PerStatementEnd, Writing
<1>1. PICK kept \in SUBSET Nat : kept = wrote.kept /\ kept = DOMAIN Script
  BY <1>0, WriteState DEF WroteRec
<1>2. Say("committed", kept, {})
  BY <1>0, <1>1
<1> QED
  BY <1>0, <1>1, <1>2, SayKeeps, SaysFacts

LEMMA WriteReportKeeps == ASSUME WritesInv, WriteReport PROVE WritesInv'
BY EndJobKeeps DEF WriteReport

\* A kill leaves what the engine committed, and no job.
LEMMA KillAllKeeps == ASSUME WritesInv, KillAll PROVE WritesInv'
<1>0. /\ BackupsInv /\ WritesTypeOK /\ TableFits /\ RowMeansComplete /\ BackupsTypeOK
      /\ Kill /\ pend' = NoReq /\ run' = NoRun /\ wrote' = Fresh
      /\ UNCHANGED <<dir, table, hist, done>>
  BY DEF WritesInv, BackupsInv, KillAll
<1>1. BackupsInv' /\ job'.op = "none"
  BY <1>0, KillKeeps, JobMoves DEF Kill
<1>2. WritesTypeOK'
  BY <1>0, NoRunFacts DEF WritesTypeOK
<1>3. RunFits' /\ TableFits'
  BY <1>0, <1>1, NoRunFacts DEF RunFits, TableFits
<1>4. TodoFits' /\ PrefixDone'
  BY <1>0, <1>1, NoRunFacts DEF TodoFits, PrefixDone
<1>5. RowMeansComplete' /\ ReportIsTrue' /\ WriteFits'
  BY <1>0, <1>1, SilentIsTrue DEF RowMeansComplete
<1> QED
  BY <1>1, <1>2, <1>3, <1>4, <1>5 DEF WritesInv

\* A job of Backups is neither a write nor a migration, at both ends of a step.
LEMMA BackupStepJob ==
  ASSUME BackupsTypeOK, BackupStep
  PROVE  job.op \notin {"migrate", "write"} /\ job'.op \notin {"migrate", "write"}
<1>1. NoJob.op = "none" /\ \A pc \in JobPcs : [job EXCEPT !.pc = pc].op = job.op
  BY JobMoves
<1>2. CASE BackupBegin \/ (\E l \in 0..2 : NBackupBegin(l)) \/ TestBegin \/ RetentionBegin
  BY <1>1, <1>2 DEF BackupBegin, NBackupBegin, TestBegin, RetentionBegin, Idle, Start, Fail
<1>3. CASE BackupReturns \/ TestRestore
  BY <1>1, <1>3 DEF BackupReturns, TestRestore, To, Fail, JobPcs
<1>4. CASE BackupRegister \/ TestRegister
  BY <1>1, <1>4 DEF BackupRegister, TestRegister, Register, Done, Fail
<1>5. CASE NightlyBegin \/ DiffSchema \/ RetentionEnd
  BY <1>1, <1>5 DEF NightlyBegin, DiffSchema, RetentionEnd, Idle
<1>6. CASE RetentionRemove
  BY <1>1, <1>6 DEF RetentionRemove, To, JobPcs
<1>7. CASE RetentionDrop
  <2>1. \A e : [job EXCEPT !.pc = "remove", !.plan = @ \ {e}].op = job.op
    BY DEF BackupsTypeOK, JobRec
  <2> QED
    BY <1>1, <1>7, <2>1 DEF RetentionDrop, Fail
<1> QED
  BY <1>2, <1>3, <1>4, <1>5, <1>6, <1>7 DEF BackupStep

LEMMA BackupsMoveKeeps ==
  ASSUME WritesInv, BackupStep \/ Tick, UNCHANGED dvars PROVE WritesInv'
<1>0. /\ BackupsInv /\ WritesTypeOK /\ RunFits /\ TableFits /\ TodoFits /\ PrefixDone
      /\ RowMeansComplete /\ ReportIsTrue /\ WriteFits /\ BackupsTypeOK
      /\ UNCHANGED <<dir, table, hist, done, pend, run, wrote>>
  BY DEF WritesInv, BackupsInv, dvars
<1>1. BackupsInv'
  BY <1>0, BackupStepKeeps, TickKeeps
<1>2. \/ job' = job
      \/ job.op \notin {"migrate", "write"} /\ job'.op \notin {"migrate", "write"}
  BY <1>0, BackupStepJob DEF Tick
<1>3. WritesTypeOK'
  BY <1>0 DEF WritesTypeOK
<1>4. RunFits' /\ TableFits'
  BY <1>0, <1>2 DEF RunFits, TableFits
<1>5. TodoFits' /\ PrefixDone'
  BY <1>0, <1>2 DEF TodoFits, PrefixDone, FirstOf
<1>6. RowMeansComplete' /\ ReportIsTrue'
  BY <1>0 DEF RowMeansComplete, ReportIsTrue, Script, HasDDL
<1>7. WriteFits'
  BY <1>0, <1>2 DEF WriteFits, AtomicFits, StepsFit, Script, HasDDL
<1> QED
  BY <1>1, <1>3, <1>4, <1>5, <1>6, <1>7 DEF WritesInv


-----------------------------------------------------------------------------
LEMMA WritesInvInit == Init => WritesInv
<1> SUFFICES ASSUME Init PROVE WritesInv
  OBVIOUS
<1>1. BackupsInv
  <2>1. /\ day = 0 /\ files = <<>> /\ catalog = {} /\ stored = {} /\ rows = 0 /\ copy = 0
        /\ nightly = 0 /\ job = NoJob /\ faults = 0
    BY DEF Init, SInit
  <2>2. files \in Seq(FileRec) /\ DOMAIN files = {}
    BY <2>1
  <2>3. NoJob \in JobRec /\ NoJob.op = "none"
    BY DEF NoJob, JobRec, JobOps, JobPcs
  <2>4. BackupsTypeOK
    BY <2>1, <2>2, <2>3 DEF BackupsTypeOK
  <2>5. CatalogInv
    BY <2>1, <2>2 DEF CatalogInv, BornInTime, RowsFit, RowsDiffer, Chained, YoungIsKept
  <2>6. JobFits /\ GoneFits
    BY <2>1, <2>3 DEF JobFits, GoneFits
  <2> QED
    BY <2>4, <2>5, <2>6 DEF BackupsInv
<1>2. /\ dir \in Dirs /\ table = FALSE /\ hist = {} /\ done = [s \in AllStmts |-> 0]
      /\ pend = NoReq /\ run = NoRun /\ wrote = Fresh /\ job.op = "none"
  BY DEF Init, SInit, AllStmts, NoJob
<1>3. WritesTypeOK
  <2>1. table \in BOOLEAN /\ done \in [AllStmts -> Nat]
    BY <1>2
  <2> QED
    BY <1>2, <2>1, NoRunFacts DEF WritesTypeOK
<1>4. RunFits /\ TableFits
  BY <1>2, NoRunFacts DEF RunFits, TableFits
<1>5. TodoFits /\ PrefixDone
  BY <1>2, NoRunFacts DEF TodoFits, PrefixDone
<1>6. RowMeansComplete /\ ReportIsTrue /\ WriteFits
  <2>1. wrote.kept = {} /\ wrote.said = "none"
    BY <1>2 DEF Fresh
  <2> QED
    BY <1>2, <2>1 DEF RowMeansComplete, ReportIsTrue, WriteFits
<1> QED
  BY <1>1, <1>3, <1>4, <1>5, <1>6 DEF WritesInv

LEMMA WritesInvNext == WritesInv /\ [Next]_vars => WritesInv'
<1> SUFFICES ASSUME WritesInv, [Next]_vars PROVE WritesInv'
  OBVIOUS
<1>1. CASE (BackupStep \/ Tick) /\ UNCHANGED dvars
  BY <1>1, BackupsMoveKeeps
<1>2. CASE \/ \E b \in BOOLEAN : RequestMigration(b)
           \/ \E s \in Scripts : RequestWrite(s)
           \/ Approve \/ Edit
  BY <1>2, RequestMigrationKeeps, RequestWriteKeeps, ApproveKeeps, EditKeeps
<1>3. CASE MigrateCheck \/ MigrateBoot \/ MigrateBaseline
  BY <1>3, MigrateCheckKeeps, MigrateBootKeeps, MigrateBaselineKeeps
<1>4. CASE MigrateStmt \/ MigrateRow \/ MigrateEnd
  BY <1>4, MigrateStmtKeeps, MigrateRowKeeps, MigrateEndKeeps
<1>5. CASE \/ WriteBegin \/ AtomicStmt \/ AtomicCommit
           \/ PerStatementExec \/ PerStatementCommit \/ PerStatementEnd \/ WriteReport
  BY <1>5, WriteBeginKeeps, AtomicStmtKeeps, AtomicCommitKeeps, PerStatementExecKeeps,
     PerStatementCommitKeeps, PerStatementEndKeeps, WriteReportKeeps
<1>6. CASE KillAll
  BY <1>6, KillAllKeeps
<1>7. CASE UNCHANGED vars
  <2>1. UNCHANGED <<svars, table, hist, done, run, wrote>> /\ dir' = dir /\ pend' = pend
    BY <1>7 DEF vars, dvars
  <2> QED
    BY <2>1, AskKeeps DEF WritesInv, WritesTypeOK
<1> QED
  BY <1>1, <1>2, <1>3, <1>4, <1>5, <1>6, <1>7 DEF Next

\* The invariant of backups, restore tests, retention, migrations and scripts.
THEOREM WritesInvariant == Spec => []WritesInv
BY WritesInvInit, WritesInvNext, PTL DEF Spec

\* A catalog row stands for a file that was whole, and an nbackup for its base.
THEOREM CatalogIsWhole == Spec => []VerifiedIsWhole
<1>1. WritesInv => VerifiedIsWhole
  BY DEF WritesInv, BackupsInv, CatalogInv, RowsFit, RowFits, Chained, HasBase,
     VerifiedIsWhole
<1> QED
  BY <1>1, WritesInvariant, PTL

\* Retention removes verified .fbk files past the cut-off and nothing else.
THEOREM RetentionKeepsYoung == Spec => []YoungIsKept
<1>1. WritesInv => YoungIsKept
  BY DEF WritesInv, BackupsInv, CatalogInv
<1> QED
  BY <1>1, WritesInvariant, PTL

\* Without a fault, a row outlives its file only if the file was tested twice.
THEOREM RetentionLeavesNoRow == Spec => []GoneIsExplained
<1>1. WritesInv => GoneIsExplained
  BY DEF WritesInv, BackupsInv, GoneFits, GoneIsExplained, Idle
<1> QED
  BY <1>1, WritesInvariant, PTL

\* A history row means that every statement of its file has run.
THEOREM HistoryIsComplete == Spec => []RowMeansComplete
<1>1. WritesInv => RowMeansComplete
  BY DEF WritesInv
<1> QED
  BY <1>1, WritesInvariant, PTL

\* What fb_write reports is what the engine holds.
THEOREM WriteReportsTruth == Spec => []ReportIsTrue
<1>1. WritesInv => ReportIsTrue
  BY DEF WritesInv
<1> QED
  BY <1>1, WritesInvariant, PTL

\* Only MigrateStmt runs a migration statement, only MigrateRow and MigrateBaseline
\* write a row, and what they apply is next in the approved order.
LEMMA StepAppliesNext == WritesInv /\ [Next]_vars => [AppliesNext]_vars
<1> SUFFICES ASSUME WritesInv, Next PROVE AppliesNext
  OBVIOUS
<1>0. WritesTypeOK /\ TableFits /\ TodoFits
  BY DEF WritesInv
<1>1. CASE UNCHANGED <<hist, done>>
  BY <1>1 DEF AppliesNext
<1>2. CASE MigrateStmt
  <2>1. hist' = hist /\ (done' = done \/ \E f \in run.todo :
                             done' = [done EXCEPT ![<<f.v, f.sum, run.k>>] = @ + 1])
    BY <1>2 DEF MigrateStmt
  <2>2. CASE done' = done
    BY <2>1, <2>2 DEF AppliesNext
  <2>3. ASSUME NEW f \in run.todo, done' = [done EXCEPT ![<<f.v, f.sum, run.k>>] = @ + 1],
               NEW s \in DOMAIN done, done'[s] # done[s]
        PROVE  <<s[1], s[2]>> \in run.req.manifest /\ \A q \in hist : q[1] < s[1]
    <3>1. s = <<f.v, f.sum, run.k>>
      BY <2>3
    <3>2. s[1] = f.v /\ s[2] = f.sum
      BY <3>1
    <3> QED
      BY <1>0, <2>3, <3>2 DEF TodoFits
  <2> QED
    BY <2>1, <2>2, <2>3 DEF AppliesNext
<1>3. CASE MigrateRow
  <2>1. /\ done' = done
        /\ (hist' = hist \/ \E f \in run.todo : hist' = hist \cup {<<f.v, f.sum>>})
    BY <1>3 DEF MigrateRow
  <2>2. \A f \in run.todo, q \in hist : q[1] < <<f.v, f.sum>>[1]
    BY <1>0 DEF TodoFits
  <2> QED
    BY <2>1, <2>2 DEF AppliesNext
<1>4. CASE MigrateBaseline
  BY <1>0, <1>4 DEF MigrateBaseline, TableFits, AppliesNext
<1> QED
  <2>1. ASSUME Next, ~MigrateStmt, ~MigrateRow, ~MigrateBaseline
        PROVE  UNCHANGED <<hist, done>>
    BY <2>1 DEF Next, dvars, RequestMigration, RequestWrite, Approve, Edit, MigrateCheck,
       MigrateBoot, MigrateEnd, WriteBegin, AtomicStmt, AtomicCommit, PerStatementExec,
       PerStatementCommit, PerStatementEnd, WriteReport, KillAll, Rest
  <2> QED
    BY <1>1, <1>2, <1>3, <1>4, <2>1

\* Migrations are applied as approved, in ascending order, each at most once.
THEOREM MigrationsInOrder == Spec => AppliedInOrder
BY WritesInvariant, StepAppliesNext, PTL DEF Spec, AppliedInOrder

=============================================================================
