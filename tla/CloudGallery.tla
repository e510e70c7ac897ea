---------------------------- MODULE CloudGallery ----------------------------
(***************************************************************************)
(* The ArcFace server (cloud/main.py) and its gallery (cloud/gallery.py),  *)
(* with the script that fills the gallery's folder (enroll_gallery.py).    *)
(*                                                                         *)
(* An embedding is a vector of unit length over a few axes, in             *)
(* thousandths; what ArcFace makes of a picture is an input.  A request is *)
(* one step: verify_image awaits nothing but the upload.                   *)
(***************************************************************************)
EXTENDS Integers, SequencesExt

CONSTANTS
  Enrollee,       \* identities, as numbers in the order of their file names
  Sample,      \* the embeddings ArcFace may make of a picture
  Axes,        \* 1 .. the dimension
  MaxEnrolled  \* bound: changes made to the gallery or its folder

ASSUME GalleryAssumption == Enrollee \subseteq Nat /\ Sample \subseteq [Axes -> 0 .. 1000]

VARIABLES
  entries,   \* _identities and _embeddings
  matrix,    \* _matrix, or <<>> where it was never built
  dirty,     \* _matrix_dirty
  files,     \* the folder: an embedding, Absent, or Damaged
  response,  \* the VerificationResponse of this step, with the embedding it is about
  given,     \* history: the embeddings of each identity since the server's start
  enrolled   \* those changes so far

galleryVars == <<entries, matrix, dirty, files, response, given, enrolled>>

Absent == <<>>
Damaged == <<-1>>

\* Of the lengths that come up: sums of a few vectors of length 1000.
RootOf(n) == CHOOSE k \in 900 .. 2000 : k * k <= n /\ n < (k + 1) * (k + 1)

Dot(u, v) == SumFunction([a \in Axes |-> u[a] * v[a]]) \div 1000

\* v / |v|.
Normal(v) ==
  LET length == RootOf(SumFunction([a \in Axes |-> v[a] * v[a]]))
  IN  [a \in Axes |-> (1000 * v[a]) \div length]

VecSum(u, v) == [a \in Axes |-> u[a] + v[a]]

At(es, who) == {i \in DOMAIN es : es[i].who = who}

\* FaceGallery.enroll: of an identity that is there the sum of the old
\* embedding, of unit length, and the new one.
Enrolled(es, who, v) ==
  IF At(es, who) # {}
  THEN [i \in DOMAIN es |->
          IF es[i].who = who THEN [es[i] EXCEPT !.vec = Normal(VecSum(@, v))] ELSE es[i]]
  ELSE Append(es, [who |-> who, vec |-> v])

\* load_from_disk: file by file in order, a damaged one is passed over.
Loaded ==
  FoldLeft(LAMBDA es, who : Enrolled(es, who, files[who]), <<>>,
           SetToSortSeq({w \in Enrollee : files[w] \notin {Absent, Damaged}},
                        LAMBDA a, b : a < b))

NoResponse == [probe |-> Absent, verified |-> FALSE, identity |-> 0, score |-> 0,
             agree |-> "none", size |-> 0]

\* lifespan: the server starts, or starts again, with what is in the folder.
\* Nothing saves what came by POST /enroll.
Start ==
  /\ entries' = Loaded
  /\ matrix' = <<>> /\ dirty' = TRUE
  /\ given' = [w \in Enrollee |-> {files[w]} \ {Absent, Damaged}]
  /\ response' = NoResponse
  /\ UNCHANGED <<files, enrolled>>

GalleryInit ==
  /\ entries = <<>> /\ matrix = <<>> /\ dirty = TRUE
  /\ files = [w \in Enrollee |-> Absent]
  /\ response = NoResponse
  /\ given = [w \in Enrollee |-> {}] /\ enrolled = 0

\* Mutant: the matrix is not rebuilt for an identity that was there.
EnrollKeepsMatrix(who, v) ==
  /\ enrolled < MaxEnrolled
  /\ entries' = Enrolled(entries, who, v)
  /\ dirty' = (dirty \/ At(entries, who) = {})
  /\ given' = [given EXCEPT ![who] = @ \cup {v}] /\ enrolled' = enrolled + 1
  /\ response' = NoResponse
  /\ UNCHANGED <<matrix, files>>

\* POST /enroll.  An embedding of another dimension is refused with 422.
Enroll(who, v) ==
  /\ enrolled < MaxEnrolled
  /\ entries' = Enrolled(entries, who, v)
  /\ dirty' = TRUE
  /\ given' = [given EXCEPT ![who] = @ \cup {v}] /\ enrolled' = enrolled + 1
  /\ response' = NoResponse
  /\ UNCHANGED <<matrix, files>>

\* enroll_gallery: the mean of the pictures in which a face is found; an
\* identity without any keeps the file it had.  A file may also be damaged, or
\* be of another dimension.
EnrollOffline(who) ==
  /\ enrolled < MaxEnrolled /\ enrolled' = enrolled + 1
  /\ \E pictures \in [1 .. 2 -> Sample \cup {Absent}] :
       LET found == SelectSeq(pictures, LAMBDA v : v # Absent)
       IN  files' = IF found = <<>> THEN files
                    ELSE [files EXCEPT ![who] = Normal(FoldLeft(VecSum, [a \in Axes |-> 0], found))]
  /\ response' = NoResponse
  /\ UNCHANGED <<entries, matrix, dirty, given>>

Damage(who) ==
  /\ enrolled < MaxEnrolled /\ enrolled' = enrolled + 1
  /\ files' = [files EXCEPT ![who] = Damaged]
  /\ response' = NoResponse
  /\ UNCHANGED <<entries, matrix, dirty, given>>

\* _get_matrix.
Matrix ==
  IF dirty \/ matrix = <<>> THEN [i \in DOMAIN entries |-> entries[i].vec] ELSE matrix

\* The first of the largest, as argmax.
Best(m, v) ==
  CHOOSE i \in DOMAIN m :
    \A j \in DOMAIN m : Dot(m[j], v) < Dot(m[i], v) \/ (Dot(m[j], v) = Dot(m[i], v) /\ i <= j)

\* VERIFICATION_THRESHOLD, in thousandths.
Accept == 350

\* "identity if verified else None".
NamedIf(who, score) == IF score >= Accept THEN who ELSE 0

\* POST /verify/image, for a picture in which ArcFace finds the face v; the
\* edge's own candidate is compared with the nearest identity even where that
\* is not near enough.
VerifyImage(v, candidate) ==
  LET m == Matrix
      i == Best(m, v)
      score == IF m = <<>> THEN 0 ELSE Dot(m[i], v)
      who == IF m = <<>> THEN 0 ELSE entries[i].who
  IN  /\ matrix' = IF entries = <<>> THEN matrix ELSE m
      /\ dirty' = (dirty /\ entries = <<>>)
      /\ response' =
           [probe |-> v, verified |-> score >= Accept, identity |-> NamedIf(who, score),
            score |-> score,
            agree |-> IF candidate = 0 \/ who = 0 THEN "none"
                      ELSE IF candidate = who THEN "yes" ELSE "no",
            size |-> Len(entries)]
      /\ UNCHANGED <<entries, files, given, enrolled>>

\* The same, where ArcFace finds no face.  Metadata that is not JSON, an empty
\* upload or one that is no picture is answered 422 before this.
VerifyFaceless ==
  /\ response' = [NoResponse EXCEPT !.size = Len(entries)]
  /\ UNCHANGED <<entries, matrix, dirty, files, given, enrolled>>

GalleryNext ==
  \/ Start
  \/ \E who \in Enrollee, v \in Sample : Enroll(who, v)
  \/ \E who \in Enrollee : EnrollOffline(who) \/ Damage(who)
  \/ \E v \in Sample, candidate \in Enrollee \cup {0} : VerifyImage(v, candidate)
  \/ VerifyFaceless

-----------------------------------------------------------------------------
(* Properties.                                                             *)

Length(v) == Dot(v, v)

\* One entry for each identity and all of about unit length, so that a dot
\* product is a cosine and scores of different entries compare
\* (gallery.py:55-92).
GalleryTypeOK ==
  /\ \A i, j \in DOMAIN entries : entries[i].who = entries[j].who => i = j
  /\ \A i \in DOMAIN entries :
       entries[i].who \in Enrollee /\ Length(entries[i].vec) \in 990 .. 1001
  /\ dirty \in BOOLEAN /\ enrolled \in 0 .. MaxEnrolled

\* An answer is about the gallery as it is: a name is given only to a face at
\* least as near as the threshold, the entry named is the nearest there is, and
\* no face that is that near to an entry is left unverified, however enrolments
\* and searches took turns (gallery.py:94-123, 193-200, main.py:217-239).
AnswersCurrent ==
  [][response' # response /\ response'.probe # Absent =>
       LET near == {i \in DOMAIN entries : Dot(entries[i].vec, response'.probe) >= Accept}
       IN  /\ response'.verified <=> near # {}
           /\ response'.identity # 0 =>
                \E i \in near :
                  /\ entries[i].who = response'.identity
                  /\ \A j \in near : Dot(entries[j].vec, response'.probe)
                                       <= Dot(entries[i].vec, response'.probe)]_galleryVars

\* What the rounding of a few sums can take away from a cosine, in thousandths.
Rounding == 10

\* Whoever was enrolled since the server started, by POST or by a readable file,
\* is in the gallery, and nobody else is; and the embedding that is kept of a
\* person lies among the embeddings that were given for that person: to each of
\* them it is at least as similar as the least similar other one is
\* (gallery.py:55-92, :139-172).
EntriesAmongGiven ==
  /\ {entries[i].who : i \in DOMAIN entries} = {who \in Enrollee : given[who] # {}}
  /\ \A i \in DOMAIN entries :
       LET mine == given[entries[i].who]
       IN  \A v \in mine : \E u \in mine : Dot(entries[i].vec, v) >= Dot(u, v) - Rounding

\* Whoever was enrolled is in the gallery as one of their own faces might be, and
\* every search looks at the gallery as it is.
EnrolledIsKnown == [](GalleryTypeOK /\ EntriesAmongGiven) /\ AnswersCurrent
=============================================================================
