-------------------------------- MODULE Gallery --------------------------------
(***************************************************************************)
(* The images of a store's products.  A request looks first and changes    *)
(* the rows in a transaction later; transactions of several requests may   *)
(* overlap, and each statement sees what was committed when it began.      *)
(***************************************************************************)
EXTENDS Naturals, FiniteSets

CONSTANTS
  Pictured,  \* products, whose rows are never deleted
  NoPicture, \* the product of an image row that is not there
  Images,
  NoId,
  Artists,   \* requests under way at the same time
  Unasked    \* a body that does not say whether the image is the main one

ASSUME GalleryAssumption ==
  /\ NoPicture \notin Pictured
  /\ NoId \notin Images
  /\ IsFiniteSet(Images)
  /\ Unasked \notin BOOLEAN

VARIABLES
  image,   \* ProductImage rows, each with its asset
  touch,   \* per artist, the request under way
  blurred  \* history: products whose images two requests changed at once, or left without a main one on request

galleryVars == <<image, touch, blurred>>

\* Rows are numbered by age, from the oldest that is there.
NoImage == [of |-> NoPicture, primary |-> FALSE, sort |-> 0, born |-> 0]
NoTouch == [pc |-> "idle", of |-> NoPicture, id |-> NoId, row |-> NoImage,
            asked |-> Unasked, seen |-> {}]

ImageRows == [of : Pictured \cup {NoPicture}, primary : BOOLEAN,
              sort : 0..Cardinality(Images), born : 0..Cardinality(Images)]

GalleryTypeOK ==
  /\ image \in [Images -> ImageRows]
  /\ touch \in [Artists ->
       [pc : {"idle", "upload", "insert", "alter", "remove"}, of : Pictured \cup {NoPicture},
        id : Images \cup {NoId}, row : ImageRows,
        asked : BOOLEAN \cup {Unasked}, seen : SUBSET Images]]
  /\ blurred \subseteq Pictured

GalleryInit ==
  /\ image = [i \in Images |-> NoImage]
  /\ touch = [e \in Artists |-> NoTouch]
  /\ blurred = {}

ImagesOf(p) == {i \in Images : image[i].of = p}
TouchAt(e, pc) == touch[e].pc = pc
TouchGoes(e, next) == touch' = [touch EXCEPT ![e] = next]

\* A request of the product's images is between its first look and its end.
Retouching(p) == {e \in Artists : touch[e].of = p}

\* Two such requests at once leave the main image to the order they end in.
Blur(e, p) == blurred' = IF Retouching(p) \ {e} # {} THEN blurred \cup {p} ELSE blurred

\* uploadProductImage counts the images: the first one is the main one, unless
\* the body says.
BeginUpload(e, p, asked) ==
  LET n == Cardinality(ImagesOf(p)) IN
  /\ TouchAt(e, "idle")
  /\ TouchGoes(e, [NoTouch EXCEPT !.pc = "upload", !.of = p,
       !.row = [of |-> p, primary |-> IF asked = Unasked THEN n = 0 ELSE asked,
                  sort |-> n, born |-> 0]])
  /\ Blur(e, p)
  /\ UNCHANGED image

\* The transaction's first statement finds the images it will unset ...
BeginInsert(e) ==
  /\ TouchAt(e, "upload")
  /\ TouchGoes(e, [touch[e] EXCEPT !.pc = "insert",
       !.seen = IF touch[e].row.primary THEN ImagesOf(touch[e].of) ELSE {}])
  /\ UNCHANGED <<image, blurred>>

Unset(images) ==
  [j \in Images |-> IF j \in images THEN [image[j] EXCEPT !.primary = FALSE] ELSE image[j]]

\* ... and at its end they are unset and the new one is there.
CommitInsert(e) ==
  LET p == touch[e].of IN
  /\ TouchAt(e, "insert")
  /\ LET own == {i \in Images :  \* rows no request names
                  image[i] = NoImage /\ \A o \in Artists : i # touch[o].id /\ i \notin touch[o].seen}
         i == CHOOSE j \in own : TRUE IN
     /\ own # {}
     /\ \E sort \in {touch[e].row.sort, 0} :
          image' = [Unset(touch[e].seen) EXCEPT ![i] =
            [touch[e].row EXCEPT !.sort = sort,
              !.born = Cardinality({j \in Images : image[j] # NoImage})]]
  /\ blurred' = IF ImagesOf(p) = {} /\ ~touch[e].row.primary
                THEN blurred \cup {p} ELSE blurred
  /\ TouchGoes(e, NoTouch)

\* updateProductImage: the image was found, and the others' main flag is unset.
BeginAlter(e, i, asked) ==
  LET p == image[i].of IN
  /\ TouchAt(e, "idle")
  /\ image[i] # NoImage
  /\ TouchGoes(e, [NoTouch EXCEPT !.pc = "alter", !.of = p, !.id = i,
       !.asked = asked, !.seen = IF asked = TRUE THEN ImagesOf(p) \ {i} ELSE {}])
  /\ Blur(e, p)
  /\ UNCHANGED image

\* The update of a row removed meanwhile fails, and the others stay as they were.
CommitAlter(e) ==
  LET i == touch[e].id
      asked == touch[e].asked IN
  /\ TouchAt(e, "alter")
  /\ IF image[i] = NoImage THEN UNCHANGED <<image, blurred>>
     ELSE /\ \E sort \in {image[i].sort, 0} :
               image' = [Unset(touch[e].seen) EXCEPT ![i] = [image[i] EXCEPT
                 !.primary = IF asked = Unasked THEN @ ELSE asked, !.sort = sort]]
          /\ blurred' = IF asked = FALSE /\ image[i].primary
                        THEN blurred \cup {image[i].of} ELSE blurred
  /\ TouchGoes(e, NoTouch)

BeginRemove(e, i) ==
  /\ TouchAt(e, "idle")
  /\ image[i] # NoImage
  /\ TouchGoes(e, [NoTouch EXCEPT !.pc = "remove", !.of = image[i].of, !.id = i])
  /\ Blur(e, image[i].of)
  /\ UNCHANGED image

\* First in the gallery: by its place, then by its age.
Precedes(i, j) ==
  image[i].sort < image[j].sort \/ (image[i].sort = image[j].sort /\ image[i].born <= image[j].born)

\* Mutant: the main image goes and no other takes its place.
CommitRemoveOnly(e) ==
  /\ TouchAt(e, "remove")
  /\ image' = [image EXCEPT ![touch[e].id] = NoImage]
  /\ TouchGoes(e, NoTouch)
  /\ UNCHANGED blurred

\* deleteProductImage: with the main image gone the first of the rest is it.
CommitRemove(e) ==
  LET i == touch[e].id
      rest == ImagesOf(touch[e].of) \ {i}
      first == {j \in rest : image[i].primary /\ \A k \in rest : Precedes(j, k)} IN
  /\ TouchAt(e, "remove")
  /\ IF image[i] = NoImage THEN UNCHANGED image
     ELSE image' = [j \in Images |-> IF j = i THEN NoImage
                     ELSE [image[j] EXCEPT
                       !.primary = @ \/ j \in first,
                       !.born = IF image[j].born > image[i].born THEN @ - 1 ELSE @]]
  /\ TouchGoes(e, NoTouch)
  /\ UNCHANGED blurred

-------------------------------------------------------------------------------
GalleryNext ==
  \/ \E e \in Artists :
       \/ BeginInsert(e) \/ CommitInsert(e) \/ CommitAlter(e) \/ CommitRemove(e)
       \/ \E p \in Pictured, asked \in BOOLEAN \cup {Unasked} : BeginUpload(e, p, asked)
       \/ \E i \in Images :
            \/ BeginRemove(e, i)
            \/ \E asked \in BOOLEAN \cup {Unasked} : BeginAlter(e, i, asked)

GallerySpec == GalleryInit /\ [][GalleryNext]_galleryVars

-------------------------------------------------------------------------------
\* A product with images has one main image, unless two requests changed its
\* images at once or a merchant unset it.
OneMainImage ==
  \A p \in Pictured \ blurred :
    ImagesOf(p) # {} => Cardinality({i \in ImagesOf(p) : image[i].primary}) = 1
===============================================================================
