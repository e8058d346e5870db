--------------------------- MODULE PostForm_proofs ---------------------------
(***************************************************************************)
(* The form's invariants for every set of photos and categories: FormInv   *)
(* is inductive, and the properties follow from it.                        *)
(***************************************************************************)
EXTENDS PostForm, TLAPS

(* What checkaddPhoto makes of a row with a newly picked photo.            *)
LEMMA PickedRow ==
    ASSUME ConstantsAssumption,
           NEW s \in Seq(Images), NEW n \in 1..MaxPhotos, n = Len(s),
           \A i \in 1..(n - 1) : s[i] # Plus,
           n = 1 => s[1] # Plus,
           \A i \in 1..n : s[i] \notin Categories
    PROVE  /\ WithPlus(s) \in Seq(Images)
           /\ Len(WithPlus(s)) \in 2..MaxPhotos
           /\ \A i \in 1..(Len(WithPlus(s)) - 1) : WithPlus(s)[i] # Plus
           /\ \/ WithPlus(s)[Len(WithPlus(s))] = Plus
              \/ Len(WithPlus(s)) >= MaxPhotos
           /\ \A i \in 1..Len(WithPlus(s)) : WithPlus(s)[i] \notin Categories
  <1> PICK t : t = WithPlus(s)
    OBVIOUS
  <1>1. Plus \in Images /\ Plus \notin Categories
    BY DEF ConstantsAssumption, Images
  <1>2. CASE s[n] # Plus /\ n < MaxPhotos
    <2>1. t = Append(s, Plus)
      BY <1>2 DEF WithPlus
    <2>2. /\ t \in Seq(Images) /\ Len(t) = n + 1 /\ t[n + 1] = Plus
          /\ \A i \in 1..n : t[i] = s[i]
      BY <1>1, <2>1
    <2>3. \A i \in 1..n : s[i] # Plus
      BY <1>2
    <2> QED
      BY <1>1, <1>2, <2>2, <2>3 DEF MaxPhotos
  <1>3. CASE ~ (s[n] # Plus /\ n < MaxPhotos)
    <2>1. t = s
      BY <1>3 DEF WithPlus
    <2>2. n # 1
      BY <1>3 DEF MaxPhotos
    <2> QED
      BY <1>3, <2>1, <2>2 DEF MaxPhotos
  <1> QED
    BY <1>2, <1>3

(* What viewDidAppear makes of a row of picked photos that has its tile.   *)
LEMMA AppearCustom ==
    ASSUME NEW s \in Seq(Images), Len(s) >= 2,
           s[Len(s)] = Plus \/ Len(s) >= MaxPhotos,
           NEW text, Appear(s, TRUE, text)
    PROVE  photos' = s
  <1>1. CASE text = NoCategory
    BY <1>1 DEF Appear
  <1>2. CASE text # NoCategory
    <2>1. photos' = WithPlus(s)
      BY <1>2 DEF Appear
    <2>2. PICK n \in Nat : n = Len(s)
      OBVIOUS
    <2>3. WithPlus(s) = s
      BY <2>2 DEF WithPlus, MaxPhotos
    <2> QED
      BY <2>1, <2>3
  <1> QED
    BY <1>1, <1>2

(* The Post button follows the category and the title.                     *)
LEMMA AppearEnabled ==
    ASSUME FormInv, ConstantsAssumption,
           NEW s, NEW isCustom, NEW text \in Categories \cup {NoCategory},
           Appear(s, isCustom, text)
    PROVE  /\ label' \in Categories \cup {NoCategory}
           /\ enabled' \in BOOLEAN
           /\ enabled' => label' # NoCategory
  BY DEF FormInv, TypeOK, Appear

(* Uncovering the form with the photos it had keeps the row in shape.      *)
LEMMA AppearSame ==
    ASSUME FormInv, ConstantsAssumption,
           NEW text \in Categories \cup {NoCategory},
           Appear(photos, custom, text), custom' = custom
    PROVE  /\ photos' \in Seq(Images)
           /\ Row'
           /\ PlusIsLast'
  <1>1. CASE custom
    <2>1. photos \in Seq(Images) /\ Len(photos) >= 2
      BY <1>1 DEF FormInv, TypeOK, Row
    <2>2. photos[Len(photos)] = Plus \/ Len(photos) >= MaxPhotos
      BY <2>1 DEF FormInv, PlusIsLast, MaxPhotos
    <2>3. custom = TRUE
      BY <1>1 DEF FormInv, TypeOK
    <2>4. photos' = photos
      BY <2>1, <2>2, <2>3, AppearCustom
    <2> QED
      BY <1>1, <2>1, <2>4 DEF FormInv, Row, PlusIsLast, MaxPhotos
  <1>2. CASE ~ custom /\ text = NoCategory
    <2>1. photos' = photos /\ label' = label
      BY <1>2 DEF Appear
    <2> QED
      BY <1>2, <2>1 DEF FormInv, TypeOK, Row, PlusIsLast
  <1>3. CASE ~ custom /\ text # NoCategory
    <2> DEFINE s == [photos EXCEPT ![1] = text]
    <2>1. photos' = WithPlus(s) /\ label' = text
      BY <1>3 DEF Appear
    <2>2. photos = <<Plus>> \/ photos = <<label, Plus>>
      BY <1>3 DEF FormInv, Row
    <2>3. s = <<text>> \/ s = <<text, Plus>>
      BY <2>2
    <2>4. text # Plus /\ text \in Images /\ Plus \in Images
      BY <1>3 DEF ConstantsAssumption, Images
    <2> HIDE DEF s
    <2>5. WithPlus(s) = <<text, Plus>>
      <3>1. CASE s = <<text>>
        <4>1. Len(s) = 1 /\ s[1] = text
          BY <3>1
        <4>2. WithPlus(s) = Append(s, Plus)
          BY <2>4, <4>1 DEF WithPlus, MaxPhotos
        <4> QED
          BY <3>1, <4>2
      <3>2. CASE s = <<text, Plus>>
        <4>1. Len(s) = 2 /\ s[2] = Plus
          BY <3>2
        <4> QED
          BY <3>2, <4>1 DEF WithPlus
      <3> QED
        BY <2>3, <3>1, <3>2
    <2>6. photos' = <<text, Plus>>
      BY <2>1, <2>5
    <2>7. /\ photos' \in Seq(Images) /\ Len(photos') = 2
          /\ photos'[1] = text /\ photos'[2] = Plus
      BY <2>4, <2>6
    <2>8. PlusIsLast'
      BY <2>4, <2>7 DEF PlusIsLast, MaxPhotos
    <2>9. Row'
      BY <1>3, <2>1, <2>6 DEF Row
    <2> QED
      BY <2>7, <2>8, <2>9
  <1> QED
    BY <1>1, <1>2, <1>3

LEMMA InitForm == Init => FormInv
  <1> SUFFICES ASSUME Init PROVE FormInv
    OBVIOUS
  <1>1. photos \in Seq(Images) /\ Len(photos) = 1 /\ photos[1] = Plus
    BY DEF Init, Images
  <1>2. posted \in Seq(Photos \cup Categories) /\ showing = "form"
    BY DEF Init
  <1>3. TypeOK
    BY <1>1, <1>2 DEF Init, TypeOK
  <1>4. Row /\ PlusIsLast
    BY <1>1 DEF Init, Row, PlusIsLast, MaxPhotos
  <1> QED
    BY <1>3, <1>4 DEF Init, FormInv

LEMMA PickForm ==
    ASSUME FormInv, ConstantsAssumption, NEW photo \in Photos, PickPhoto(photo)
    PROVE  FormInv'
  <1> DEFINE s == [photos EXCEPT ![PickedCell] = photo]
             t == WithPlus(s)
  <1>1. /\ photos \in Seq(Images) /\ Len(photos) \in Nat
        /\ PickedCell \in DOMAIN photos /\ custom \in BOOLEAN
        /\ Len(photos) >= 1 /\ Len(photos) <= MaxPhotos
    BY DEF FormInv, TypeOK, Row, PlusIsLast, PickPhoto, PickedCell
  <1>2. photo \in Images /\ photo # Plus /\ photo \notin Categories /\ Plus \in Images
    BY DEF ConstantsAssumption, Images
  <1>3. /\ s \in Seq(Images) /\ Len(s) = Len(photos)
        /\ \A i \in DOMAIN s : s[i] = IF i = PickedCell THEN photo ELSE photos[i]
    BY <1>1, <1>2
  <1>4. \A i \in DOMAIN s : s[i] \notin Categories
    <2> SUFFICES ASSUME NEW i \in DOMAIN s, i # PickedCell
                 PROVE  photos[i] \notin Categories
      BY <1>2, <1>3
    <2>1. CASE custom
      BY <1>1, <1>3, <2>1 DEF FormInv, Row
    <2>2. CASE ~ custom
      <3>1. i # 1 /\ photos \in {<<Plus>>, <<label, Plus>>}
        BY <2>2 DEF FormInv, Row, PickedCell
      <3>2. photos[i] = Plus
        BY <1>1, <1>3, <3>1
      <3> QED
        BY <3>2 DEF ConstantsAssumption
    <2> QED
      BY <2>1, <2>2
  <1>5. \A i \in 1..(Len(s) - 1) : s[i] # Plus
    BY <1>1, <1>2, <1>3 DEF FormInv, PlusIsLast
  <1> HIDE DEF s
  <1>6. /\ t \in Seq(Images) /\ Len(t) \in 2..MaxPhotos
        /\ \A i \in 1..(Len(t) - 1) : t[i] # Plus
        /\ t[Len(t)] = Plus \/ Len(t) >= MaxPhotos
        /\ \A i \in 1..Len(t) : t[i] \notin Categories
    <2>1. PICK n \in 1..MaxPhotos : n = Len(s)
      BY <1>1, <1>3
    <2>2. n = 1 => s[1] # Plus
      <3>1. n = 1 => PickedCell = 1
        <4>1. DOMAIN photos = 1..n
          BY <1>1, <1>3, <2>1
        <4> QED
          BY <1>1, <2>1, <4>1 DEF MaxPhotos
      <3>2. n = 1 => 1 \in DOMAIN s
        BY <1>3, <2>1
      <3> QED
        BY <1>2, <1>3, <3>1, <3>2
    <2>3. \A i \in 1..n : s[i] \notin Categories
      BY <1>3, <1>4, <2>1
    <2> QED
      BY <1>3, <1>5, <2>1, <2>2, <2>3, PickedRow
  <1>7. Appear(t, TRUE, selectedText) /\ custom' = TRUE
    BY DEF PickPhoto, s
  <1> HIDE DEF t
  <1>8. photos' = t
    <2>1. Len(t) >= 2
      BY <1>6 DEF MaxPhotos
    <2> QED
      BY <1>6, <1>7, <2>1, AppearCustom
  <1>9. selectedText \in Categories \cup {NoCategory}
    BY DEF FormInv, TypeOK
  <1>10. /\ label' \in Categories \cup {NoCategory}
         /\ enabled' \in BOOLEAN
         /\ enabled' => label' # NoCategory
    BY <1>7, <1>9, AppearEnabled
  <1>11. TypeOK'
    BY <1>6, <1>7, <1>8, <1>10 DEF FormInv, TypeOK, PickPhoto
  <1>12. Row'
    <2>1. Len(t) >= 2 /\ DOMAIN t = 1..Len(t)
      BY <1>6 DEF MaxPhotos
    <2> QED
      BY <1>6, <1>7, <1>8, <2>1 DEF Row
  <1>13. PlusIsLast'
    BY <1>6, <1>8 DEF PlusIsLast, MaxPhotos
  <1>14. showing' = "form"
    BY DEF PickPhoto
  <1> QED
    BY <1>10, <1>11, <1>12, <1>13, <1>14 DEF FormInv

(* The three ways back to the form that leave the photos as they were.     *)
LEMMA ReturnForm ==
    ASSUME FormInv, ConstantsAssumption,
           NEW text \in Categories \cup {NoCategory},
           Appear(photos, custom, text), showing' = "form", selectedText' = text,
           UNCHANGED <<custom, cell, titled, posted>>
    PROVE  FormInv'
  <1>1. photos' \in Seq(Images) /\ Row' /\ PlusIsLast'
    BY AppearSame
  <1>2. /\ label' \in Categories \cup {NoCategory}
        /\ enabled' \in BOOLEAN
        /\ enabled' => label' # NoCategory
    BY AppearEnabled
  <1> QED
    BY <1>1, <1>2 DEF FormInv, TypeOK

LEMMA PostedForm ==
    ASSUME FormInv, ConstantsAssumption, FinishAddingPost
    PROVE  FormInv'
  <1>1. photos \in Seq(Images) /\ Len(photos) \in Nat /\ Len(photos) >= 2
    BY DEF FormInv, TypeOK, FinishAddingPost
  <1>2. \A i \in 1..(Len(photos) - 1) : photos[i] \in Photos \cup Categories
    BY <1>1 DEF FormInv, PlusIsLast, Images
  <1>3. SubSeq(photos, 1, Len(photos) - 1) \in Seq(Photos \cup Categories)
    BY <1>1, <1>2
  <1>4. posted' \in Seq(Photos \cup Categories)
    BY <1>3 DEF FinishAddingPost, Pictures
  <1> QED
    BY <1>4 DEF FormInv, TypeOK, FinishAddingPost, Row, PlusIsLast

LEMMA NextForm == FormInv /\ ConstantsAssumption /\ [Next]_vars => FormInv'
  <1> SUFFICES ASSUME FormInv, ConstantsAssumption, [Next]_vars
               PROVE  FormInv'
    OBVIOUS
  <1>1. ASSUME NEW i \in DOMAIN photos, SelectPhoto(i) PROVE FormInv'
    BY <1>1 DEF FormInv, TypeOK, SelectPhoto, Row, PlusIsLast
  <1>2. ASSUME NEW photo \in Photos, PickPhoto(photo) PROVE FormInv'
    BY <1>2, PickForm
  <1>3. CASE CancelPicking
    BY <1>3, ReturnForm DEF CancelPicking, FormInv, TypeOK
  <1>4. CASE OpenCategories
    BY <1>4 DEF FormInv, TypeOK, OpenCategories, Row, PlusIsLast
  <1>5. ASSUME NEW c \in Categories, ChooseCategory(c) PROVE FormInv'
    BY <1>5, ReturnForm DEF ChooseCategory, FormInv, TypeOK
  <1>6. CASE LeaveCategories
    BY <1>6, ReturnForm DEF LeaveCategories, FormInv, TypeOK
  <1>7. ASSUME NEW isTitled \in BOOLEAN, EditTitle(isTitled) PROVE FormInv'
    BY <1>7 DEF FormInv, TypeOK, EditTitle, Row, PlusIsLast
  <1>8. CASE FinishAddingPost
    BY <1>8, PostedForm
  <1>9. CASE Exit
    BY <1>9 DEF FormInv, TypeOK, Exit, Row, PlusIsLast
  <1>10. CASE UNCHANGED vars
    BY <1>10 DEF vars, FormInv, TypeOK, Row, PlusIsLast
  <1> QED
    BY <1>1, <1>2, <1>3, <1>4, <1>5, <1>6, <1>7, <1>8, <1>9, <1>10 DEF Next

(* The form's inductive invariant holds of every run of the form.          *)
THEOREM FormInvariant == Spec => []FormInv
  <1>1. FormInv /\ [Next]_vars => FormInv'
    BY NextForm, ConstantsAssumption
  <1> QED
    BY InitForm, <1>1, PTL DEF Spec

(* The variables keep their types, and what is posted is never the plus    *)
(* tile (finishAddingPost).                                                *)
THEOREM TypeCorrect == Spec => []TypeOK
  <1>1. FormInv => TypeOK
    BY DEF FormInv
  <1> QED
    BY FormInvariant, <1>1, PTL

(* The Post button is enabled only when there is a picture to post         *)
(* (finishAddingPost does not trap), for any photos and categories.        *)
THEOREM PostsHavePictures == Spec => []PostHasPicture
  <1>1. FormInv => PostHasPicture
    <2> SUFFICES ASSUME FormInv, enabled PROVE Len(photos) >= 2
      BY DEF PostHasPicture
    <2> QED
      BY DEF FormInv, Row
  <1> QED
    BY FormInvariant, <1>1, PTL

(* The plus tile is the last photo or there are five: it is never posted.  *)
THEOREM PlusStaysLast == Spec => []PlusIsLast
  <1>1. FormInv => PlusIsLast
    BY DEF FormInv
  <1> QED
    BY FormInvariant, <1>1, PTL

(* A default photo is the one of the category on the label.                *)
THEOREM DefaultsMatch == Spec => []DefaultIsOfCategory
  <1>1. FormInv => DefaultIsOfCategory
    <2> SUFFICES ASSUME FormInv, NEW i \in DOMAIN photos, photos[i] \in Categories
                 PROVE  ~ custom /\ i = 1 /\ photos[i] = label
      BY DEF DefaultIsOfCategory
    <2>1. ~ custom
      BY DEF FormInv, Row
    <2>2. photos = <<Plus>> \/ photos = <<label, Plus>>
      BY <2>1 DEF FormInv, Row
    <2>3. Plus \notin Categories
      BY ConstantsAssumption DEF ConstantsAssumption
    <2> QED
      BY <2>1, <2>2, <2>3
  <1> QED
    BY FormInvariant, <1>1, PTL
=============================================================================
