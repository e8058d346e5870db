------------------------------ MODULE PostForm ------------------------------
(***************************************************************************)
(* The form of a new post (PostAdTableViewController): its row of photos   *)
(* with the plus tile, the category chosen on CategoriesTableViewController*)
(* and kept in a static variable, the title and the Post button.           *)
(***************************************************************************)
EXTENDS Integers, Sequences

CONSTANTS
    Photos,      \* what the user may pick from the photo library
    Categories,  \* each stands for its default photo as well
    Plus,        \* the image of the plus tile
    NoCategory

ASSUME ConstantsAssumption ==
    /\ Plus \notin Photos \cup Categories
    /\ NoCategory \notin Categories
    /\ Photos \cap Categories = {}

VARIABLES
    photos,        \* postPhotos
    custom,        \* customPhotoAdded
    cell,          \* indexPathForCell.row + 1, 0 before a cell was tapped
    selectedText,  \* CategoriesTableViewController.selectedCellText
    label,         \* lCategory.text
    titled,        \* tfTitle.text # ""
    enabled,       \* postBtn.isEnabled
    showing,       \* what is on the screen
    posted         \* the pictures handed to saveImages

vars == <<photos, custom, cell, selectedText, label, titled, enabled, showing, posted>>

Images == Photos \cup Categories \cup {Plus}
MaxPhotos == 5

TypeOK ==
    /\ photos \in Seq(Images)
    /\ custom \in BOOLEAN
    /\ cell \in Nat
    /\ selectedText \in Categories \cup {NoCategory}
    /\ label \in Categories \cup {NoCategory}
    /\ titled \in BOOLEAN
    /\ enabled \in BOOLEAN
    /\ showing \in {"form", "library", "categories", "gone"}
    /\ posted \in Seq(Photos \cup Categories)

Init ==
    /\ photos = <<Plus>>
    /\ custom = FALSE
    /\ cell = 0
    /\ selectedText = NoCategory
    /\ label = NoCategory
    /\ titled = FALSE
    /\ enabled = FALSE
    /\ showing = "form"
    /\ posted = << >>

-----------------------------------------------------------------------------
(* Mutants: a plus tile after every change; none after a default photo.    *)
AlwaysWithPlus(s) == Append(s, Plus)
WithPlusAfterOne(s) ==
    IF s[Len(s)] # Plus /\ Len(s) < MaxPhotos /\ Len(s) > 1 THEN Append(s, Plus) ELSE s

(* checkaddPhoto: a last photo that is not the plus tile gets one.         *)
WithPlus(s) ==
    IF s[Len(s)] # Plus /\ Len(s) < MaxPhotos THEN Append(s, Plus) ELSE s

(* viewDidAppear, which runs whenever the form is uncovered: it does       *)
(* nothing before a category was chosen; then it shows the category, sets  *)
(* the Post button and, until a photo was picked, the default photo.       *)
Appear(s, isCustom, text) ==
    IF text = NoCategory
    THEN /\ photos' = s
         /\ UNCHANGED <<label, enabled>>
    ELSE /\ label' = text
         /\ enabled' = titled
         /\ photos' = WithPlus(IF isCustom THEN s ELSE [s EXCEPT ![1] = text])

-----------------------------------------------------------------------------
SelectPhoto(i) ==
    /\ showing = "form"
    /\ i \in DOMAIN photos
    /\ cell' = i
    /\ showing' = "library"
    /\ UNCHANGED <<photos, custom, selectedText, label, titled, enabled, posted>>

(* Mutant: the picked photo always goes to the tapped cell.                *)
PickedCellTapped == cell

(* The first photo picked replaces the tile or the default photo in the    *)
(* first cell, whichever cell was tapped.                                  *)
PickedCell == IF custom THEN cell ELSE 1

PickPhoto(photo) ==
    /\ showing = "library"
    /\ custom' = TRUE
    /\ Appear(WithPlus([photos EXCEPT ![PickedCell] = photo]), TRUE, selectedText)
    /\ showing' = "form"
    /\ UNCHANGED <<cell, selectedText, titled, posted>>

CancelPicking ==
    /\ showing = "library"
    /\ Appear(photos, custom, selectedText)
    /\ showing' = "form"
    /\ UNCHANGED <<custom, cell, selectedText, titled, posted>>

OpenCategories ==
    /\ showing = "form"
    /\ showing' = "categories"
    /\ UNCHANGED <<photos, custom, cell, selectedText, label, titled, enabled, posted>>

ChooseCategory(c) ==
    /\ showing = "categories"
    /\ selectedText' = c
    /\ Appear(photos, custom, c)
    /\ showing' = "form"
    /\ UNCHANGED <<custom, cell, titled, posted>>

LeaveCategories ==
    /\ showing = "categories"
    /\ Appear(photos, custom, selectedText)
    /\ showing' = "form"
    /\ UNCHANGED <<custom, cell, selectedText, titled, posted>>

(* titleChanged.                                                           *)
EditTitle(isTitled) ==
    /\ showing = "form"
    /\ titled' = isTitled
    /\ enabled' = (label # NoCategory /\ isTitled)
    /\ UNCHANGED <<photos, custom, cell, selectedText, label, showing, posted>>

(* Mutant: the plus tile is posted too.                                    *)
PicturesWithPlus(s) == s

(* finishAddingPost: everything but the last photo, which it takes for the *)
(* plus tile.  postPhotos[0...lastGoodPic] traps when there is one photo,  *)
(* which PostHasPicture excludes.                                          *)
Pictures(s) == SubSeq(s, 1, Len(s) - 1)

FinishAddingPost ==
    /\ showing = "form"
    /\ enabled
    /\ Len(photos) >= 2
    /\ posted' = Pictures(photos)
    /\ selectedText' = NoCategory
    /\ showing' = "gone"
    /\ UNCHANGED <<photos, custom, cell, label, titled, enabled>>

Exit ==
    /\ showing = "form"
    /\ selectedText' = NoCategory
    /\ showing' = "gone"
    /\ UNCHANGED <<photos, custom, cell, label, titled, enabled, posted>>

Next ==
    \/ \E i \in DOMAIN photos : SelectPhoto(i)
    \/ \E photo \in Photos : PickPhoto(photo)
    \/ CancelPicking
    \/ OpenCategories
    \/ \E c \in Categories : ChooseCategory(c)
    \/ LeaveCategories
    \/ \E isTitled \in BOOLEAN : EditTitle(isTitled)
    \/ FinishAddingPost
    \/ Exit

Spec == Init /\ [][Next]_vars

-----------------------------------------------------------------------------
(* What holds.                                                             *)

(* The Post button is never enabled while postPhotos[0...lastGoodPic]      *)
(* would trap; so every post has a picture, which uploadImages needs to    *)
(* finish (StorageHelper:110), whatever was picked, chosen and typed.      *)
PostHasPicture == enabled => Len(photos) >= 2

(* The plus tile is only ever the last photo, so it is never uploaded, and *)
(* it is there as long as there is room.                                   *)
PlusIsLast ==
    /\ Len(photos) <= MaxPhotos
    /\ \A i \in 1..(Len(photos) - 1) : photos[i] # Plus
    /\ Len(photos) < MaxPhotos => photos[Len(photos)] = Plus

(* No post carries a default photo of another category: the first photo is *)
(* the one of the category on the label, or one the user picked.           *)
DefaultIsOfCategory ==
    \A i \in DOMAIN photos : photos[i] \in Categories =>
        ~ custom /\ i = 1 /\ photos[i] = label

(* Why they hold: until a photo is picked the row is the plus tile, after  *)
(* the default photo of the category on the label if there is one; from    *)
(* then on it holds picked photos only.                                    *)
Row ==
    IF custom
    THEN /\ Len(photos) >= 2
         /\ \A i \in DOMAIN photos : photos[i] \notin Categories
    ELSE photos = IF label = NoCategory THEN <<Plus>> ELSE <<label, Plus>>

FormInv ==
    /\ TypeOK
    /\ Row
    /\ PlusIsLast
    /\ enabled => label # NoCategory
    /\ showing = "library" => cell \in DOMAIN photos

-----------------------------------------------------------------------------
(* What the repository says and the code does not do.                      *)

(* "when saving we must add the Job object consisting of all the UIView    *)
(* values" (PostAdTableViewController:180): every photo the form shows is  *)
(* posted.                                                                 *)
AllPhotosPosted ==
    posted # << >> =>
        \A i \in DOMAIN photos : photos[i] # Plus => i \in DOMAIN posted
=============================================================================
