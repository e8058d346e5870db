SPECIFICATION Spec
CONSTANTS
    cat = cat
    dog = dog
    design = design
    tutoring = tutoring
    Photos = {cat, dog}
    Categories = {design, tutoring}
    Plus = Plus
    NoCategory = NoCategory
INVARIANTS
    TypeOK
    PostHasPicture
    PlusIsLast
    DefaultIsOfCategory
CHECK_DEADLOCK FALSE
