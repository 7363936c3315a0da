\* Three starts of the node, one edit of schema.graphql among seven documents,
\* crashes and failing statements anywhere, forced cleans.
SPECIFICATION Spec
CONSTANTS
    Documents <- MCDocuments
    EarlierEnums <- MCEarlierEnums
    Neighbours <- MCNeighbours
    IndexCountLimit = 3
    EntityForm <- MCEntityForm
    FieldForm <- MCFieldForm
    MaxEdits = 1
    MaxStarts = 3
INVARIANTS
    EnumsAsInSchema
    StartCompletesSchema
    HalfStartsDoNotBlock
    FindersUsable
    QueriesAreIndexed
    ModelsBelongTogether
CHECK_DEADLOCK FALSE
