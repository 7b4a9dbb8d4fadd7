\* A user plugs, unplugs, plays and records in any order.
SPECIFICATION Spec
CONSTANTS
    AmpKind = "ssm3"
    PlayFormats = {"4041", "4033"}
    CaptureFormats = {"4031"}
INVARIANTS
    TypeOK
    SpeakersPlay
    HeadphonesPlay
    HeadsetRecords
    InternalRecords
    OneRoute
    QuietWhenStopped
    CodecListens
