CONSTANTS
    AddressBits = 17
    Texts <- MCTexts
    HexStrings <- MCHexStrings
    SomeAddresses <- MCAddresses
    MaxJudged = 6
SPECIFICATION Spec
INVARIANTS
    AcceptedIsUsable
    ReaderVerdict
    ConfigFollowsText
