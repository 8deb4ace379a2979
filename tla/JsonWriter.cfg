SPECIFICATION Spec
CONSTANTS
    Options <- MCOptions
INVARIANTS NoAssertion StackIsWhatIsOpen ClosedIsJson ErrorsMarkTheEnd
