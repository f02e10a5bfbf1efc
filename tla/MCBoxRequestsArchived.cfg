SPECIFICATION Spec
CONSTANTS
    Requests = {r1}
    Docs = {d1}
    Barcodes = {x, y}
    NoDoc = NoDoc
    NoRetired = NoRetired
SYMMETRY RequestSymmetry
PROPERTIES
    ArchivedBarcodeIsNotReused
